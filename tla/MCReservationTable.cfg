SPECIFICATION Spec
CONSTANTS
  Agents = {1, 2, 3}
  Resources = {pass}
  Versions = {1, 2}
  Routes = {1}
  Maps = {1, 2}
  Horizon = 3
INVARIANTS NoOverlap
PROPERTIES DisplacementJustified NoReplay
CHECK_DEADLOCK FALSE
