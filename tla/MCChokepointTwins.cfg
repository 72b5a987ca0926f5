SPECIFICATION Spec
CONSTANTS
  Agents = {1, 2}
  Points = {1, 2, 3, 4, 5}
  Chokepoints = {1, 2}
  Crossed <- TwinCrossed
  Ways <- TwinWays
  Start <- TwinStart
  Errand <- TwinErrand
  Sites = {1, 5}
  Versions = {1, 2, 3, 4, 5, 6, 7, 8}
  Routes = {0, 1, 2}
  Maps = {1}
  Horizon = 12
  MaxUpsets = 0
  Calm = 0
PROPERTIES EntersUnderGrant
CHECK_DEADLOCK FALSE
