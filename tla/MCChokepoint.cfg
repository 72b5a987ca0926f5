SPECIFICATION Spec
CONSTANTS
  Agents = {1, 2, 3}
  Points = {1, 2, 3, 4}
  Chokepoints = {1}
  Crossed <- PassCrossed
  Ways <- PassWays
  Start <- QueueStart
  Errand <- QueueErrand
  Sites = {1, 3, 4}
  Versions = {1, 2, 3, 4, 5, 6}
  Routes = {0, 1, 2, 3, 4}
  Maps = {1, 2, 3}
  Horizon = 7
  MaxUpsets = 2
  Calm = 5
INVARIANTS NeverThrows WindowsSound GrantHonoured Exclusive
PROPERTIES ImplementsTable
CHECK_DEADLOCK FALSE
