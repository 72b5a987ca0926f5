SPECIFICATION FairSpec
CONSTANTS
  Agents = {1, 2}
  Points = {1, 2, 3, 4}
  Chokepoints = {1}
  Crossed <- PassCrossed
  Ways <- PassWays
  Start <- PassStart
  Errand <- PassErrand
  Sites = {1, 4}
  Versions = {1, 2, 3, 4, 5, 6, 7, 8, 9, 10, 11, 12, 13, 14, 15, 16, 17, 18, 19, 20}
  Routes = {0, 1, 2, 3, 4, 5, 6, 7, 8, 9, 10, 11, 12}
  Maps = {1, 2, 3, 4}
  Horizon = 24
  MaxUpsets = 2
  Calm = 6
PROPERTIES EveryoneGetsThrough
CHECK_DEADLOCK FALSE
