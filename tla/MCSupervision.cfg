SPECIFICATION FairSpec
CONSTANTS
  Agents = {1, 2}
  Ticks = 2
  MaxFaults = 2
INVARIANTS ExitIsHonest InStep TraceIsWhole
PROPERTIES AllEnd
CHECK_DEADLOCK FALSE
