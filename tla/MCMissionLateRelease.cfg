SPECIFICATION Spec
CONSTANTS
  t1 = t1
  t2 = t2
  None = None
  Vehicles = {1, 2, 3}
  Tasks = {t1, t2}
  Capable <- MCCapable
  Deadline <- MCDeadline
  Service <- MCService
  Preassigned <- MCPreassigned
  ReleasedAtStart = {}
  Detect = 1
  MaxTicks = 5
  MaxEvents = 3
INVARIANT AnnouncedOwnNothing
CHECK_DEADLOCK FALSE
