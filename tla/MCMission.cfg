SPECIFICATION Spec
CONSTANTS
  t1 = t1
  t2 = t2
  None = None
  Vehicles = {1, 2, 3}
  Tasks = {t1, t2}
  Capable <- MCCapable
  Deadline <- MCDeadline
  Service <- MCService
  Preassigned <- MCPreassigned
  ReleasedAtStart = {t1}
  Detect = 2
  MaxTicks = 5
  MaxEvents = 3
INVARIANTS AnnouncedOwnNothing 
PROPERTIES OwnershipEpochsGrow CommitsSeeTheWorld ServiceStartsOver ImplementsLedger
CHECK_DEADLOCK FALSE
