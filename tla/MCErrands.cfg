CONSTANTS
  Cell = 100
  Columns = 3
  Step = 100
  MaxTicks = 14
  Missions <- MCMissions
  Deltas <- MCDeltas
  Permilles = {500, 850}
  MaxEvents = 1
SPECIFICATION Spec
INVARIANTS PlansHold BidsAreServed
PROPERTY NeverLateInHand
CHECK_DEADLOCK FALSE
