---------------------------- MODULE TaskLedger -----------------------------
(***************************************************************************)
(* What the simulator promises about tasks, without ticks, epochs, links   *)
(* or messages.  A task has at most one owner; ownership never passes      *)
(* directly from one vehicle to another; only a vehicle that is alive      *)
(* takes a task or completes one; a task that ended stays as it ended; a   *)
(* vehicle that failed stays failed.                                       *)
(***************************************************************************)
CONSTANTS Vehicles, Tasks, None, Capable, Preassigned

VARIABLES alive, owner, status

ledgerVars == <<alive, owner, status>>

Init ==
  /\ alive = [v \in Vehicles |-> TRUE]
  /\ owner = Preassigned
  /\ status = [t \in Tasks |-> "pending"]

(* What one step may do to a task.                                         *)
Keep(t) == owner'[t] = owner[t] /\ status'[t] = status[t]

Take(t) ==
  /\ status[t] = "pending" /\ status'[t] = "pending"
  /\ owner[t] = None
  /\ owner'[t] \in Capable[t] /\ alive[owner'[t]]

GiveBack(t) ==
  /\ status[t] = "pending" /\ status'[t] = "pending"
  /\ owner[t] # None
  /\ owner'[t] = None

Complete(t) ==
  /\ status[t] = "pending" /\ status'[t] = "completed"
  /\ owner[t] # None /\ alive[owner[t]]
  /\ owner'[t] = owner[t]

Miss(t) ==
  /\ status[t] = "pending" /\ status'[t] = "missed"
  /\ owner'[t] = owner[t]

MoveTasks ==
  /\ owner' \in [Tasks -> Vehicles \cup {None}]
  /\ status' \in [Tasks -> {"pending", "completed", "missed"}]
  /\ \A t \in Tasks : Keep(t) \/ Take(t) \/ GiveBack(t) \/ Complete(t) \/ Miss(t)
  /\ UNCHANGED alive

Fail ==
  /\ \E v \in Vehicles : alive[v] /\ alive' = [alive EXCEPT ![v] = FALSE]
  /\ UNCHANGED <<owner, status>>

Next == MoveTasks \/ Fail

Spec == Init /\ [][Next]_ledgerVars
=============================================================================
