--------------------------- MODULE MissionProofs ---------------------------
(***************************************************************************)
(* What the simulator keeps about tasks, for any fleet, any tasks, any     *)
(* tape of events and any choice the agents make.                          *)
(***************************************************************************)
EXTENDS Mission, FiniteSetTheorems, TLAPS

(* Rejections of one tick are finite in number.                            *)
LEMMA SubsetCardinality ==
  ASSUME NEW S \in SUBSET Tasks
  PROVE  /\ Cardinality(S) \in Nat
         /\ S # {} => Cardinality(S) >= 1
<1>1. IsFiniteSet(S)
  BY TasksAssumption, FS_Subset
<1>2. Cardinality(S) \in Nat /\ (Cardinality(S) = 0 <=> S = {})
  BY <1>1, FS_CardinalityType, FS_EmptySet
<1> QED
  BY <1>2

LEMMA ClearType ==
  ASSUME NEW S, NEW T, NEW f \in [Tasks -> T], NEW x \in T
  PROVE  /\ Clear(f, S, x) \in [Tasks -> T]
         /\ \A t \in Tasks : Clear(f, S, x)[t] = IF t \in S THEN x ELSE f[t]
BY DEF Clear

-----------------------------------------------------------------------------
LEMMA TypeInit == Init => TypeOK
<1> SUFFICES ASSUME Init PROVE TypeOK
  OBVIOUS
<1>1. owner \in [Tasks -> Vehicles \cup {None}]
  BY TasksAssumption DEF Init
<1>2. ownerEpoch \in [Tasks -> Nat]
  BY DEF Init
<1>3. lastOwned \in [Tasks -> Nat]
  BY <1>2 DEF Init
<1>4. /\ tick \in 0..MaxTicks /\ tape \in 0..MaxEvents
      /\ failedAt \in [Vehicles -> Int] /\ epoch \in Nat \ {0}
  BY BoundsAssumption DEF Init
<1>5. /\ active \in [Vehicles -> BOOLEAN] /\ announced \in [Vehicles -> BOOLEAN]
      /\ released \in [Tasks -> BOOLEAN] /\ status \in [Tasks -> Statuses]
  BY DEF Init, Statuses
<1>6. /\ missed \in [Pairs -> Nat] /\ detected \in [Pairs -> Nat]
      /\ progress \in [Tasks -> Nat]
      /\ view \in [epoch : Nat, links : SUBSET Links]
  BY DEF Init
<1>7. /\ phase \in Phases /\ fence \in BOOLEAN /\ mute \subseteq Tasks
      /\ blocked \subseteq Links /\ monitored \subseteq Pairs /\ audible \subseteq Pairs
      /\ samples \subseteq Sample
  BY DEF Init, Phases
<1> QED
  BY <1>1, <1>2, <1>3, <1>4, <1>5, <1>6, <1>7 DEF TypeOK

LEMMA TypeEvents ==
  ASSUME TypeOK,
         \/ \E t \in Tasks : ReleaseTask(t)
         \/ DegradeVehicle
         \/ \E l \in Links, value \in BOOLEAN : SetLinkBlocked(l, value)
         \/ EndEvents
  PROVE  TypeOK'
<1>1. ASSUME NEW t \in Tasks, ReleaseTask(t) PROVE TypeOK'
  BY <1>1, BoundsAssumption DEF TypeOK, ReleaseTask, Event, fleet, radio
<1>2. CASE DegradeVehicle
  BY <1>2, BoundsAssumption DEF TypeOK, DegradeVehicle, Event, fleet, radio, ledger
<1>3. ASSUME NEW l \in Links, NEW value \in BOOLEAN, SetLinkBlocked(l, value)
      PROVE  TypeOK'
  BY <1>3, BoundsAssumption DEF TypeOK, SetLinkBlocked, Event, fleet, ledger
<1>4. CASE EndEvents
  BY <1>4 DEF TypeOK, EndEvents, Phases, fleet, radio, ledger
<1> QED
  BY <1>1, <1>2, <1>3, <1>4

LEMMA TypeDisable ==
  ASSUME TypeOK, NEW v \in Vehicles, DisableVehicle(v)
  PROVE  TypeOK'
<1> DEFINE new == {[task |-> t, failed |-> v, failure |-> tick, previous |-> ownerEpoch[t],
                    detection |-> 0, agent |-> None, epoch |-> 0, commit |-> 0] :
                      t \in Orphans({v})}
<1>1. new \subseteq Sample
  BY DEF TypeOK, Sample, Orphans
<1>2. samples' = samples \cup new
  BY DEF DisableVehicle
<1>3. samples' \subseteq Sample
  BY <1>1, <1>2 DEF TypeOK
<1>4. failedAt' \in [Vehicles -> Int] /\ active' \in [Vehicles -> BOOLEAN]
  BY DEF DisableVehicle, TypeOK
<1>5. monitored' \subseteq Pairs /\ audible' \subseteq Pairs
  BY DEF DisableVehicle, Detectors, TypeOK
<1>6. tape' \in 0..MaxEvents
  BY BoundsAssumption DEF DisableVehicle, Event, TypeOK
<1>7. UNCHANGED <<tick, phase, announced, blocked, missed, detected, epoch, fence, view,
                  mute, ledger, lastOwned>>
  BY DEF DisableVehicle
<1> QED
  BY <1>3, <1>4, <1>5, <1>6, <1>7 DEF TypeOK, ledger

LEMMA TypeDetections ==
  ASSUME TypeOK, ApplyFailureDetections
  PROVE  TypeOK'
<1>1. \A s \in Sample : WithDetection(s, NewlyAnnounced) \in Sample
  <2> SUFFICES ASSUME NEW s \in Sample PROVE WithDetection(s, NewlyAnnounced) \in Sample
    OBVIOUS
  <2>1. tick \in Nat
    BY BoundsAssumption DEF TypeOK
  <2> QED
    BY <2>1 DEF WithDetection, Sample
<1>2. samples' \subseteq Sample
  BY <1>1 DEF ApplyFailureDetections, TypeOK
<1>3. /\ owner' \in [Tasks -> Vehicles \cup {None}]
      /\ ownerEpoch' \in [Tasks -> Nat]
      /\ progress' \in [Tasks -> Nat]
  BY ClearType DEF ApplyFailureDetections, Unassign, TypeOK
<1>4. announced' \in [Vehicles -> BOOLEAN]
  BY DEF ApplyFailureDetections, TypeOK
<1>5. epoch' \in Nat \ {0}
  BY DEF ApplyFailureDetections, EpochAfter, TypeOK
<1> QED
  BY <1>2, <1>3, <1>4, <1>5 DEF TypeOK, ApplyFailureDetections, Phases, radio

LEMMA TypeCommits ==
  ASSUME TypeOK, ApplyCommits
  PROVE  TypeOK'
<1>1. PICK wins \in [Tasks -> Vehicles \cup {None}] :
        LET won == {t \in Tasks : wins[t] # None}
            Completed(s) ==
              IF s.task \in won /\ Completes(s, s.task)
              THEN [s EXCEPT !.agent = wins[s.task], !.epoch = epoch, !.commit = tick]
              ELSE s
        IN
        /\ owner' = [t \in Tasks |-> IF t \in won THEN wins[t] ELSE owner[t]]
        /\ ownerEpoch' = Clear(ownerEpoch, won, epoch)
        /\ lastOwned' = Clear(lastOwned, won, epoch)
        /\ mute' = mute \cup won
        /\ samples' = {Completed(s) : s \in samples}
  BY DEF ApplyCommits
<1>2. epoch \in Nat /\ tick \in Nat
  BY BoundsAssumption DEF TypeOK
<1>3. \A s \in Sample : [s EXCEPT !.agent = wins[s.task], !.epoch = epoch, !.commit = tick]
                          \in Sample
  BY <1>2 DEF Sample
<1>4. samples' \subseteq Sample
  <2> SUFFICES ASSUME NEW c \in samples' PROVE c \in Sample
    OBVIOUS
  <2>1. PICK s \in samples :
          \/ c = s
          \/ c = [s EXCEPT !.agent = wins[s.task], !.epoch = epoch, !.commit = tick]
    BY <1>1, Zenon
  <2>2. s \in Sample
    BY DEF TypeOK
  <2> QED
    BY <1>3, <2>1, <2>2, Zenon
<1>5. /\ ownerEpoch' \in [Tasks -> Nat]
      /\ lastOwned' \in [Tasks -> Nat]
  BY <1>1, <1>2, ClearType DEF TypeOK
<1>6. owner' \in [Tasks -> Vehicles \cup {None}] /\ mute' \subseteq Tasks
  BY <1>1 DEF TypeOK
<1> QED
  BY <1>4, <1>5, <1>6 DEF TypeOK, ApplyCommits, Phases, fleet, radio

LEMMA TypeRejections ==
  ASSUME TypeOK, ApplyRejections
  PROVE  TypeOK'
<1>1. PICK given \in SUBSET {t \in Tasks : MayReject(t)} :
        /\ Unassign(given)
        /\ epoch' = epoch + Cardinality(given)
        /\ mute' = mute \cup {t \in Tasks : \E u \in given : owner[t] = owner[u]}
  BY DEF ApplyRejections
<1>2. Cardinality(given) \in Nat
  BY SubsetCardinality
<1>3. epoch' \in Nat \ {0}
  BY <1>1, <1>2 DEF TypeOK
<1>4. /\ owner' \in [Tasks -> Vehicles \cup {None}]
      /\ ownerEpoch' \in [Tasks -> Nat]
      /\ progress' \in [Tasks -> Nat]
  BY <1>1, ClearType DEF Unassign, TypeOK
<1> QED
  BY <1>1, <1>3, <1>4 DEF TypeOK, ApplyRejections, Phases, fleet, radio

LEMMA TypeMonitors ==
  ASSUME TypeOK, UpdateFailureMonitors
  PROVE  TypeOK'
<1>1. PICK heard \in SUBSET audible :
        /\ missed' = [p \in Pairs |-> IF Counting(p) THEN MissedAfter(p, heard) ELSE missed[p]]
        /\ detected' = [p \in Pairs |-> IF Counting(p) /\ Silent(p, heard) THEN tick + 1
                                        ELSE detected[p]]
  BY DEF UpdateFailureMonitors
<1>2. \A p \in Pairs : MissedAfter(p, heard) \in Nat
  BY DEF MissedAfter, TypeOK
<1>3. tick + 1 \in Nat
  BY BoundsAssumption DEF TypeOK
<1>4. missed' \in [Pairs -> Nat] /\ detected' \in [Pairs -> Nat]
  BY <1>1, <1>2, <1>3 DEF TypeOK
<1> QED
  BY <1>4 DEF TypeOK, UpdateFailureMonitors, Phases, fleet, ledger

(* The handlers of a tick run only when the mission was not finished, so   *)
(* the clock stays within the scenario's ticks.                            *)
InTick == phase # "events" => tick < MaxTicks

LEMMA TypeTasks ==
  ASSUME TypeOK, InTick, UpdateTasks
  PROVE  TypeOK'
<1>1. PICK served \in SUBSET {t \in Tasks : MayServe(t)} :
        /\ progress' = [t \in Tasks |-> ProgressAfter(t, served)]
        /\ status' = [t \in Tasks |-> IF Overdue(t) THEN "missed"
                                      ELSE IF Done(t, served) THEN "completed"
                                      ELSE status[t]]
  BY DEF UpdateTasks
<1>2. \A t \in Tasks : ProgressAfter(t, served) \in Nat
  BY DEF ProgressAfter, TypeOK
<1>3. progress' \in [Tasks -> Nat] /\ status' \in [Tasks -> Statuses]
  BY <1>1, <1>2 DEF TypeOK, Statuses
<1>4. tick' \in 0..MaxTicks
  BY BoundsAssumption DEF TypeOK, InTick, UpdateTasks
<1>5. view' \in [epoch : Nat, links : SUBSET Links]
  BY DEF UpdateTasks, TypeOK
<1> QED
  BY <1>3, <1>4, <1>5 DEF TypeOK, UpdateTasks, Phases, fleet, radio

LEMMA InTickStep == TypeOK /\ InTick /\ [Next]_vars => InTick'
<1> SUFFICES ASSUME TypeOK, InTick, [Next]_vars PROVE InTick'
  OBVIOUS
<1> USE DEF InTick
<1>1. CASE EndEvents
  BY <1>1, BoundsAssumption DEF EndEvents, Finished, TypeOK
<1>2. CASE UpdateTasks
  BY <1>2 DEF UpdateTasks
<1>3. CASE UNCHANGED <<tick, phase>>
  BY <1>3
<1>4. CASE ApplyFailureDetections \/ ApplyCommits \/ ApplyRejections \/ UpdateFailureMonitors
  BY <1>4 DEF ApplyFailureDetections, ApplyCommits, ApplyRejections, UpdateFailureMonitors
<1> QED
  BY <1>1, <1>2, <1>3, <1>4
  DEF Next, vars, ReleaseTask, DisableVehicle, DegradeVehicle, SetLinkBlocked

LEMMA TypeStep == TypeOK /\ InTick /\ [Next]_vars => TypeOK'
<1> SUFFICES ASSUME TypeOK, InTick, [Next]_vars PROVE TypeOK'
  OBVIOUS
<1>1. CASE UNCHANGED vars
  BY <1>1 DEF TypeOK, vars, fleet, radio, ledger
<1> QED
  BY <1>1, TypeEvents, TypeDisable, TypeDetections, TypeCommits, TypeRejections,
     TypeMonitors, TypeTasks DEF Next

(* The simulator's state stays of its type and its clock within max_ticks. *)
THEOREM TypeCorrect == Spec => [](TypeOK /\ InTick)
<1>1. Init => TypeOK /\ InTick
  BY TypeInit DEF Init, InTick
<1> QED
  BY <1>1, TypeStep, InTickStep, PTL DEF Spec

-----------------------------------------------------------------------------
(* What the three handlers that move tasks between owners do to one task;  *)
(* no other step moves any.                                                *)
LEMMA DetectionFacts ==
  ASSUME TypeOK, ApplyFailureDetections, NEW t \in Tasks
  PROVE  /\ epoch' >= epoch
         /\ \/ /\ t \in Orphans(NewlyAnnounced)
               /\ owner'[t] = None /\ progress'[t] = 0 /\ epoch' = epoch + 1
            \/ /\ t \notin Orphans(NewlyAnnounced)
               /\ owner'[t] = owner[t] /\ progress'[t] = progress[t]
               /\ ownerEpoch'[t] = ownerEpoch[t]
<1> DEFINE gone == Orphans(NewlyAnnounced)
<1>1. /\ owner' = Clear(owner, gone, None)
      /\ ownerEpoch' = Clear(ownerEpoch, gone, 0)
      /\ progress' = Clear(progress, gone, 0)
      /\ epoch' = EpochAfter(gone)
  BY DEF ApplyFailureDetections, Unassign
<1>2. epoch \in Nat
  BY DEF TypeOK
<1> HIDE DEF gone
<1>3. CASE t \in gone
  <2>1. epoch' = epoch + 1
    BY <1>1, <1>3 DEF EpochAfter
  <2>2. owner'[t] = None /\ progress'[t] = 0
    BY <1>1, <1>3 DEF Clear
  <2> QED
    BY <2>1, <2>2, <1>2, <1>3 DEF gone
<1>4. CASE t \notin gone
  <2>1. epoch' >= epoch
    BY <1>1, <1>2 DEF EpochAfter
  <2>2. /\ owner'[t] = owner[t] /\ progress'[t] = progress[t]
        /\ ownerEpoch'[t] = ownerEpoch[t]
    BY <1>1, <1>4 DEF Clear
  <2> QED
    BY <2>1, <2>2, <1>4 DEF gone
<1> QED
  BY <1>3, <1>4

LEMMA CommitFacts ==
  ASSUME TypeOK, ApplyCommits, NEW t \in Tasks
  PROVE  \/ /\ owner'[t] = owner[t] /\ lastOwned'[t] = lastOwned[t]
            /\ ownerEpoch'[t] = ownerEpoch[t]
         \/ /\ owner'[t] \in Vehicles /\ MayCommit(owner'[t], t)
            /\ ownerEpoch'[t] = epoch /\ lastOwned'[t] = epoch
<1>1. PICK wins \in [Tasks -> Vehicles \cup {None}] :
        LET won == {u \in Tasks : wins[u] # None}
        IN
        /\ \A u \in won : MayCommit(wins[u], u)
        /\ owner' = [u \in Tasks |-> IF u \in won THEN wins[u] ELSE owner[u]]
        /\ ownerEpoch' = Clear(ownerEpoch, won, epoch)
        /\ lastOwned' = Clear(lastOwned, won, epoch)
  BY DEF ApplyCommits
<1>2. CASE wins[t] # None
  BY <1>1, <1>2 DEF Clear
<1>3. CASE wins[t] = None
  BY <1>1, <1>3 DEF Clear
<1> QED
  BY <1>2, <1>3

LEMMA RejectionFacts ==
  ASSUME TypeOK, ApplyRejections, NEW t \in Tasks
  PROVE  /\ epoch' >= epoch
         /\ \/ /\ MayReject(t)
               /\ owner'[t] = None /\ progress'[t] = 0 /\ epoch' > epoch
            \/ /\ owner'[t] = owner[t] /\ progress'[t] = progress[t]
               /\ ownerEpoch'[t] = ownerEpoch[t]
<1>1. PICK given \in SUBSET {u \in Tasks : MayReject(u)} :
        Unassign(given) /\ epoch' = epoch + Cardinality(given)
  BY DEF ApplyRejections
<1>2. given \in SUBSET Tasks
  OBVIOUS
<1>3. Cardinality(given) \in Nat /\ (given # {} => Cardinality(given) >= 1)
  BY <1>2, SubsetCardinality
<1>4. epoch \in Nat
  BY DEF TypeOK
<1>5. epoch' >= epoch
  BY <1>1, <1>3, <1>4
<1>6. CASE t \in given
  <2>1. epoch' > epoch
    BY <1>1, <1>3, <1>4, <1>6
  <2> QED
    BY <1>1, <1>5, <1>6, <2>1 DEF Unassign, Clear
<1>7. CASE t \notin given
  BY <1>1, <1>5, <1>7 DEF Unassign, Clear
<1> QED
  BY <1>6, <1>7

LEMMA OwnersMoveInHandlers ==
  ASSUME [Next]_vars
  PROVE  \/ ApplyFailureDetections
         \/ ApplyCommits
         \/ ApplyRejections
         \/ UNCHANGED <<owner, ownerEpoch, lastOwned>>
BY DEF Next, vars, ledger, ReleaseTask, DisableVehicle, DegradeVehicle, SetLinkBlocked,
       EndEvents, UpdateFailureMonitors, UpdateTasks

LEMMA EpochMovesInHandlers ==
  ASSUME [Next]_vars
  PROVE  ApplyFailureDetections \/ ApplyRejections \/ epoch' \in {epoch, epoch + 1}
<1>1. CASE \E t \in Tasks : ReleaseTask(t)
  BY <1>1 DEF ReleaseTask
<1>2. CASE DegradeVehicle
  BY <1>2 DEF DegradeVehicle
<1> QED
  BY <1>1, <1>2
  DEF Next, vars, DisableVehicle, SetLinkBlocked, EndEvents, ApplyCommits,
      UpdateFailureMonitors, UpdateTasks

LEMMA EpochNeverFalls ==
  ASSUME TypeOK, [Next]_vars
  PROVE  epoch' \in Nat /\ epoch' >= epoch
<1>1. epoch \in Nat
  BY DEF TypeOK
<1>2. CASE ApplyFailureDetections
  BY <1>1, <1>2 DEF ApplyFailureDetections, EpochAfter
<1>3. CASE ApplyRejections
  BY <1>1, <1>3, SubsetCardinality DEF ApplyRejections
<1>4. CASE epoch' \in {epoch, epoch + 1}
  BY <1>1, <1>4
<1> QED
  BY <1>2, <1>3, <1>4, EpochMovesInHandlers

-----------------------------------------------------------------------------
(* Why epochs of ownership grow: no task was ever committed under an epoch *)
(* that is still to come, and a task without owner waits for a newer one.  *)
EpochInv ==
  \A t \in Tasks : /\ lastOwned[t] <= epoch
                   /\ owner[t] = None => lastOwned[t] < epoch

LEMMA EpochInvStep == TypeOK /\ EpochInv /\ [Next]_vars => EpochInv'
<1> SUFFICES ASSUME TypeOK, EpochInv, [Next]_vars, NEW t \in Tasks
             PROVE  /\ lastOwned'[t] <= epoch'
                    /\ owner'[t] = None => lastOwned'[t] < epoch'
  BY DEF EpochInv
<1>1. /\ epoch \in Nat /\ lastOwned[t] \in Nat
      /\ lastOwned[t] <= epoch /\ (owner[t] = None => lastOwned[t] < epoch)
  BY DEF TypeOK, EpochInv
<1>2. epoch' \in Nat /\ epoch' >= epoch
  BY EpochNeverFalls
<1>3. CASE ApplyFailureDetections
  <2>1. lastOwned' = lastOwned
    BY <1>3 DEF ApplyFailureDetections
  <2> QED
    BY <1>1, <1>2, <1>3, <2>1, DetectionFacts
<1>4. CASE ApplyCommits
  <2>1. epoch' = epoch
    BY <1>4 DEF ApplyCommits
  <2> QED
    BY <1>1, <1>4, <2>1, CommitFacts, VehiclesAssumption
<1>5. CASE ApplyRejections
  <2>1. lastOwned' = lastOwned
    BY <1>5 DEF ApplyRejections
  <2> QED
    BY <1>1, <1>2, <1>5, <2>1, RejectionFacts
<1>6. CASE UNCHANGED <<owner, ownerEpoch, lastOwned>>
  BY <1>1, <1>2, <1>6
<1> QED
  BY <1>3, <1>4, <1>5, <1>6, OwnersMoveInHandlers

(* Each ownership of a task is under a newer epoch than the one before it, *)
(* so agents that order what they hear by epoch agree with the simulator.  *)
THEOREM OwnershipGrows == Spec => OwnershipEpochsGrow
<1>1. Init => EpochInv
  BY DEF Init, EpochInv
<1>2. TypeOK /\ EpochInv /\ [Next]_vars
        => [\A t \in Tasks : owner[t] = None /\ owner'[t] # None
                               => lastOwned[t] < ownerEpoch'[t]]_vars
  <2> SUFFICES ASSUME TypeOK, EpochInv, [Next]_vars, NEW t \in Tasks,
                      owner[t] = None, owner'[t] # None
               PROVE  lastOwned[t] < ownerEpoch'[t]
    OBVIOUS
  <2>1. ApplyCommits
    BY OwnersMoveInHandlers, DetectionFacts, RejectionFacts
  <2>2. ownerEpoch'[t] = epoch
    BY <2>1, CommitFacts
  <2> QED
    BY <2>2 DEF EpochInv
<1> QED
  BY <1>1, <1>2, EpochInvStep, TypeCorrect, PTL DEF Spec, OwnershipEpochsGrow

-----------------------------------------------------------------------------
(* Outside the fence of a link event, the links are as the agents saw them.*)
FenceInv == ~fence => view.links = blocked

(* A commit takes effect only in the world its agent was shown: under the  *)
(* epoch it saw, and with every link as it saw it.                         *)
THEOREM CommitsAreCurrent == Spec => CommitsSeeTheWorld
<1>1. Init => FenceInv
  BY DEF Init, FenceInv
<1>2. FenceInv /\ [Next]_vars => FenceInv'
  <2> SUFFICES ASSUME FenceInv, [Next]_vars PROVE FenceInv'
    OBVIOUS
  <2>1. CASE \E l \in Links, value \in BOOLEAN : SetLinkBlocked(l, value)
    BY <2>1 DEF SetLinkBlocked, FenceInv
  <2>2. CASE UpdateTasks
    BY <2>2 DEF UpdateTasks, radio, FenceInv
  <2>3. CASE UNCHANGED <<fence, view, blocked>>
    BY <2>3 DEF FenceInv
  <2> QED
    BY <2>1, <2>2, <2>3
    DEF Next, vars, radio, ReleaseTask, DisableVehicle, DegradeVehicle, EndEvents,
        ApplyFailureDetections, ApplyCommits, ApplyRejections, UpdateFailureMonitors
<1>3. TypeOK /\ FenceInv /\ [Next]_vars
        => [\A t \in Tasks : owner[t] = None /\ owner'[t] # None
                               => view.epoch = epoch /\ view.links = blocked]_vars
  <2> SUFFICES ASSUME TypeOK, FenceInv, [Next]_vars, NEW t \in Tasks,
                      owner[t] = None, owner'[t] # None
               PROVE  view.epoch = epoch /\ view.links = blocked
    OBVIOUS
  <2>1. ApplyCommits
    BY OwnersMoveInHandlers, DetectionFacts, RejectionFacts
  <2>2. MayCommit(owner'[t], t)
    BY <2>1, CommitFacts
  <2> QED
    BY <2>2 DEF FenceInv, MayCommit, ValidCommit
<1> QED
  BY <1>1, <1>2, <1>3, TypeCorrect, PTL DEF Spec, CommitsSeeTheWorld

-----------------------------------------------------------------------------
(* What the simulator knows to be dead is dead: a monitor only listens for *)
(* a vehicle that failed, and only a monitor announces.                    *)
DeadInv ==
  /\ \A p \in monitored : ~active[p[2]]
  /\ \A v \in Vehicles : announced[v] => ~active[v]

FleetStays == UNCHANGED <<active, announced, monitored>>

LEMMA FleetMoves ==
  ASSUME [Next]_vars
  PROVE  \/ \E v \in Vehicles : DisableVehicle(v)
         \/ ApplyFailureDetections
         \/ FleetStays
BY DEF Next, vars, fleet, radio, FleetStays, ReleaseTask, DegradeVehicle, SetLinkBlocked,
       EndEvents, ApplyCommits, ApplyRejections, UpdateFailureMonitors, UpdateTasks

LEMMA DeadInvStep == TypeOK /\ DeadInv /\ [Next]_vars => DeadInv'
<1> SUFFICES ASSUME TypeOK, DeadInv, [Next]_vars PROVE DeadInv'
  OBVIOUS
<1>1. ASSUME NEW v \in Vehicles, DisableVehicle(v) PROVE DeadInv'
  <2>1. \A u \in Vehicles : active'[u] => active[u] /\ u # v
    BY <1>1 DEF DisableVehicle, TypeOK
  <2>2. \A p \in monitored' : p \in monitored \/ p[2] = v
    BY <1>1 DEF DisableVehicle, Detectors
  <2>3. monitored' \subseteq Pairs
    BY <1>1 DEF DisableVehicle, Detectors, TypeOK
  <2>4. announced' = announced
    BY <1>1 DEF DisableVehicle
  <2> QED
    BY <2>1, <2>2, <2>3, <2>4 DEF DeadInv, Pairs
<1>2. CASE ApplyFailureDetections
  <2>1. active' = active /\ monitored' = monitored
    BY <1>2 DEF ApplyFailureDetections, radio
  <2>2. \A v \in Vehicles : announced'[v] => announced[v] \/ v \in NewlyAnnounced
    BY <1>2 DEF ApplyFailureDetections
  <2>3. \A v \in NewlyAnnounced : ~active[v]
    BY DEF NewlyAnnounced, Reports, DeadInv
  <2> QED
    BY <2>1, <2>2, <2>3 DEF DeadInv
<1>3. CASE FleetStays
  BY <1>3 DEF DeadInv, FleetStays
<1> QED
  BY <1>1, <1>2, <1>3, FleetMoves

(* With the tasks that have an owner from the start released at the start, *)
(* only released tasks have owners, and a vehicle known to be dead owns no *)
(* task that is still open.                                                *)
OwnedIsReleased == \A t \in Tasks : owner[t] # None => released[t]

LEMMA StatusMoves ==
  ASSUME [Next]_vars
  PROVE  \/ \E t \in Tasks : ReleaseTask(t)
         \/ UpdateTasks
         \/ UNCHANGED <<released, status>>
BY DEF Next, vars, ledger, DisableVehicle, DegradeVehicle, SetLinkBlocked, EndEvents,
       ApplyFailureDetections, ApplyCommits, ApplyRejections, UpdateFailureMonitors

LEMMA OwnedIsReleasedStep ==
  TypeOK /\ OwnedIsReleased /\ [Next]_vars => OwnedIsReleased'
<1> SUFFICES ASSUME TypeOK, OwnedIsReleased, [Next]_vars, NEW t \in Tasks,
                    owner'[t] # None
             PROVE  released'[t]
  BY DEF OwnedIsReleased
<1>1. released[t] => released'[t]
  <2>1. ASSUME NEW u \in Tasks, ReleaseTask(u) PROVE released[t] => released'[t]
    BY <2>1 DEF ReleaseTask, TypeOK
  <2>2. CASE UpdateTasks
    BY <2>2 DEF UpdateTasks
  <2> QED
    BY <2>1, <2>2, StatusMoves
<1>2. owner[t] # None \/ Open(t)
  <2>1. CASE ApplyFailureDetections
    BY <2>1, DetectionFacts
  <2>2. CASE ApplyCommits
    BY <2>2, CommitFacts DEF MayCommit, ValidCommit
  <2>3. CASE ApplyRejections
    BY <2>3, RejectionFacts
  <2> QED
    BY <2>1, <2>2, <2>3, OwnersMoveInHandlers
<1> QED
  BY <1>1, <1>2 DEF OwnedIsReleased, Open

ReleasedFirst == \A t \in Tasks : Preassigned[t] # None => t \in ReleasedAtStart

LEMMA AnnouncedStep ==
  /\ TypeOK /\ DeadInv /\ OwnedIsReleased /\ AnnouncedOwnNothing /\ [Next]_vars
  => AnnouncedOwnNothing'
<1> SUFFICES ASSUME TypeOK, DeadInv, OwnedIsReleased, AnnouncedOwnNothing, [Next]_vars,
                    NEW t \in Tasks, Open(t)', owner'[t] # None, announced'[owner'[t]]
             PROVE  FALSE
  BY DEF AnnouncedOwnNothing
<1>1. CASE ApplyFailureDetections
  <2>1. UNCHANGED <<released, status>>
    BY <1>1 DEF ApplyFailureDetections
  <2>2. owner'[t] = owner[t] /\ t \notin Orphans(NewlyAnnounced)
    BY <1>1, DetectionFacts
  <2>3. Open(t) /\ owner[t] \notin NewlyAnnounced
    BY <2>1, <2>2 DEF Open, Orphans
  <2>4. owner[t] \in Vehicles
    BY <2>2 DEF TypeOK
  <2>5. announced[owner[t]]
    BY <1>1, <2>2, <2>3, <2>4 DEF ApplyFailureDetections
  <2> QED
    BY <2>2, <2>3, <2>5 DEF AnnouncedOwnNothing
<1>2. CASE ApplyCommits
  <2>1. UNCHANGED <<released, status, announced>>
    BY <1>2 DEF ApplyCommits, fleet
  <2>2. CASE owner'[t] = owner[t]
    BY <2>1, <2>2 DEF AnnouncedOwnNothing, Open
  <2>3. CASE owner'[t] \in Vehicles /\ MayCommit(owner'[t], t)
    BY <2>1, <2>3 DEF MayCommit, ValidCommit, DeadInv
  <2> QED
    BY <1>2, <2>2, <2>3, CommitFacts
<1>3. CASE ApplyRejections
  <2>1. UNCHANGED <<released, status, announced>> /\ owner'[t] = owner[t]
    BY <1>3, RejectionFacts DEF ApplyRejections, fleet
  <2> QED
    BY <2>1 DEF AnnouncedOwnNothing, Open
<1>4. CASE UNCHANGED owner /\ ~ApplyFailureDetections
  <2>1. announced' = announced
    BY <1>4, FleetMoves DEF FleetStays, DisableVehicle
  <2>2. Open(t)
    <3>1. ASSUME NEW u \in Tasks, ReleaseTask(u) PROVE Open(t)
      BY <3>1, <1>4 DEF ReleaseTask, Open, TypeOK, OwnedIsReleased
    <3>2. CASE UpdateTasks
      BY <3>2 DEF UpdateTasks, Open, Done, MayServe, Servable, TypeOK, Statuses
    <3> QED
      BY <3>1, <3>2, StatusMoves DEF Open
  <2> QED
    BY <1>4, <2>1, <2>2 DEF AnnouncedOwnNothing
<1> QED
  BY <1>1, <1>2, <1>3, <1>4, OwnersMoveInHandlers

(* If every task with an owner is released from the start, no vehicle that *)
(* was announced dead owns an open task: what architecture.md promises of  *)
(* orphans holds under exactly the assumption the late release breaks.     *)
THEOREM AnnouncedOwnsNothing ==
  ASSUME ReleasedFirst
  PROVE  Spec => []AnnouncedOwnNothing
<1>1. Init => DeadInv /\ OwnedIsReleased /\ AnnouncedOwnNothing
  <2> SUFFICES ASSUME Init PROVE DeadInv /\ OwnedIsReleased /\ AnnouncedOwnNothing
    OBVIOUS
  <2>1. DeadInv
    BY DEF Init, DeadInv
  <2>2. OwnedIsReleased
    BY DEF Init, OwnedIsReleased, ReleasedFirst
  <2>3. AnnouncedOwnNothing
    BY TasksAssumption DEF Init, AnnouncedOwnNothing
  <2> QED
    BY <2>1, <2>2, <2>3
<1> QED
  BY <1>1, DeadInvStep, OwnedIsReleasedStep, AnnouncedStep, TypeCorrect, PTL DEF Spec

-----------------------------------------------------------------------------
(* A task without an owner holds no service.                               *)
IdleInv == \A t \in Tasks : owner[t] = None => progress[t] = 0

LEMMA ProgressMovesInHandlers ==
  ASSUME [Next]_vars
  PROVE  \/ ApplyFailureDetections
         \/ ApplyRejections
         \/ UpdateTasks
         \/ UNCHANGED progress
BY DEF Next, vars, ledger, ReleaseTask, DisableVehicle, DegradeVehicle, SetLinkBlocked,
       EndEvents, ApplyCommits, UpdateFailureMonitors

LEMMA IdleInvStep == TypeOK /\ IdleInv /\ [Next]_vars => IdleInv'
<1> SUFFICES ASSUME TypeOK, IdleInv, [Next]_vars, NEW t \in Tasks, owner'[t] = None
             PROVE  progress'[t] = 0
  BY DEF IdleInv
<1>1. CASE ApplyFailureDetections
  BY <1>1, DetectionFacts DEF IdleInv
<1>2. CASE ApplyCommits
  <2>1. progress' = progress
    BY <1>2 DEF ApplyCommits
  <2> QED
    BY <1>2, <2>1, CommitFacts, VehiclesAssumption DEF IdleInv
<1>3. CASE ApplyRejections
  BY <1>3, RejectionFacts DEF IdleInv
<1>4. CASE UpdateTasks
  <2>1. PICK served \in SUBSET {u \in Tasks : MayServe(u)} :
          progress' = [u \in Tasks |-> ProgressAfter(u, served)]
    BY <1>4 DEF UpdateTasks
  <2>2. owner[t] = None /\ progress[t] = 0
    BY <1>4 DEF UpdateTasks, IdleInv
  <2>3. t \notin served
    BY <2>2 DEF MayServe, Servable
  <2> QED
    BY <2>1, <2>2, <2>3 DEF ProgressAfter
<1>5. CASE UNCHANGED <<owner, progress>>
  BY <1>5 DEF IdleInv
<1> QED
  BY <1>1, <1>2, <1>3, <1>4, <1>5, ProgressMovesInHandlers, OwnersMoveInHandlers

(* No owner starts from, or leaves behind, another one's service.          *)
THEOREM ServiceIsNotInherited == Spec => ServiceStartsOver
<1>1. Init => IdleInv
  BY DEF Init, IdleInv
<1>2. TypeOK /\ IdleInv /\ [Next]_vars
        => [\A t \in Tasks : owner'[t] # owner[t]
                               => progress[t] = 0 \/ progress'[t] = 0]_vars
  <2> SUFFICES ASSUME TypeOK, IdleInv, [Next]_vars, NEW t \in Tasks, owner'[t] # owner[t]
               PROVE  progress[t] = 0 \/ progress'[t] = 0
    OBVIOUS
  <2>1. CASE ApplyFailureDetections
    BY <2>1, DetectionFacts
  <2>2. CASE ApplyCommits
    BY <2>2, CommitFacts DEF IdleInv, MayCommit, ValidCommit
  <2>3. CASE ApplyRejections
    BY <2>3, RejectionFacts
  <2> QED
    BY <2>1, <2>2, <2>3, OwnersMoveInHandlers
<1> QED
  BY <1>1, <1>2, IdleInvStep, TypeCorrect, PTL DEF Spec, ServiceStartsOver

-----------------------------------------------------------------------------
(* The simulator implements the ledger: every step moves each task at most *)
(* one move along, or disables one vehicle, or leaves the ledger alone.    *)
LEMMA LedgerMoves ==
  ASSUME TypeOK, TypeOK', UNCHANGED active,
         \A t \in Tasks : \/ Ledger!Keep(t) \/ Ledger!Take(t) \/ Ledger!GiveBack(t)
                          \/ Ledger!Complete(t) \/ Ledger!Miss(t)
  PROVE  Ledger!Next
BY DEF Ledger!Next, Ledger!MoveTasks, TypeOK, Statuses

LEMMA LedgerStep == TypeOK /\ TypeOK' /\ [Next]_vars => [Ledger!Next]_(Ledger!ledgerVars)
<1> SUFFICES ASSUME TypeOK, TypeOK', [Next]_vars
             PROVE  Ledger!Next \/ UNCHANGED Ledger!ledgerVars
  OBVIOUS
<1>1. ASSUME NEW v \in Vehicles, DisableVehicle(v) PROVE Ledger!Next
  <2>1. active[v] /\ active' = [active EXCEPT ![v] = FALSE] /\ UNCHANGED <<owner, status>>
    BY <1>1 DEF DisableVehicle, ledger
  <2> QED
    BY <2>1 DEF Ledger!Next, Ledger!Fail
<1>2. CASE ApplyFailureDetections
  <2>1. UNCHANGED <<active, status, released>>
    BY <1>2 DEF ApplyFailureDetections
  <2>2. \A t \in Tasks : Ledger!Keep(t) \/ Ledger!GiveBack(t)
    <3> SUFFICES ASSUME NEW t \in Tasks PROVE Ledger!Keep(t) \/ Ledger!GiveBack(t)
      OBVIOUS
    <3>1. CASE t \in Orphans(NewlyAnnounced)
      <4>1. Open(t) /\ owner[t] \in Vehicles /\ owner'[t] = None
        BY <1>2, <3>1, DetectionFacts DEF Orphans, NewlyAnnounced
      <4> QED
        BY <2>1, <4>1, VehiclesAssumption DEF Ledger!GiveBack, Open
    <3>2. CASE t \notin Orphans(NewlyAnnounced)
      BY <1>2, <2>1, <3>2, DetectionFacts DEF Ledger!Keep
    <3> QED
      BY <3>1, <3>2
  <2> QED
    BY <2>1, <2>2, LedgerMoves
<1>3. CASE ApplyCommits
  <2>1. UNCHANGED <<active, status>>
    BY <1>3 DEF ApplyCommits, fleet
  <2>2. \A t \in Tasks : Ledger!Keep(t) \/ Ledger!Take(t)
    BY <1>3, <2>1, CommitFacts
    DEF Ledger!Keep, Ledger!Take, MayCommit, ValidCommit, Open
  <2> QED
    BY <2>1, <2>2, LedgerMoves
<1>4. CASE ApplyRejections
  <2>1. UNCHANGED <<active, status>>
    BY <1>4 DEF ApplyRejections, fleet
  <2>2. \A t \in Tasks : Ledger!Keep(t) \/ Ledger!GiveBack(t)
    BY <1>4, <2>1, RejectionFacts DEF Ledger!Keep, Ledger!GiveBack, MayReject, Open
  <2> QED
    BY <2>1, <2>2, LedgerMoves
<1>5. CASE UpdateTasks
  <2>1. PICK served \in SUBSET {t \in Tasks : MayServe(t)} :
          status' = [t \in Tasks |-> IF Overdue(t) THEN "missed"
                                     ELSE IF Done(t, served) THEN "completed"
                                     ELSE status[t]]
    BY <1>5 DEF UpdateTasks
  <2>2. UNCHANGED <<active, owner>>
    BY <1>5 DEF UpdateTasks, fleet
  <2>3. \A t \in Tasks : Ledger!Keep(t) \/ Ledger!Complete(t) \/ Ledger!Miss(t)
    <3> SUFFICES ASSUME NEW t \in Tasks
                 PROVE  Ledger!Keep(t) \/ Ledger!Complete(t) \/ Ledger!Miss(t)
      OBVIOUS
    <3>1. CASE Overdue(t)
      BY <2>1, <2>2, <3>1 DEF Ledger!Miss, Overdue, Open
    <3>2. CASE ~Overdue(t) /\ Done(t, served)
      BY <2>1, <2>2, <3>2 DEF Ledger!Complete, Done, MayServe, Servable, Open
    <3>3. CASE ~Overdue(t) /\ ~Done(t, served)
      BY <2>1, <2>2, <3>3 DEF Ledger!Keep
    <3> QED
      BY <3>1, <3>2, <3>3
  <2> QED
    BY <2>2, <2>3, LedgerMoves
<1>6. CASE UNCHANGED <<active, owner, status>>
  BY <1>6 DEF Ledger!ledgerVars
<1> QED
  BY <1>1, <1>2, <1>3, <1>4, <1>5, <1>6
  DEF Next, vars, fleet, ledger, ReleaseTask, DegradeVehicle, SetLinkBlocked, EndEvents,
      UpdateFailureMonitors

(* A simulator that announces, fences, commits and serves is a ledger in   *)
(* which no task passes directly between vehicles and the dead do nothing. *)
THEOREM MissionImplementsLedger == Spec => ImplementsLedger
<1>1. Init => Ledger!Init
  BY DEF Init, Ledger!Init
<1> QED
  BY <1>1, LedgerStep, TypeCorrect, PTL DEF Spec, ImplementsLedger, Ledger!Spec

-----------------------------------------------------------------------------
(* Reassignments.  What the handlers do to the samples.                    *)
Orphaned(v) ==
  {[task |-> t, failed |-> v, failure |-> tick, previous |-> ownerEpoch[t],
    detection |-> 0, agent |-> None, epoch |-> 0, commit |-> 0] :
     t \in Orphans({v})}

LEMMA SamplesMove ==
  ASSUME [Next]_vars
  PROVE  \/ \E v \in Vehicles : DisableVehicle(v)
         \/ ApplyFailureDetections
         \/ ApplyCommits
         \/ UNCHANGED samples
BY DEF Next, vars, ReleaseTask, DegradeVehicle, SetLinkBlocked, EndEvents,
       ApplyRejections, UpdateFailureMonitors, UpdateTasks

LEMMA DisableFacts ==
  ASSUME NEW v \in Vehicles, DisableVehicle(v)
  PROVE  samples' = samples \cup Orphaned(v)
BY DEF DisableVehicle, Orphaned

LEMMA DetectionSamples ==
  ASSUME TypeOK, ApplyFailureDetections, NEW s \in samples'
  PROVE  \E r \in samples : s = WithDetection(r, NewlyAnnounced)
BY SMTT(30) DEF ApplyFailureDetections

(* A commit of t completes a sample of t, or leaves it as it is.           *)
LEMMA CommitSamples ==
  ASSUME TypeOK, ApplyCommits, NEW s \in samples'
  PROVE  \E r \in samples :
           \/ /\ s = r
              /\ owner'[r.task] = owner[r.task] \/ ~Completes(r, r.task)
           \/ /\ s = [r EXCEPT !.agent = owner'[r.task], !.epoch = epoch, !.commit = tick]
              /\ Completes(r, r.task)
              /\ owner'[r.task] \in Vehicles
              /\ MayCommit(owner'[r.task], r.task)
<1>1. PICK wins \in [Tasks -> Vehicles \cup {None}] :
        LET won == {t \in Tasks : wins[t] # None}
            Completed(r) ==
              IF r.task \in won /\ Completes(r, r.task)
              THEN [r EXCEPT !.agent = wins[r.task], !.epoch = epoch, !.commit = tick]
              ELSE r
        IN
        /\ \A t \in won : MayCommit(wins[t], t)
        /\ owner' = [t \in Tasks |-> IF t \in won THEN wins[t] ELSE owner[t]]
        /\ samples' = {Completed(r) : r \in samples}
  BY DEF ApplyCommits
<1>2. PICK r \in samples :
        s = IF wins[r.task] # None /\ r.task \in Tasks /\ Completes(r, r.task)
            THEN [r EXCEPT !.agent = wins[r.task], !.epoch = epoch, !.commit = tick]
            ELSE r
  BY <1>1
<1>3. r.task \in Tasks
  BY DEF TypeOK, Sample
<1>4. owner'[r.task] = IF wins[r.task] # None THEN wins[r.task] ELSE owner[r.task]
  BY <1>1, <1>3
<1>5. CASE wins[r.task] # None /\ Completes(r, r.task)
  <2>1. owner'[r.task] = wins[r.task] /\ wins[r.task] \in Vehicles
    BY <1>1, <1>3, <1>4, <1>5
  <2>2. MayCommit(owner'[r.task], r.task)
    BY <1>1, <1>3, <1>5, <2>1
  <2>3. s = [r EXCEPT !.agent = owner'[r.task], !.epoch = epoch, !.commit = tick]
    BY <1>2, <1>3, <1>5, <2>1
  <2> QED
    BY <1>5, <2>1, <2>2, <2>3
<1>6. CASE ~(wins[r.task] # None /\ Completes(r, r.task))
  BY <1>2, <1>4, <1>6
<1> QED
  BY <1>5, <1>6

(* An owner holds its task under the last epoch the task was committed in. *)
HeldInv == \A t \in Tasks : owner[t] # None => ownerEpoch[t] = lastOwned[t]

LEMMA HeldInvStep == TypeOK /\ HeldInv /\ [Next]_vars => HeldInv'
<1> SUFFICES ASSUME TypeOK, HeldInv, [Next]_vars, NEW t \in Tasks, owner'[t] # None
             PROVE  ownerEpoch'[t] = lastOwned'[t]
  BY DEF HeldInv
<1>1. CASE ApplyFailureDetections
  <2>1. lastOwned' = lastOwned
    BY <1>1 DEF ApplyFailureDetections
  <2> QED
    BY <1>1, <2>1, DetectionFacts DEF HeldInv
<1>2. CASE ApplyCommits
  BY <1>2, CommitFacts DEF HeldInv
<1>3. CASE ApplyRejections
  <2>1. lastOwned' = lastOwned
    BY <1>3 DEF ApplyRejections
  <2> QED
    BY <1>3, <2>1, RejectionFacts DEF HeldInv
<1>4. CASE UNCHANGED <<owner, ownerEpoch, lastOwned>>
  BY <1>4 DEF HeldInv
<1> QED
  BY <1>1, <1>2, <1>3, <1>4, OwnersMoveInHandlers

(* An open sample is one whose task is still with the vehicle that failed, *)
(* or waits without owner for the commit that completes the sample.        *)
SampleOpen(s) ==
  /\ ~active[s.failed]
  /\ s.previous <= lastOwned[s.task]
  /\ s.agent = None => \/ owner[s.task] = s.failed
                       \/ owner[s.task] = None /\ s.detection # 0

OpenInv == OneOpenReassignment /\ \A s \in samples : SampleOpen(s)

LEMMA OpenInvDisable ==
  ASSUME TypeOK, HeldInv, OpenInv, NEW v \in Vehicles, DisableVehicle(v)
  PROVE  OpenInv'
<1>1. UNCHANGED <<owner, lastOwned>> /\ active[v]
  BY DEF DisableVehicle, ledger
<1>2. \A u \in Vehicles : active'[u] <=> active[u] /\ u # v
  BY DEF DisableVehicle, TypeOK
<1>3. samples' = samples \cup Orphaned(v)
  BY DisableFacts
<1>4. ASSUME NEW s \in Orphaned(v)
      PROVE  /\ s.task \in Tasks /\ owner[s.task] = v /\ s.failed = v
             /\ s.previous = ownerEpoch[s.task]
             /\ s = [task |-> s.task, failed |-> v, failure |-> tick,
                     previous |-> ownerEpoch[s.task], detection |-> 0, agent |-> None,
                     epoch |-> 0, commit |-> 0]
  BY DEF Orphaned, Orphans
<1>5. ASSUME NEW s \in samples
      PROVE  /\ s.failed \in Vehicles /\ s.failed # v
             /\ s.agent = None => owner[s.task] # v
  BY <1>1, VehiclesAssumption DEF OpenInv, SampleOpen, TypeOK, Sample
<1>6. \A s \in samples' : SampleOpen(s)'
  <2>1. \A s \in samples : SampleOpen(s)'
    BY <1>1, <1>2, <1>5 DEF OpenInv, SampleOpen
  <2>2. ASSUME NEW s \in Orphaned(v) PROVE SampleOpen(s)'
    <3>1. owner[s.task] # None
      BY <1>4, VehiclesAssumption
    <3>2. s.previous = lastOwned[s.task] /\ lastOwned[s.task] \in Nat
      BY <1>4, <3>1 DEF HeldInv, TypeOK
    <3> QED
      BY <1>1, <1>2, <1>4, <3>2 DEF SampleOpen
  <2> QED
    BY <1>3, <2>1, <2>2
<1>7. OneOpenReassignment'
  <2> SUFFICES ASSUME NEW r \in samples', NEW s \in samples', r.task = s.task,
                      r.agent = None, s.agent = None
               PROVE  r = s
    BY DEF OneOpenReassignment
  <2>1. CASE r \in samples /\ s \in samples
    BY <2>1 DEF OpenInv, OneOpenReassignment
  <2>2. CASE r \in Orphaned(v) /\ s \in Orphaned(v)
    <3>1. r = [task |-> s.task, failed |-> v, failure |-> tick,
               previous |-> ownerEpoch[s.task], detection |-> 0, agent |-> None,
               epoch |-> 0, commit |-> 0]
      BY <1>4, <2>2
    <3> QED
      BY <1>4, <2>2, <3>1
  <2>3. CASE r \in Orphaned(v) /\ s \in samples
    BY <1>4, <1>5, <2>3
  <2>4. CASE r \in samples /\ s \in Orphaned(v)
    BY <1>4, <1>5, <2>4
  <2> QED
    BY <1>3, <2>1, <2>2, <2>3, <2>4
<1> QED
  BY <1>6, <1>7 DEF OpenInv

LEMMA OpenInvDetections ==
  ASSUME TypeOK, OpenInv, DeadInv, ApplyFailureDetections
  PROVE  OpenInv'
<1>1. UNCHANGED <<active, lastOwned, released, status>>
  BY DEF ApplyFailureDetections
<1>2. \A r \in Sample :
        /\ WithDetection(r, NewlyAnnounced).task = r.task
        /\ WithDetection(r, NewlyAnnounced).failed = r.failed
        /\ WithDetection(r, NewlyAnnounced).previous = r.previous
        /\ WithDetection(r, NewlyAnnounced).agent = r.agent
        /\ WithDetection(r, NewlyAnnounced).detection =
             IF r.failed \in NewlyAnnounced /\ r.detection = 0 THEN tick ELSE r.detection
  BY DEF WithDetection, Sample
<1>3. \A v \in NewlyAnnounced : tick # 0
  BY DEF NewlyAnnounced, Reports
<1>4. \A s \in samples' : SampleOpen(s)'
  <2> SUFFICES ASSUME NEW s \in samples' PROVE SampleOpen(s)'
    OBVIOUS
  <2>1. PICK r \in samples : s = WithDetection(r, NewlyAnnounced)
    BY DetectionSamples
  <2>2. r \in Sample /\ r.task \in Tasks /\ SampleOpen(r)
    BY DEF TypeOK, Sample, OpenInv
  <2>3. /\ s.task = r.task /\ s.failed = r.failed /\ s.previous = r.previous
        /\ s.agent = r.agent
        /\ s.detection = IF r.failed \in NewlyAnnounced /\ r.detection = 0 THEN tick
                         ELSE r.detection
    BY <1>2, <2>1, <2>2
  <2>4. CASE r.task \in Orphans(NewlyAnnounced)
    <3>1. owner'[r.task] = None
      BY <2>2, <2>4, DetectionFacts
    <3>2. owner[r.task] \in NewlyAnnounced /\ owner[r.task] # None
      BY <2>4, VehiclesAssumption DEF Orphans, NewlyAnnounced
    <3>3. r.agent = None => s.detection # 0
      BY <1>3, <2>2, <2>3, <3>2 DEF SampleOpen
    <3> QED
      BY <1>1, <2>2, <2>3, <3>1, <3>3 DEF SampleOpen
  <2>5. CASE r.task \notin Orphans(NewlyAnnounced)
    <3>1. owner'[r.task] = owner[r.task]
      BY <2>2, <2>5, DetectionFacts
    <3>2. r.detection # 0 => s.detection # 0
      BY <2>3
    <3> QED
      BY <1>1, <2>2, <2>3, <3>1, <3>2 DEF SampleOpen
  <2> QED
    BY <2>4, <2>5
<1>5. OneOpenReassignment'
  <2> SUFFICES ASSUME NEW r \in samples', NEW s \in samples', r.task = s.task,
                      r.agent = None, s.agent = None
               PROVE  r = s
    BY DEF OneOpenReassignment
  <2>1. PICK q \in samples : r = WithDetection(q, NewlyAnnounced)
    BY DetectionSamples
  <2>2. PICK u \in samples : s = WithDetection(u, NewlyAnnounced)
    BY DetectionSamples
  <2>3. q.task = u.task /\ q.agent = None /\ u.agent = None
    BY <1>2, <2>1, <2>2 DEF TypeOK
  <2> QED
    BY <2>1, <2>2, <2>3 DEF OpenInv, OneOpenReassignment
<1> QED
  BY <1>4, <1>5 DEF OpenInv

LEMMA OpenInvCommits ==
  ASSUME TypeOK, EpochInv, OpenInv, ApplyCommits
  PROVE  OpenInv'
<1>1. active' = active
  BY DEF ApplyCommits, fleet
<1>2. ASSUME NEW r \in samples, r.agent = None, owner'[r.task] # owner[r.task]
      PROVE  Completes(r, r.task)
  <2>1. r.task \in Tasks /\ SampleOpen(r) /\ r \in Sample
    BY DEF TypeOK, Sample, OpenInv
  <2>2. owner[r.task] = None
    BY <1>2, <2>1, CommitFacts DEF MayCommit, ValidCommit
  <2>3. r \in AwaitingCommit(r.task)
    <3>1. r.failed # None
      BY <2>1, VehiclesAssumption DEF Sample
    <3> QED
      BY <1>2, <2>1, <2>2, <3>1 DEF SampleOpen, AwaitingCommit
  <2>4. \A q \in AwaitingCommit(r.task) : q = r
    BY <1>2 DEF AwaitingCommit, OpenInv, OneOpenReassignment
  <2>5. r.failure \in Nat
    BY <2>1 DEF Sample
  <2>6. \A q \in AwaitingCommit(r.task) : r.failure <= q.failure
    BY <2>4, <2>5
  <2>7. r = FirstAwaiting(r.task)
    BY <2>3, <2>4, <2>6 DEF FirstAwaiting
  <2>8. epoch > r.previous
    <3>1. r.previous <= lastOwned[r.task] /\ lastOwned[r.task] < epoch
      BY <2>1, <2>2 DEF SampleOpen, EpochInv
    <3>2. r.previous \in Nat /\ lastOwned[r.task] \in Nat /\ epoch \in Nat
      BY <2>1 DEF Sample, TypeOK
    <3> QED
      BY <3>1, <3>2
  <2> QED
    BY <2>3, <2>7, <2>8 DEF Completes
<1>3. ASSUME NEW s \in samples'
      PROVE  \E r \in samples :
               /\ s.task = r.task /\ s.failed = r.failed /\ s.previous = r.previous
               /\ s.agent = None => s = r /\ owner'[r.task] = owner[r.task]
  <2>1. PICK r \in samples :
           \/ /\ s = r
              /\ owner'[r.task] = owner[r.task] \/ ~Completes(r, r.task)
           \/ /\ s = [r EXCEPT !.agent = owner'[r.task], !.epoch = epoch, !.commit = tick]
              /\ Completes(r, r.task)
              /\ owner'[r.task] \in Vehicles
              /\ MayCommit(owner'[r.task], r.task)
    BY CommitSamples
  <2>2. CASE s = r /\ (owner'[r.task] = owner[r.task] \/ ~Completes(r, r.task))
    BY <1>2, <2>2
  <2>3. CASE /\ s = [r EXCEPT !.agent = owner'[r.task], !.epoch = epoch, !.commit = tick]
             /\ owner'[r.task] \in Vehicles
    BY <2>3, VehiclesAssumption DEF TypeOK, Sample
  <2> QED
    BY <2>1, <2>2, <2>3, SMTT(30)
<1>4. \A s \in samples' : SampleOpen(s)'
  <2> SUFFICES ASSUME NEW s \in samples' PROVE SampleOpen(s)'
    OBVIOUS
  <2>1. PICK r \in samples :
          /\ s.task = r.task /\ s.failed = r.failed /\ s.previous = r.previous
          /\ s.agent = None => s = r /\ owner'[r.task] = owner[r.task]
    BY <1>3
  <2>2. r.task \in Tasks /\ SampleOpen(r) /\ r.previous \in Nat
    BY DEF TypeOK, Sample, OpenInv
  <2>3. r.previous <= lastOwned'[r.task]
    <3>1. lastOwned[r.task] <= epoch /\ epoch \in Nat /\ lastOwned[r.task] \in Nat
      BY <2>2 DEF EpochInv, TypeOK
    <3>2. lastOwned'[r.task] = lastOwned[r.task] \/ lastOwned'[r.task] = epoch
      BY <2>2, CommitFacts
    <3> QED
      BY <2>2, <3>1, <3>2 DEF SampleOpen
  <2> QED
    BY <1>1, <2>1, <2>2, <2>3 DEF SampleOpen
<1>5. OneOpenReassignment'
  BY <1>3 DEF OpenInv, OneOpenReassignment
<1> QED
  BY <1>4, <1>5 DEF OpenInv

LEMMA OpenInvStep ==
  TypeOK /\ EpochInv /\ HeldInv /\ DeadInv /\ OpenInv /\ [Next]_vars => OpenInv'
<1> SUFFICES ASSUME TypeOK, EpochInv, HeldInv, DeadInv, OpenInv, [Next]_vars
             PROVE  OpenInv'
  OBVIOUS
<1>1. CASE ApplyRejections
  <2>1. UNCHANGED <<active, lastOwned, samples>>
    BY <1>1 DEF ApplyRejections, fleet
  <2>2. ASSUME NEW s \in samples PROVE SampleOpen(s)'
    <3>1. s.task \in Tasks /\ SampleOpen(s) /\ s.failed # None
      BY VehiclesAssumption DEF TypeOK, Sample, OpenInv
    <3>2. CASE owner'[s.task] = owner[s.task]
      BY <2>1, <3>1, <3>2 DEF SampleOpen
    <3>3. CASE MayReject(s.task)
      BY <2>1, <3>1, <3>3 DEF SampleOpen, MayReject
    <3> QED
      BY <1>1, <3>1, <3>2, <3>3, RejectionFacts
  <2> QED
    BY <2>1, <2>2 DEF OpenInv, OneOpenReassignment
<1>2. CASE UNCHANGED <<active, owner, lastOwned, samples>>
  BY <1>2 DEF OpenInv, OneOpenReassignment, SampleOpen
<1> QED
  BY <1>1, <1>2, OpenInvDisable, OpenInvDetections, OpenInvCommits, SamplesMove,
     OwnersMoveInHandlers, FleetMoves DEF FleetStays

(* Two reassignments of one task are never open at once.                   *)
THEOREM ReassignmentsDoNotOverlap == Spec => []OneOpenReassignment
<1>1. Init => EpochInv /\ HeldInv /\ DeadInv /\ OpenInv
  BY DEF Init, EpochInv, HeldInv, DeadInv, OpenInv, OneOpenReassignment
<1>2. OpenInv => OneOpenReassignment
  BY SMTT(30) DEF OpenInv
<1> QED
  BY <1>1, <1>2, EpochInvStep, HeldInvStep, DeadInvStep, OpenInvStep, TypeCorrect, PTL
  DEF Spec

-----------------------------------------------------------------------------
(* A monitor has never counted more ticks than have passed since the       *)
(* failure, so its detection names a tick after the full silence.          *)
Elapsed == IF phase = "tasks" THEN tick + 1 ELSE tick

MonitorOK(p) ==
  /\ p \in monitored => 0 <= failedAt[p[2]] /\ failedAt[p[2]] + missed[p] <= Elapsed
  /\ p \in monitored /\ detected[p] # 0 => failedAt[p[2]] + Detect <= detected[p]
  /\ p \notin monitored => missed[p] = 0 /\ detected[p] = 0

MonitorInv == \A p \in Pairs : MonitorOK(p)

LEMMA MonitorsMove ==
  ASSUME [Next]_vars
  PROVE  \/ \E v \in Vehicles : DisableVehicle(v)
         \/ UpdateFailureMonitors
         \/ UpdateTasks
         \/ /\ UNCHANGED <<monitored, missed, detected, failedAt, tick>>
            /\ phase = phase' \/ (phase # "tasks" /\ phase' # "tasks")
BY DEF Next, vars, fleet, radio, ReleaseTask, DegradeVehicle, SetLinkBlocked, EndEvents,
       ApplyFailureDetections, ApplyCommits, ApplyRejections

LEMMA MonitorInvStep == TypeOK /\ DeadInv /\ MonitorInv /\ [Next]_vars => MonitorInv'
<1> SUFFICES ASSUME TypeOK, DeadInv, MonitorInv, [Next]_vars, NEW p \in Pairs
             PROVE  MonitorOK(p)'
  BY DEF MonitorInv
<1>1. /\ tick \in Nat /\ Detect \in Nat /\ missed[p] \in Nat /\ detected[p] \in Nat
      /\ p[2] \in Vehicles /\ failedAt[p[2]] \in Int /\ MonitorOK(p)
  BY BoundsAssumption DEF TypeOK, Pairs, MonitorInv
<1>2. ASSUME NEW v \in Vehicles, DisableVehicle(v) PROVE MonitorOK(p)'
  <2>1. /\ UNCHANGED <<missed, detected, tick, phase>> /\ phase = "events" /\ active[v]
        /\ failedAt'[p[2]] = IF p[2] = v THEN tick ELSE failedAt[p[2]]
        /\ p \in monitored' => p \in monitored \/ p[2] = v
        /\ p \in monitored => p \in monitored'
    BY <1>1, <1>2 DEF DisableVehicle, Detectors, Event, TypeOK
  <2>2. p \in monitored => p[2] # v
    BY <2>1 DEF DeadInv
  <2>3. CASE p[2] = v
    BY <1>1, <2>1, <2>2, <2>3 DEF MonitorOK, Elapsed
  <2>4. CASE p[2] # v
    BY <1>1, <2>1, <2>4 DEF MonitorOK, Elapsed
  <2> QED
    BY <2>3, <2>4
<1>3. CASE UpdateFailureMonitors
  <2>1. PICK heard \in SUBSET audible :
          /\ missed' = [q \in Pairs |-> IF Counting(q) THEN MissedAfter(q, heard)
                                        ELSE missed[q]]
          /\ detected' = [q \in Pairs |-> IF Counting(q) /\ Silent(q, heard) THEN tick + 1
                                          ELSE detected[q]]
    BY <1>3 DEF UpdateFailureMonitors
  <2>2. /\ UNCHANGED <<monitored, failedAt, tick>> /\ phase = "monitors"
        /\ phase' = "tasks"
    BY <1>3 DEF UpdateFailureMonitors, fleet
  <2>3. CASE Counting(p)
    <3>1. /\ p \in monitored /\ detected[p] = 0
          /\ missed'[p] = MissedAfter(p, heard)
          /\ detected'[p] = IF MissedAfter(p, heard) >= Detect THEN tick + 1 ELSE 0
      BY <2>1, <2>3 DEF Counting, Silent
    <3>2. MissedAfter(p, heard) = 0 \/ MissedAfter(p, heard) = missed[p] + 1
      BY DEF MissedAfter
    <3>3. failedAt[p[2]] + MissedAfter(p, heard) <= tick + 1
      BY <1>1, <2>2, <3>1, <3>2 DEF MonitorOK, Elapsed
    <3> QED
      BY <1>1, <2>2, <3>1, <3>2, <3>3 DEF MonitorOK, Elapsed
  <2>4. CASE ~Counting(p)
    BY <1>1, <2>1, <2>2, <2>4 DEF MonitorOK, Elapsed
  <2> QED
    BY <2>3, <2>4
<1>4. CASE UpdateTasks
  <2>1. /\ UNCHANGED <<monitored, failedAt, missed, detected>> /\ phase = "tasks"
        /\ phase' = "events" /\ tick' = tick + 1
    BY <1>4 DEF UpdateTasks, fleet, radio
  <2> QED
    BY <1>1, <2>1 DEF MonitorOK, Elapsed
<1>5. CASE /\ UNCHANGED <<monitored, missed, detected, failedAt, tick>>
           /\ phase = phase' \/ (phase # "tasks" /\ phase' # "tasks")
  BY <1>1, <1>5 DEF MonitorOK, Elapsed
<1> QED
  BY <1>2, <1>3, <1>4, <1>5, MonitorsMove

(* The times of a sample are in order, whether or not it is complete.      *)
SampleTimes(s) ==
  /\ s.failure = failedAt[s.failed] /\ ~active[s.failed]
  /\ s.detection # 0 => s.failure + Detect <= s.detection /\ s.detection <= tick
  /\ s.agent # None => /\ s.detection # 0 /\ s.detection <= s.commit
                       /\ s.previous < s.epoch
                       /\ s.agent # s.failed

TimesInv == \A s \in samples : SampleTimes(s)

LEMMA ClockMoves ==
  ASSUME [Next]_vars
  PROVE  UpdateTasks \/ tick' = tick
BY DEF Next, vars, ReleaseTask, DisableVehicle, DegradeVehicle, SetLinkBlocked, EndEvents,
       Event, ApplyFailureDetections, ApplyCommits, ApplyRejections, UpdateFailureMonitors

LEMMA FailuresMove ==
  ASSUME [Next]_vars
  PROVE  (\E v \in Vehicles : DisableVehicle(v)) \/ UNCHANGED <<active, failedAt>>
BY DEF Next, vars, fleet, ReleaseTask, DegradeVehicle, SetLinkBlocked, EndEvents,
       ApplyFailureDetections, ApplyCommits, ApplyRejections, UpdateFailureMonitors,
       UpdateTasks

LEMMA TimesInvStep ==
  TypeOK /\ DeadInv /\ MonitorInv /\ TimesInv /\ [Next]_vars => TimesInv'
<1> SUFFICES ASSUME TypeOK, DeadInv, MonitorInv, TimesInv, [Next]_vars,
                    NEW s \in samples'
             PROVE  SampleTimes(s)'
  BY DEF TimesInv
<1>1. tick \in Nat /\ Detect \in Nat
  BY BoundsAssumption DEF TypeOK
<1>2. ASSUME NEW v \in Vehicles, DisableVehicle(v) PROVE SampleTimes(s)'
  <2>1. /\ tick' = tick /\ active[v]
        /\ \A u \in Vehicles \ {v} : failedAt'[u] = failedAt[u] /\ active'[u] = active[u]
        /\ failedAt'[v] = tick /\ ~active'[v]
    BY <1>2 DEF DisableVehicle, Event, TypeOK
  <2>2. CASE s \in samples
    <3>1. SampleTimes(s) /\ s.failed \in Vehicles \ {v}
      BY <2>1, <2>2 DEF TimesInv, SampleTimes, TypeOK, Sample
    <3> QED
      BY <2>1, <3>1 DEF SampleTimes
  <2>3. CASE s \in Orphaned(v)
    <3>1. s.failed = v /\ s.failure = tick /\ s.detection = 0 /\ s.agent = None
      BY <2>3 DEF Orphaned
    <3> QED
      BY <2>1, <3>1 DEF SampleTimes
  <2> QED
    BY <1>2, <2>2, <2>3, DisableFacts
<1>3. CASE ApplyFailureDetections
  <2>1. UNCHANGED <<tick, active, failedAt>>
    BY <1>3 DEF ApplyFailureDetections
  <2>2. PICK r \in samples : s = WithDetection(r, NewlyAnnounced)
    BY <1>3, DetectionSamples
  <2>3. r \in Sample /\ SampleTimes(r)
    BY DEF TypeOK, TimesInv
  <2>4. CASE r.failed \in NewlyAnnounced /\ r.detection = 0
    <3>1. s = [r EXCEPT !.detection = tick]
      BY <2>2, <2>4 DEF WithDetection
    <3>2. /\ s.failure = r.failure /\ s.failed = r.failed /\ s.agent = r.agent
          /\ s.detection = tick
      BY <2>3, <3>1 DEF Sample
    <3>3. PICK p \in Reports : p[2] = r.failed
      BY <2>4 DEF NewlyAnnounced
    <3>4. p \in Pairs /\ p \in monitored /\ detected[p] # 0 /\ detected[p] = tick
      BY <3>3 DEF Reports, TypeOK
    <3>5. failedAt[r.failed] + Detect <= tick
      BY <3>3, <3>4 DEF MonitorInv, MonitorOK
    <3> QED
      BY <1>1, <2>1, <2>3, <2>4, <3>2, <3>5 DEF SampleTimes
  <2>5. CASE ~(r.failed \in NewlyAnnounced /\ r.detection = 0)
    BY <2>1, <2>2, <2>3, <2>5 DEF WithDetection, SampleTimes
  <2> QED
    BY <2>4, <2>5
<1>4. CASE ApplyCommits
  <2>1. UNCHANGED <<tick, active, failedAt>>
    BY <1>4 DEF ApplyCommits, fleet
  <2>2. PICK r \in samples :
           \/ s = r
           \/ /\ s = [r EXCEPT !.agent = owner'[r.task], !.epoch = epoch, !.commit = tick]
              /\ Completes(r, r.task)
              /\ owner'[r.task] \in Vehicles
              /\ MayCommit(owner'[r.task], r.task)
    BY <1>4, CommitSamples
  <2>3. r \in Sample /\ SampleTimes(r)
    BY DEF TypeOK, TimesInv
  <2>4. CASE s = r
    BY <2>1, <2>3, <2>4 DEF SampleTimes
  <2>5. CASE /\ s = [r EXCEPT !.agent = owner'[r.task], !.epoch = epoch, !.commit = tick]
             /\ Completes(r, r.task)
             /\ owner'[r.task] \in Vehicles
             /\ MayCommit(owner'[r.task], r.task)
    <3>1. /\ s.failure = r.failure /\ s.failed = r.failed /\ s.detection = r.detection
          /\ s.previous = r.previous /\ s.agent = owner'[r.task] /\ s.epoch = epoch
          /\ s.commit = tick
      BY <2>3, <2>5 DEF Sample
    <3>2. r.detection # 0 /\ r.previous < epoch
      <4>1. r.previous \in Nat /\ epoch \in Nat
        BY <2>3 DEF Sample, TypeOK
      <4> QED
        BY <2>5, <4>1 DEF Completes, AwaitingCommit
    <3>3. owner'[r.task] # r.failed
      BY <2>3, <2>5 DEF SampleTimes, MayCommit, ValidCommit
    <3> QED
      BY <2>1, <2>3, <3>1, <3>2, <3>3 DEF SampleTimes
  <2> QED
    BY <2>2, <2>4, <2>5
<1>5. CASE UNCHANGED <<samples, active, failedAt>>
  <2>1. SampleTimes(s) /\ s.detection \in Nat
    BY <1>5 DEF TimesInv, TypeOK, Sample
  <2>2. tick' = tick \/ tick' = tick + 1
    BY ClockMoves DEF UpdateTasks
  <2> QED
    BY <1>1, <1>5, <2>1, <2>2 DEF SampleTimes
<1> QED
  BY <1>2, <1>3, <1>4, <1>5, SamplesMove, FailuresMove

(* A completed reassignment went to another vehicle, under a newer epoch,  *)
(* after a detection that had waited for the whole silence.                *)
THEOREM ReassignmentsAreSound == Spec => []ReassignmentSound
<1>1. Init => DeadInv /\ MonitorInv /\ TimesInv
  BY DEF Init, DeadInv, MonitorInv, MonitorOK, TimesInv
<1>2. TimesInv => ReassignmentSound
  BY DEF TimesInv, SampleTimes, ReassignmentSound
<1> QED
  BY <1>1, <1>2, DeadInvStep, MonitorInvStep, TimesInvStep, TypeCorrect, PTL DEF Spec

(* Both of what the summary says: the right samples, completed soundly.    *)
THEOREM SummaryIsSound == Spec => []ReassignmentsSound
<1>1. ReassignmentSound /\ OneOpenReassignment => ReassignmentsSound
  BY DEF ReassignmentsSound
<1> QED
  BY <1>1, ReassignmentsAreSound, ReassignmentsDoNotOverlap, PTL

=============================================================================
