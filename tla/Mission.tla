------------------------------ MODULE Mission ------------------------------
(***************************************************************************)
(* The simulator as the authority over tasks: who owns which task, under   *)
(* which allocation epoch, and what happens when vehicles fail, give tasks *)
(* back, degrade or lose their links (core/src/simulator.cpp).             *)
(*                                                                         *)
(* One tick is step_internal(): the scheduled events, then, in this order, *)
(* the agents' failure detections, allocation commits and task rejections, *)
(* the failure monitors, the clock and the task updates.  Each handler is  *)
(* one action; phase says which comes next.  The agents decided on the     *)
(* observation of the previous tick: view keeps the epoch and the links    *)
(* they were shown, mute the tasks that no report of this tick can name.   *)
(*                                                                         *)
(* Abstracted: which valid commit ranks best, whether a vehicle is near    *)
(* enough to serve (both free choices), energy, payload, motion.           *)
(* lastOwned is a history variable; the code does not keep it.  A name     *)
(* that starts with Mut_ is a mistake someone could make in the definition *)
(* after it; nothing uses it, and PROJECT.json says which property it      *)
(* breaks.                                                                 *)
(***************************************************************************)
EXTENDS Integers, FiniteSets

CONSTANTS
  Vehicles,        (* vehicle ids, ordered                                 *)
  Tasks,           (* task ids                                             *)
  None,            (* no vehicle                                           *)
  Capable,         (* the vehicles with the capability and payload for it  *)
  Deadline,        (* deadline_tick of each task                           *)
  Service,         (* service_ticks of each task                           *)
  Preassigned,     (* assigned_agent_id of the scenario, or None           *)
  ReleasedAtStart, (* tasks the scenario releases from the start           *)
  Detect,          (* failure_detection_ticks                              *)
  MaxTicks,        (* max_ticks of the scenario                            *)
  MaxEvents        (* bound: the length of the event tape                  *)

ASSUME VehiclesAssumption == Vehicles \subseteq Nat /\ None \notin Vehicles
ASSUME TasksAssumption ==
  /\ IsFiniteSet(Tasks)
  /\ Capable \in [Tasks -> SUBSET Vehicles]
  /\ Deadline \in [Tasks -> Nat \ {0}]
  /\ Service \in [Tasks -> Nat]
  /\ Preassigned \in [Tasks -> Vehicles \cup {None}]
  /\ ReleasedAtStart \subseteq Tasks
  /\ \A t \in Tasks : Preassigned[t] # None => Preassigned[t] \in Capable[t]
ASSUME BoundsAssumption ==
  /\ Detect \in Nat \ {0}
  /\ MaxTicks \in Nat \ {0}
  /\ MaxEvents \in Nat

VARIABLES
  tick,       (* tick_                                                     *)
  phase,      (* the next handler of this tick                             *)
  tape,       (* how many events the tape still holds                      *)
  active,     (* Vehicle::active                                           *)
  failedAt,   (* Vehicle::failure_tick, -1 while unset                     *)
  announced,  (* Vehicle::failure_announced                                *)
  blocked,    (* blocked_links_ of the network                             *)
  monitored,  (* failure_monitors_: the <<detector, failed>> pairs         *)
  missed,     (* FailureMonitor::missed_ticks                              *)
  detected,   (* FailureMonitor::detection_tick, 0 while unset             *)
  audible,    (* pairs with packets of the failed vehicle still in flight  *)
  epoch,      (* allocation_epoch_                                         *)
  fence,      (* coordination_fence of this tick                           *)
  view,       (* what the agents were shown: epoch and links               *)
  mute,       (* tasks released or committed since, or whose owner spent   *)
              (* its one report of the tick on another task                *)
  released,   (* Task::released                                            *)
  status,     (* Task status                                               *)
  owner,      (* Task::assigned_agent_id                                   *)
  ownerEpoch, (* Task::allocation_epoch                                    *)
  progress,   (* Task::progress_ticks                                      *)
  samples,    (* task_reassignments_                                       *)
  lastOwned   (* history: the last epoch each task was committed under     *)

fleet   == <<active, failedAt, announced>>
radio   == <<blocked, monitored, missed, detected, audible>>
ledger  == <<released, status, owner, ownerEpoch, progress>>
vars    == <<tick, phase, tape, fleet, radio, epoch, fence, view, mute, ledger,
             samples, lastOwned>>

Pairs == {p \in Vehicles \X Vehicles : p[1] # p[2]}
Link(p) == {p[1], p[2]}
Links == {Link(p) : p \in Pairs}

Phases == {"events", "detections", "commits", "rejections", "monitors", "tasks"}
Statuses == {"pending", "completed", "missed"}

Sample ==
  [task : Tasks, failed : Vehicles, failure : Nat, previous : Nat,
   detection : Nat, agent : Vehicles \cup {None}, epoch : Nat, commit : Nat]

TypeOK ==
  /\ tick \in 0..MaxTicks
  /\ phase \in Phases
  /\ tape \in 0..MaxEvents
  /\ active \in [Vehicles -> BOOLEAN]
  /\ failedAt \in [Vehicles -> Int]
  /\ announced \in [Vehicles -> BOOLEAN]
  /\ blocked \subseteq Links
  /\ monitored \subseteq Pairs
  /\ missed \in [Pairs -> Nat]
  /\ detected \in [Pairs -> Nat]
  /\ audible \subseteq Pairs
  /\ epoch \in Nat \ {0}
  /\ fence \in BOOLEAN
  /\ view \in [epoch : Nat, links : SUBSET Links]
  /\ mute \subseteq Tasks
  /\ released \in [Tasks -> BOOLEAN]
  /\ status \in [Tasks -> Statuses]
  /\ owner \in [Tasks -> Vehicles \cup {None}]
  /\ ownerEpoch \in [Tasks -> Nat]
  /\ progress \in [Tasks -> Nat]
  /\ samples \subseteq Sample
  /\ lastOwned \in [Tasks -> Nat]

Open(t) == released[t] /\ status[t] = "pending"

Finished ==
  \/ tick >= MaxTicks
  \/ \A v \in Vehicles : ~active[v]
  \/ \A t \in Tasks : status[t] # "pending"

Init ==
  /\ tick = 0
  /\ phase = "events"
  /\ tape = MaxEvents
  /\ active = [v \in Vehicles |-> TRUE]
  /\ failedAt = [v \in Vehicles |-> -1]
  /\ announced = [v \in Vehicles |-> FALSE]
  /\ blocked = {}
  /\ monitored = {}
  /\ missed = [p \in Pairs |-> 0]
  /\ detected = [p \in Pairs |-> 0]
  /\ audible = {}
  /\ epoch = 1
  /\ fence = FALSE
  /\ view = [epoch |-> 1, links |-> {}]
  /\ mute = {}
  /\ released = [t \in Tasks |-> t \in ReleasedAtStart]
  /\ status = [t \in Tasks |-> "pending"]
  /\ owner = Preassigned
  /\ ownerEpoch = [t \in Tasks |-> IF Preassigned[t] = None THEN 0 ELSE 1]
  /\ progress = [t \in Tasks |-> 0]
  /\ samples = {}
  /\ lastOwned = ownerEpoch

-----------------------------------------------------------------------------
(* apply_events: the events of this tick, one after the other.             *)
Event ==
  /\ phase = "events" /\ ~Finished
  /\ tape > 0
  /\ tape' = tape - 1

ReleaseTask(t) ==
  /\ Event
  /\ ~released[t]
  /\ released' = [released EXCEPT ![t] = TRUE]
  /\ epoch' = IF owner[t] = None THEN epoch + 1 ELSE epoch
  /\ mute' = mute \cup {t}
  /\ UNCHANGED <<tick, phase, fleet, radio, fence, view, status, owner, ownerEpoch,
                 progress, samples, lastOwned>>

Mut_Orphans(V) == {t \in Tasks : Open(t)}

Orphans(V) == {t \in Tasks : Open(t) /\ owner[t] \in V}

Detectors(v) == {p \in Pairs : p[2] = v /\ active[p[1]]}

(* Every other active vehicle starts to listen for the failed one, and     *)
(* each of its open tasks gets a reassignment sample.                      *)
DisableVehicle(v) ==
  /\ Event
  /\ active[v]
  /\ active' = [active EXCEPT ![v] = FALSE]
  /\ failedAt' = [failedAt EXCEPT ![v] = tick]
  /\ monitored' = monitored \cup Detectors(v)
  /\ audible' = audible \cup {p \in Detectors(v) : Link(p) \notin blocked}
  /\ samples' = samples \cup
       {[task |-> t, failed |-> v, failure |-> tick, previous |-> ownerEpoch[t],
         detection |-> 0, agent |-> None, epoch |-> 0, commit |-> 0] : t \in Orphans({v})}
  /\ UNCHANGED <<tick, phase, announced, blocked, missed, detected, epoch, fence, view,
                 mute, ledger, lastOwned>>

(* SET_SPEED_PERMILLE and SET_ENDURANCE_PERMILLE: bids made with the old   *)
(* dynamics are void.                                                      *)
DegradeVehicle ==
  /\ Event
  /\ epoch' = epoch + 1
  /\ UNCHANGED <<tick, phase, fleet, radio, fence, view, mute, ledger, samples, lastOwned>>

(* A cut flushes the packets of both directions; whether or not the link   *)
(* changed, the event fences the coordination traffic of the tick.         *)
SetLinkBlocked(l, value) ==
  /\ Event
  /\ fence' = TRUE
  /\ blocked' = IF value THEN blocked \cup {l} ELSE blocked \ {l}
  /\ audible' = IF value THEN {p \in audible : Link(p) # l} ELSE audible
  /\ UNCHANGED <<tick, phase, fleet, monitored, missed, detected, epoch, view, mute,
                 ledger, samples, lastOwned>>

EndEvents ==
  /\ phase = "events" /\ ~Finished
  /\ phase' = "detections"
  /\ UNCHANGED <<tick, tape, fleet, radio, epoch, fence, view, mute, ledger, samples,
                 lastOwned>>

-----------------------------------------------------------------------------
(* A task goes back to unassigned: orphaned or rejected.                   *)
Clear(f, S, value) == [t \in Tasks |-> IF t \in S THEN value ELSE f[t]]

Mut_Unassign(S) ==
  /\ owner' = Clear(owner, S, None)
  /\ ownerEpoch' = Clear(ownerEpoch, S, 0)
  /\ UNCHANGED progress

Unassign(S) ==
  /\ owner' = Clear(owner, S, None)
  /\ ownerEpoch' = Clear(ownerEpoch, S, 0)
  /\ progress' = Clear(progress, S, 0)

(* An agent reports a detection once, in the tick its monitor names; the   *)
(* report counts if the agent is still active.                             *)
Reports == {p \in monitored : detected[p] # 0 /\ detected[p] = tick /\ active[p[1]]}

NewlyAnnounced == {v \in Vehicles : ~announced[v] /\ \E p \in Reports : p[2] = v}

Mut_EpochAfter(orphans) == epoch

EpochAfter(orphans) == IF orphans = {} THEN epoch ELSE epoch + 1

WithDetection(s, V) ==
  IF s.failed \in V /\ s.detection = 0 THEN [s EXCEPT !.detection = tick] ELSE s

(* apply_failure_detections: the first report of a failure announces it,   *)
(* releases the open tasks of the failed vehicle and, if there were any,   *)
(* opens a new epoch, before the commits of this tick are looked at.       *)
ApplyFailureDetections ==
  LET found == NewlyAnnounced
  IN
  /\ phase = "detections"
  /\ phase' = "commits"
  /\ announced' = [v \in Vehicles |-> announced[v] \/ v \in found]
  /\ samples' = {WithDetection(s, found) : s \in samples}
  /\ Unassign(Orphans(found))
  /\ epoch' = EpochAfter(Orphans(found))
  /\ UNCHANGED <<tick, tape, active, failedAt, radio, fence, view, mute, released,
                 status, lastOwned>>

-----------------------------------------------------------------------------
(* valid_commit: v claims t under the epoch it was shown.                  *)
Mut_ValidCommit(v, t) ==
  /\ view.epoch = epoch
  /\ Open(t) /\ owner[t] = None
  /\ v \in Capable[t]

Mut_ValidCommitOfOwned(v, t) ==
  /\ view.epoch = epoch
  /\ Open(t)
  /\ active[v]
  /\ v \in Capable[t]

ValidCommit(v, t) ==
  /\ view.epoch = epoch
  /\ Open(t) /\ owner[t] = None
  /\ active[v]
  /\ v \in Capable[t]

(* Behind the fence of a link event every commit is rejected.              *)
Mut_MayCommit(v, t) == ValidCommit(v, t)

MayCommit(v, t) == ~fence /\ ValidCommit(v, t)

(* The open samples of t, oldest failure first.                            *)
AwaitingCommit(t) ==
  {s \in samples : s.task = t /\ s.detection # 0 /\ s.agent = None}

FirstAwaiting(t) ==
  CHOOSE s \in AwaitingCommit(t) : \A r \in AwaitingCommit(t) : s.failure <= r.failure

Completes(s, t) ==
  s \in AwaitingCommit(t) /\ s = FirstAwaiting(t) /\ epoch > s.previous

(* apply_commits: at most one valid commit wins each task.                 *)
ApplyCommits ==
  /\ phase = "commits"
  /\ phase' = "rejections"
  /\ \E wins \in [Tasks -> Vehicles \cup {None}] :
        LET won == {t \in Tasks : wins[t] # None}
            Completed(s) ==
              IF s.task \in won /\ Completes(s, s.task)
              THEN [s EXCEPT !.agent = wins[s.task], !.epoch = epoch, !.commit = tick]
              ELSE s
        IN
        /\ \A t \in won : MayCommit(wins[t], t)
        /\ owner' = [t \in Tasks |-> IF t \in won THEN wins[t] ELSE owner[t]]
        /\ ownerEpoch' = Clear(ownerEpoch, won, epoch)
        /\ lastOwned' = Clear(lastOwned, won, epoch)
        /\ mute' = mute \cup won
        /\ samples' = {Completed(s) : s \in samples}
  /\ UNCHANGED <<tick, tape, fleet, radio, epoch, fence, view, released, status, progress>>

-----------------------------------------------------------------------------
(* apply_rejections: an active agent may give back the task it works on,   *)
(* one it was shown as its own.  Each rejection opens an epoch.            *)
MayReject(t) ==
  /\ t \notin mute
  /\ Open(t)
  /\ owner[t] # None /\ active[owner[t]]

OnePerOwner(S) == \A t, u \in S : owner[t] = owner[u] => t = u

ApplyRejections ==
  /\ phase = "rejections"
  /\ phase' = "monitors"
  /\ \E given \in SUBSET {t \in Tasks : MayReject(t)} :
        /\ OnePerOwner(given)
        /\ Unassign(given)
        /\ epoch' = epoch + Cardinality(given)
        /\ mute' = mute \cup {t \in Tasks : \E u \in given : owner[t] = owner[u]}
  /\ UNCHANGED <<tick, tape, fleet, radio, fence, view, released, status, samples, lastOwned>>

-----------------------------------------------------------------------------
(* update_failure_monitors: a pair counts the ticks without a packet from  *)
(* the failed vehicle; a blocked link or a late packet starts it over.     *)
Counting(p) == p \in monitored /\ detected[p] = 0 /\ active[p[1]]

MissedAfter(p, heard) ==
  IF Link(p) \in blocked \/ p \in heard THEN 0 ELSE missed[p] + 1

Silent(p, heard) == MissedAfter(p, heard) >= Detect

UpdateFailureMonitors ==
  /\ phase = "monitors"
  /\ phase' = "tasks"
  /\ \E heard \in SUBSET audible :
        /\ missed' = [p \in Pairs |-> IF Counting(p) THEN MissedAfter(p, heard) ELSE missed[p]]
        /\ detected' =
             [p \in Pairs |-> IF Counting(p) /\ Silent(p, heard) THEN tick + 1
                              ELSE detected[p]]
  /\ UNCHANGED <<tick, tape, fleet, blocked, monitored, audible, epoch, fence, view, mute,
                 ledger, samples, lastOwned>>

-----------------------------------------------------------------------------
(* update_tasks, after ++tick_: an open task past its deadline is missed;  *)
(* otherwise a capable owner at the task serves it, and service that is    *)
(* interrupted starts over.                                                *)
Overdue(t) == Open(t) /\ tick + 1 > Deadline[t]

Servable(t) == Open(t) /\ ~Overdue(t) /\ owner[t] # None /\ active[owner[t]]

(* Service needs a WORKING report, one for each agent and tick; a task     *)
(* without service ticks only needs its owner to be there.                 *)
MayServe(t) == Servable(t) /\ (Service[t] = 0 \/ t \notin mute)

OneReportEach(S) == OnePerOwner({t \in S : Service[t] > 0})

ProgressAfter(t, served) ==
  IF ~Open(t) \/ (owner[t] = None /\ ~Overdue(t)) THEN progress[t]
  ELSE IF t \in served /\ Service[t] > 0 THEN progress[t] + 1
  ELSE IF Service[t] = 0 /\ ~Overdue(t) THEN progress[t]
  ELSE 0

Done(t, served) == t \in served /\ ProgressAfter(t, served) >= Service[t]

UpdateTasks ==
  /\ phase = "tasks"
  /\ phase' = "events"
  /\ tick' = tick + 1
  /\ \E served \in SUBSET {t \in Tasks : MayServe(t)} :
        /\ OneReportEach(served)
        /\ progress' = [t \in Tasks |-> ProgressAfter(t, served)]
        /\ status' = [t \in Tasks |-> IF Overdue(t) THEN "missed"
                                      ELSE IF Done(t, served) THEN "completed"
                                      ELSE status[t]]
  /\ fence' = FALSE
  /\ view' = [epoch |-> epoch, links |-> blocked]
  /\ mute' = {}
  /\ UNCHANGED <<tape, fleet, radio, epoch, released, owner, ownerEpoch, samples, lastOwned>>

-----------------------------------------------------------------------------
Next ==
  \/ \E t \in Tasks : ReleaseTask(t)
  \/ \E v \in Vehicles : DisableVehicle(v)
  \/ DegradeVehicle
  \/ \E l \in Links, value \in BOOLEAN : SetLinkBlocked(l, value)
  \/ EndEvents
  \/ ApplyFailureDetections
  \/ ApplyCommits
  \/ ApplyRejections
  \/ UpdateFailureMonitors
  \/ UpdateTasks

Spec == Init /\ [][Next]_vars

-----------------------------------------------------------------------------
Ledger == INSTANCE TaskLedger WITH alive <- active

(* The simulator implements the ledger of tasks.                           *)
ImplementsLedger == Ledger!Spec

(* A vehicle whose failure was announced owns no open task: the orphans    *)
(* went back and no later commit, or release, gives it another.            *)
AnnouncedOwnNothing ==
  \A t \in Tasks : Open(t) /\ owner[t] # None => ~announced[owner[t]]

(* Each ownership of a task is under a newer epoch than the one before,    *)
(* however it ended; peers order the owners they hear of by that epoch.    *)
OwnershipEpochsGrow ==
  [][\A t \in Tasks :
        owner[t] = None /\ owner'[t] # None => lastOwned[t] < ownerEpoch'[t]]_vars

(* A commit takes effect only in the world its agent was shown: no failure *)
(* announced, degradation, release or rejection (the epoch) and no link    *)
(* change (the fence) came between.                                        *)
CommitsSeeTheWorld ==
  [][\A t \in Tasks :
        owner[t] = None /\ owner'[t] # None
           => view.epoch = epoch /\ view.links = blocked]_vars

(* A completed reassignment: the failure was detected only after a full    *)
(* silence, and another vehicle took the task after the detection, under a *)
(* newer epoch than the failed owner held it.                              *)
ReassignmentSound ==
  \A s \in samples :
     s.agent # None =>
        /\ s.failure + Detect <= s.detection
        /\ s.detection <= s.commit
        /\ s.previous < s.epoch
        /\ s.agent # s.failed

(* Two reassignments of one task are never open at once, so the commit     *)
(* that completes the first open one completes the right one.              *)
OneOpenReassignment ==
  \A r, s \in samples :
     r.task = s.task /\ r.agent = None /\ s.agent = None => r = s

(* Interrupted service starts over: no owner starts from, or leaves        *)
(* behind, another one's progress.                                         *)
ServiceStartsOver ==
  [][\A t \in Tasks : owner'[t] # owner[t] => progress[t] = 0 \/ progress'[t] = 0]_vars

(* What the summary tells of reassignments is true: every completed one    *)
(* went to another vehicle after a full silence, and no commit completes   *)
(* the sample of another reassignment of the same task.                    *)
ReassignmentsSound == ReassignmentSound /\ OneOpenReassignment

=============================================================================
