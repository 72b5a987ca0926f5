------------------------------ MODULE Errands ------------------------------
(***************************************************************************)
(* One vehicle and its tasks: energy, time, charging and service.          *)
(*                                                                         *)
(* The behaviour tree (agent/src/autonomy.cpp) promises by arithmetic:     *)
(* with this much energy and time left, a task can be done, or charging    *)
(* first makes it possible.  The simulator (core/src/simulator.cpp) moves, *)
(* charges and works one tick at a time, with roundings of its own.        *)
(*                                                                         *)
(* The world is a corridor of Columns edges between grid points, each Cell *)
(* long.  An edge has a terrain and may be closed by a region that covers  *)
(* its inside.  In a corridor the route of A* is the straight way, so the  *)
(* route an agent follows needs no state: it is the way from where the     *)
(* vehicle is to its goal.  No chokepoints (Chokepoint has them), no       *)
(* failures, no deliveries (whose completion lightens the vehicle), and    *)
(* tasks are assigned by the scenario, all with one epoch and position.    *)
(*                                                                         *)
(* One tick: the agent decides on what it was shown; then the simulator    *)
(* applies events, the action, and what becomes of the tasks.              *)
(*                                                                         *)
(* A name that starts with Mut_ is a mistake someone could make in the     *)
(* definition after it; PROJECT.json says which property it breaks.        *)
(***************************************************************************)
EXTENDS Integers

CONSTANTS
  Cell,       (* grid_cell_mm                                              *)
  Columns,    (* width of the world, in cells                              *)
  Step,       (* step_ms                                                   *)
  MaxTicks,   (* max_ticks                                                 *)
  Missions,   (* the missions to consider                                  *)
  Deltas,     (* values of the energy events                               *)
  Permilles,  (* values of the speed and endurance events                  *)
  MaxEvents   (* bound: events in a mission                                *)

Edges == 0..(Columns - 1)

(* A mission: the vehicle's max_speed_mm_s, energy_cost_mj_per_meter and   *)
(* initial_energy_mj; the multiplier of each edge, in permille, and the    *)
(* energy of the edges from the first one up to each grid point; chargers, *)
(* return locations and tasks, places being grid points.                   *)
Charger == [at : 0..Columns, radius : Nat, rate : Nat \ {0}]
Resort  == [at : 0..Columns, radius : Nat]
Task    == [target : 0..Columns, radius : Nat, deadline : 1..MaxTicks, service : Nat,
            cost : Nat, able : BOOLEAN, released : BOOLEAN]

WellFormed(m) ==
  /\ m.speed \in Nat \ {0} /\ m.cost \in Nat /\ m.initial \in Nat \ {0}
  /\ m.terrain \in [Edges -> Nat]
  /\ \A e \in Edges : m.terrain[e] >= 1000
  /\ m.upTo \in [0..Columns -> Nat]
  /\ \A e \in Edges : m.upTo[e + 1] - m.upTo[e] = (((Cell * m.cost) \div 1000) * m.terrain[e]) \div 1000
  /\ m.chargers \in [DOMAIN m.chargers -> Charger] /\ DOMAIN m.chargers \subseteq Nat \ {0}
  /\ m.home \subseteq Resort
  /\ m.tasks \in [DOMAIN m.tasks -> Task] /\ DOMAIN m.tasks \subseteq Nat \ {0}

(* Scenario validation; with a Step of more than a second a vehicle could  *)
(* run past the point it heads for (velocity rounds up), which is left out.*)
ASSUME WorldAssumption ==
  /\ Cell \in Nat \ {0} /\ Columns \in Nat \ {0} /\ MaxTicks \in Nat \ {0}
  /\ Step \in 1..1000
  /\ Deltas \subseteq Int /\ Permilles \subseteq Nat \ {0} /\ MaxEvents \in Nat
ASSUME MissionsAssumption == \A m \in Missions : WellFormed(m)

VARIABLES
  mission,   (* the mission                                                *)
  phase,     (* "agent", then the simulator's "events" and "tasks"         *)
  tick,      (* tick_                                                      *)
  x,         (* x_mm                                                       *)
  energy,    (* energy_mj                                                  *)
  capacity,  (* energy_capacity_mj                                         *)
  speed,     (* max_speed_mm_s, as it is now                               *)
  closed,    (* the closed edges                                           *)
  work,      (* released, status, assignment and progress of each task     *)
  act,       (* the agent's action of this tick                            *)
  events,    (* how many events there were                                 *)
  promise    (* what the agent set out to do, undisturbed since            *)

vars == <<mission, phase, tick, x, energy, capacity, speed, closed, work, act, events, promise>>

Tasks    == DOMAIN mission.tasks
Chargers == DOMAIN mission.chargers
Places(i) == i * Cell

Nothing == 0     (* promise of no task                                     *)
NoPromise == [task |-> Nothing, direct |-> FALSE]

(* An action: the task it is about, whether it reports work or a           *)
(* rejection, the velocity, and the charger it asks for.                   *)
Idle == [task |-> Nothing, working |-> FALSE, rejected |-> FALSE, velocity |-> 0,
         charger |-> Nothing]

Init ==
  /\ mission \in Missions
  /\ phase = "agent"
  /\ tick = 0
  /\ x \in {Places(i) : i \in 0..Columns}
  /\ energy = mission.initial
  /\ capacity = mission.initial
  /\ speed = mission.speed
  /\ closed = {}
  /\ work = [t \in Tasks |-> [released |-> mission.tasks[t].released, status |-> "pending",
                              mine |-> TRUE, progress |-> 0]]
  /\ act = Idle
  /\ events = 0
  /\ promise = NoPromise

-----------------------------------------------------------------------------
(* Arithmetic.                                                             *)
Least(a, b) == IF a <= b THEN a ELSE b
Most(a, b)  == IF a >= b THEN a ELSE b
Distance(a, b) == IF a <= b THEN b - a ELSE a - b
CeilDiv(a, b) == a \div b + (IF a % b = 0 THEN 0 ELSE 1)

(* motion_energy: two divisions, both rounding down.                       *)
MotionEnergy(d, permille) == (((d * mission.cost) \div 1000) * permille) \div 1000

(* edge_ticks and travel_ticks: whole ticks, rounded up.                   *)
Mut_Ticks(d) == (d * 1000) \div (speed * Step)

Ticks(d) == CeilDiv(d * 1000, speed * Step)

(* reserve_energy: a tenth of what the vehicle started with, rounded up.   *)
Reserve == CeilDiv(mission.initial, 10)

(* segment_allowed: the way from p to q enters no closed edge.             *)
Allowed(p, q) ==
  \A e \in closed : ~(Least(p, q) < (e + 1) * Cell /\ Most(p, q) > e * Cell)

(* The next point of the route from p to q: the grid point next to p.      *)
Waypoint(p, q) ==
  IF p < q THEN (p \div Cell + 1) * Cell
  ELSE IF p > q THEN ((p - 1) \div Cell) * Cell
  ELSE p

(* The energy of a way within one edge.                                    *)
LegEnergy(p, q) ==
  IF p = q THEN 0 ELSE MotionEnergy(Distance(p, q), mission.terrain[Least(p, q) \div Cell])

(* route_to: up to the next grid point, and from there along whole edges.  *)
RouteEnergy(p, q) ==
  LET w == Waypoint(p, q)
  IN LegEnergy(p, w) + Distance(mission.upTo[w \div Cell], mission.upTo[q \div Cell])

RouteTicks(p, q) ==
  LET w == Waypoint(p, q)
  IN Ticks(Distance(p, w)) + (Distance(w, q) \div Cell) * Ticks(Cell)

-----------------------------------------------------------------------------
(* The agent.  Its task: the pending one with the earliest deadline.       *)
Mine(t) == work[t].released /\ work[t].status = "pending" /\ work[t].mine

Sooner(t, u) ==
  LET d == mission.tasks[t].deadline  e == mission.tasks[u].deadline
  IN d < e \/ (d = e /\ t < u)

Current == {t \in Tasks : Mine(t) /\ \A u \in Tasks : Mine(u) => t = u \/ Sooner(t, u)}

Target(t)  == Places(mission.tasks[t].target)
Left(t)    == mission.tasks[t].service - work[t].progress
Time(t)    == mission.tasks[t].deadline - tick
Effort(t)  == Left(t) * mission.tasks[t].cost

(* validate: can the task be done in time, and is there energy for it.     *)
Mut_InTime(t) ==
  /\ mission.tasks[t].able
  /\ Allowed(x, Target(t))
  /\ RouteTicks(x, Target(t)) + Left(t) <= Time(t) + 1

InTime(t) ==
  /\ mission.tasks[t].able
  /\ tick <= mission.tasks[t].deadline
  /\ Allowed(x, Target(t))
  /\ RouteTicks(x, Target(t)) + Left(t) <= Time(t)

Mut_Short(t) == energy < RouteEnergy(x, Target(t)) + Effort(t)

Short(t) == energy < RouteEnergy(x, Target(t)) + Effort(t) + Reserve

(* select_charger: one that can be reached, from which a full battery is   *)
(* enough, and in time; of these the nearest, then the first.              *)
Site(c) == Places(mission.chargers[c].at)

Demand(t, c) == RouteEnergy(Site(c), Target(t)) + Reserve + Effort(t)

Mut_ChargeTicks(t, c) ==
  Most(0, Demand(t, c) - (energy - RouteEnergy(x, Site(c)))) \div mission.chargers[c].rate

ChargeTicks(t, c) ==
  CeilDiv(Most(0, Demand(t, c) - (energy - RouteEnergy(x, Site(c)))), mission.chargers[c].rate)

Serves(t, c) ==
  /\ Allowed(x, Site(c))
  /\ RouteEnergy(x, Site(c)) <= energy
  /\ Allowed(Site(c), Target(t))
  /\ Demand(t, c) <= capacity
  /\ RouteTicks(x, Site(c)) + ChargeTicks(t, c) + RouteTicks(Site(c), Target(t)) + Left(t)
       <= Time(t)

Selected(t) ==
  {c \in Chargers : Serves(t, c) /\ \A d \in Chargers : Serves(t, d) =>
     \/ Distance(x, Site(c)) < Distance(x, Site(d))
     \/ Distance(x, Site(c)) = Distance(x, Site(d)) /\ c <= d}

(* velocity: as fast as it may, but no further than the point q.           *)
Velocity(q) ==
  LET pace == Least(speed, CeilDiv(Distance(x, q) * 1000, Step))
  IN IF q < x THEN -pace ELSE pace

Toward(q) == Velocity(Waypoint(x, q))

Decide(action, promised) ==
  /\ phase = "agent" /\ phase' = "events"
  /\ act' = action
  /\ promise' = promised
  /\ UNCHANGED <<mission, tick, x, energy, capacity, speed, closed, work, events>>

(* reject.                                                                 *)
GiveUp(t) ==
  /\ t \in Current
  /\ ~InTime(t) \/ (Short(t) /\ \A c \in Chargers : ~Serves(t, c))
  /\ Decide([Idle EXCEPT !.task = t, !.rejected = TRUE], NoPromise)

(* recover: at the charger, or on the way there.  Where service has begun, *)
(* the plan counts work that is lost by leaving: no promise is made then.  *)
Detour(t) == IF work[t].progress = 0 THEN [task |-> t, direct |-> FALSE] ELSE NoPromise

Charge(t, c) ==
  /\ t \in Current /\ InTime(t) /\ Short(t) /\ c \in Selected(t)
  /\ Distance(x, Site(c)) <= mission.chargers[c].radius
  /\ Decide([Idle EXCEPT !.task = t, !.charger = c], Detour(t))

GoCharging(t, c) ==
  /\ t \in Current /\ InTime(t) /\ Short(t) /\ c \in Selected(t)
  /\ Distance(x, Site(c)) > mission.chargers[c].radius
  /\ Decide([Idle EXCEPT !.task = t, !.velocity = Toward(Site(c))], Detour(t))

(* execute and report; or navigate.                                        *)
Work(t) ==
  /\ t \in Current /\ InTime(t) /\ ~Short(t)
  /\ Distance(x, Target(t)) <= mission.tasks[t].radius
  /\ Decide([Idle EXCEPT !.task = t, !.working = TRUE], [task |-> t, direct |-> TRUE])

Travel(t) ==
  /\ t \in Current /\ InTime(t) /\ ~Short(t)
  /\ Distance(x, Target(t)) > mission.tasks[t].radius
  /\ Decide([Idle EXCEPT !.task = t, !.velocity = Toward(Target(t))],
            [task |-> t, direct |-> TRUE])

(* return_home, which asks for no energy.                                  *)
Returns(h) == Distance(x, Places(h.at)) > h.radius /\ Allowed(x, Places(h.at))

GoHome(h) ==
  /\ Current = {} /\ h \in mission.home /\ Returns(h)
  /\ Decide([Idle EXCEPT !.velocity = Toward(Places(h.at))], NoPromise)

Rest ==
  /\ Current = {} /\ \A h \in mission.home : ~Returns(h)
  /\ Decide(Idle, NoPromise)

-----------------------------------------------------------------------------
(* The simulator: scheduled events, any of which ends a promise.           *)
Event ==
  /\ phase = "events" /\ events < MaxEvents
  /\ events' = events + 1
  /\ promise' = NoPromise
  /\ UNCHANGED <<mission, phase, tick, x, act>>

EnergyDelta(v) ==
  /\ Event
  /\ energy' = Most(0, energy + v)
  /\ UNCHANGED <<capacity, speed, closed, work>>

SetSpeed(v) ==
  /\ Event
  /\ speed' = Most(1, (mission.speed * v) \div 1000)
  /\ UNCHANGED <<energy, capacity, closed, work>>

SetEndurance(v) ==
  /\ Event
  /\ capacity' = Most(1, (mission.initial * v) \div 1000)
  /\ energy' = Least(energy, capacity')
  /\ UNCHANGED <<speed, closed, work>>

SetClosed(e, value) ==
  /\ Event
  /\ value # (e \in closed)
  /\ closed' = IF value THEN closed \cup {e} ELSE closed \ {e}
  /\ UNCHANGED <<energy, capacity, speed, work>>

ReleaseTask(t) ==
  /\ Event
  /\ ~work[t].released
  /\ work' = [work EXCEPT ![t].released = TRUE]
  /\ UNCHANGED <<energy, capacity, speed, closed>>

(* apply_rejections and apply_actions: a velocity is cut to what the       *)
(* vehicle can do now, and moves it whole millimetres, rounded down; it    *)
(* stays where a region or its energy stops it.  A vehicle that stands in  *)
(* the radius of the charger it asks for is charged.                       *)
Moved ==
  LET d == (Least(Distance(0, act.velocity), speed) * Step) \div 1000
  IN IF act.velocity < 0 THEN x - d ELSE x + d

Goes == Allowed(x, Moved) /\ LegEnergy(x, Moved) <= energy

Charged(c) ==
  IF act.velocity = 0 /\ Distance(x, Site(c)) <= mission.chargers[c].radius
  THEN Least(capacity, energy + mission.chargers[c].rate) ELSE energy

ApplyActions ==
  /\ phase = "events" /\ phase' = "tasks"
  /\ x' = IF Goes THEN Moved ELSE x
  /\ energy' = IF act.charger # Nothing THEN Charged(act.charger)
               ELSE IF Goes THEN energy - LegEnergy(x, Moved) ELSE energy
  /\ work' = [t \in Tasks |->
                IF act.rejected /\ act.task = t /\ work[t].status = "pending" /\ work[t].mine
                THEN [work[t] EXCEPT !.mine = FALSE, !.progress = 0] ELSE work[t]]
  /\ UNCHANGED <<mission, tick, capacity, speed, closed, act, events, promise>>

(* The clock moves, then update_tasks: a task is missed after its deadline,*)
(* is completed by being there if it needs no service, and otherwise needs *)
(* an unbroken run of ticks of work, each with energy above the reserve.   *)
There(t) ==
  work[t].mine /\ mission.tasks[t].able /\ Distance(x, Target(t)) <= mission.tasks[t].radius

Served(t) ==
  /\ work[t].released /\ work[t].status = "pending" /\ tick < mission.tasks[t].deadline
  /\ mission.tasks[t].service > 0 /\ There(t)
  /\ act.working /\ act.task = t
  /\ energy >= mission.tasks[t].cost + Reserve

After(t) ==
  LET w == work[t]
  IN IF ~w.released \/ w.status # "pending" THEN w
     ELSE IF tick + 1 > mission.tasks[t].deadline
          THEN [w EXCEPT !.status = "missed", !.progress = 0]
     ELSE IF ~w.mine THEN w
     ELSE IF mission.tasks[t].service = 0
          THEN IF There(t) THEN [w EXCEPT !.status = "completed"] ELSE w
     ELSE IF ~Served(t) THEN [w EXCEPT !.progress = 0]
     ELSE [w EXCEPT !.progress = @ + 1,
                    !.status = IF w.progress + 1 >= mission.tasks[t].service
                               THEN "completed" ELSE "pending"]

UpdateTasks ==
  /\ phase = "tasks" /\ phase' = "agent"
  /\ tick < MaxTicks /\ tick' = tick + 1
  /\ work' = [t \in Tasks |-> After(t)]
  /\ energy' = IF \E t \in Tasks : Served(t)
               THEN energy - mission.tasks[act.task].cost ELSE energy
  /\ UNCHANGED <<mission, x, capacity, speed, closed, act, events, promise>>

Next ==
  \/ \E t \in Tasks : \/ GiveUp(t) \/ Work(t) \/ Travel(t) \/ ReleaseTask(t)
                      \/ \E c \in Chargers : Charge(t, c) \/ GoCharging(t, c)
  \/ \E h \in mission.home : GoHome(h)
  \/ Rest
  \/ \E v \in Deltas : EnergyDelta(v)
  \/ \E v \in Permilles : SetSpeed(v) \/ SetEndurance(v)
  \/ \E e \in Edges, value \in BOOLEAN : SetClosed(e, value)
  \/ ApplyActions
  \/ UpdateTasks

Spec == Init /\ [][Next]_vars

-----------------------------------------------------------------------------
(* Properties.                                                             *)
(* The vehicle is in the corridor, its energy is not negative (the code's  *)
(* own safety invariant), and progress stays below the service.            *)
TypeOK ==
  /\ mission \in Missions /\ phase \in {"agent", "events", "tasks"}
  /\ tick \in 0..MaxTicks /\ x \in 0..(Columns * Cell)
  /\ energy \in Nat /\ capacity \in Nat \ {0} /\ speed \in Nat \ {0}
  /\ closed \subseteq Edges /\ events \in 0..MaxEvents
  /\ promise \in [task : Tasks \cup {Nothing}, direct : BOOLEAN]
  /\ DOMAIN work = Tasks
  /\ \A t \in Tasks : /\ work[t].released \in BOOLEAN /\ work[t].mine \in BOOLEAN
                      /\ work[t].status \in {"pending", "completed", "missed"}
                      /\ work[t].progress \in 0..mission.tasks[t].service

(* A vehicle covers whole millimetres in a tick at full speed.             *)
Exact == (speed * Step) % 1000 = 0

(* Chargers are used at their centre, from which select_charger plans.     *)
Centred == \A c \in Chargers : mission.chargers[c].radius = 0

(* An agent that has set out for a task and is not disturbed completes it  *)
(* with its reserve intact: at every later decision it still finds the     *)
(* task in time, it never finds its energy short once it had enough, and   *)
(* while it had not, there is still a charger that helps.  So no plan of   *)
(* the behaviour tree is spoilt by the roundings of the simulator.         *)
OnTrack(t) ==
  /\ t \in Current /\ InTime(t)
  /\ promise.direct => ~Short(t)
  /\ Short(t) => \E c \in Chargers : Serves(t, c)

Done(t) == work[t].status = "completed" /\ (promise.direct => energy >= Reserve)

PlansHold ==
  phase = "agent" /\ promise.task # Nothing /\ Exact /\ (promise.direct \/ Centred) =>
    Done(promise.task) \/ OnTrack(promise.task)

(* No deadline passes while the agent is at the task, at whatever speed,   *)
(* unless it was disturbed in that tick: it gives the task back in time    *)
(* for the simulator, which counts the ticks from the other end.           *)
NeverLateInHand ==
  [][\A t \in Tasks : promise.task = t /\ work[t].status = "pending" =>
       work'[t].status # "missed"]_vars

(* feasible_route of the planner, with which the agent bids for a task and *)
(* the simulator accepts its commit.                                       *)
FeasibleRoute(t) ==
  /\ work[t].status = "pending" /\ mission.tasks[t].able
  /\ tick <= mission.tasks[t].deadline
  /\ Allowed(x, Target(t))
  /\ RouteTicks(x, Target(t)) <= Time(t)
  /\ Left(t) <= Time(t) - RouteTicks(x, Target(t))
  /\ energy - Reserve >= 0
  /\ RouteEnergy(x, Target(t)) <= energy - Reserve
  /\ Effort(t) <= energy - Reserve - RouteEnergy(x, Target(t))

(* What an agent may bid for is what its behaviour tree then sets out for. *)
BidsAreServed ==
  phase = "agent" => \A t \in Current : FeasibleRoute(t) <=> InTime(t) /\ ~Short(t)
=============================================================================
