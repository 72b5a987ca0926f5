---------------------------- MODULE Chokepoint ----------------------------
(***************************************************************************)
(* Vehicles on their way through chokepoints: each agent follows a route   *)
(* and proposes windows for the chokepoints on it (agent/src/autonomy.cpp),*)
(* the simulator grants windows from its table and lets a vehicle move     *)
(* only under a grant (core/src/simulator.cpp).                            *)
(*                                                                         *)
(* One tick: the agents act on what they observe, the simulator accepts    *)
(* the batch, applies the scheduled events, then apply_reservations() and  *)
(* the motion loop of apply_actions(), each vehicle in the order of its    *)
(* id.  todo holds the vehicles the current loop has not come to.  Agents  *)
(* write only their own state, so their order does not matter.             *)
(*                                                                         *)
(* A route is the sequence of points ahead, one point a tick.  Ways are    *)
(* the routes A* may return.  Energy, terrain and speed appear as a        *)
(* vehicle that does not move although it may.  Whatever disturbs the flow *)
(* (an event, a task that changes, a pause, peers not heard of, a vehicle  *)
(* that stays) counts as an upset.                                         *)
(*                                                                         *)
(* shaken is a history variable: the vehicles that lost windows to an      *)
(* event of this tick.  A name that starts with Mut_ is a mistake someone  *)
(* could make in the definition after it; nothing uses it, and             *)
(* PROJECT.json says which property it breaks.                             *)
(***************************************************************************)
EXTENDS Integers, Sequences

CONSTANTS
  Agents,       (* vehicle ids, ordered                                    *)
  Points,       (* where a vehicle may be at the end of a tick             *)
  Chokepoints,  (* ids of the chokepoint regions, ordered                  *)
  Crossed,      (* the chokepoints a segment <<from, to>> intersects       *)
  Ways,         (* routes from one point to another: the points to come    *)
  Start,        (* initial_position of each vehicle                        *)
  Errand,       (* where each vehicle's first task is                      *)
  Sites,        (* where tasks, chargers and return locations are          *)
  Versions,     (* bound: reservation versions                             *)
  Routes,       (* bound: route versions                                   *)
  Maps,         (* bound: map versions                                     *)
  Horizon,      (* bound: the last tick of the clock and of a window       *)
  MaxUpsets,    (* bound: how many upsets a run has                        *)
  Calm          (* bound: the first tick without upsets                    *)

ASSUME AgentsAssumption == Agents \subseteq Nat
ASSUME WorldAssumption ==
  /\ Chokepoints \subseteq Nat
  /\ Crossed \in [Points \X Points -> SUBSET Chokepoints]
  /\ \A p, q \in Points : Crossed[<<p, p>>] \cup Crossed[<<q, q>>] \subseteq Crossed[<<p, q>>]
  /\ Ways \in [Points \X Points -> SUBSET Seq(Points)]
  /\ Start \in [Agents -> Points]
  /\ Errand \in [Agents -> Points]
  /\ Sites \subseteq Points
ASSUME BoundsAssumption ==
  /\ Versions \subseteq Nat \ {0}
  /\ Routes \subseteq Nat
  /\ 0 \in Routes
  /\ Maps \subseteq Nat \ {0}
  /\ 1 \in Maps
  /\ Horizon \in Nat
  /\ MaxUpsets \in Nat
  /\ Calm \in Nat

VARIABLES
  tick,         (* the simulator's tick_                                   *)
  phase,        (* where the tick is                                       *)
  todo,         (* the vehicles the current loop has still to visit        *)
  upsets,       (* how many upsets there were                              *)
  committed,    (* ReservationTable::committed_                            *)
  newest,       (* the newest version of each agent in seen_               *)
  pos,          (* Vehicle::x_mm, y_mm                                     *)
  active,       (* Vehicle::active                                         *)
  current,      (* Vehicle::route_version, the one the simulator knows     *)
  map,          (* map_version of the world                                *)
  closed,       (* the chokepoints that are closed                         *)
  fence,        (* coordination_fence of this tick                         *)
  goal,         (* where the agent is going: route_goal_ or what replaces it *)
  routed,       (* whether the agent's route_ is set                       *)
  route,        (* its points from waypoint_ on                            *)
  routeVersion, (* route_version_                                          *)
  version,      (* reservation_version_                                    *)
  pending,      (* start_tick of pending_reservation_, 0 if none           *)
  changed,      (* agents whose map or dynamics changed since they acted   *)
  move,         (* the point an agent's velocity leads to this tick        *)
  proposals,    (* reservation_proposals of its action                     *)
  shaken        (* history: vehicles that lost windows to an event         *)

table   == <<committed, newest>>
world   == <<pos, active, map, closed>>
agents  == <<goal, routed, route, routeVersion, version, pending, changed>>
actions == <<move, proposals>>
vars    == <<tick, phase, todo, upsets, table, world, current, fence, agents, actions,
             shaken>>

Stage == CASE phase \in {"agents", "events"}   -> "events"
           [] phase = "routes"                 -> "routes"
           [] phase \in {"requests", "motion"} -> "requests"

(* The table is the one of ReservationTable, operations included.          *)
Table == INSTANCE ReservationTable WITH phase <- Stage, Resources <- Chokepoints

Phases == {"agents", "events", "routes", "requests", "motion"}

TypeOK ==
  /\ phase \in Phases
  /\ todo \subseteq Agents
  /\ upsets \in 0..MaxUpsets
  /\ Table!TypeOK
  /\ pos \in [Agents -> Points]
  /\ active \in [Agents -> BOOLEAN]
  /\ current \in [Agents -> Routes]
  /\ map \in Maps
  /\ closed \subseteq Chokepoints
  /\ fence \in BOOLEAN
  /\ goal \in [Agents -> Points]
  /\ routed \in [Agents -> BOOLEAN]
  /\ route \in [Agents -> Seq(Points)]
  /\ routeVersion \in [Agents -> Routes]
  /\ version \in [Agents -> Versions \cup {0}]
  /\ pending \in [Agents -> 0..Horizon]
  /\ changed \subseteq Agents
  /\ move \in [Agents -> Points]
  /\ proposals \in [Agents -> SUBSET Table!Reservation]
  /\ shaken \subseteq Agents

-----------------------------------------------------------------------------
(* contested_resource: of the chokepoints a segment intersects, the one    *)
(* with the least id, if there is any.                                     *)
Contested(p, q) == {c \in Crossed[<<p, q>>] : \A d \in Crossed[<<p, q>>] : c <= d}

Inside(a, c) == c \in Crossed[<<pos[a], pos[a]>>]

(* The loops go over the vehicles by id.                                   *)
Turn(a) == a \in todo /\ \A b \in todo : a <= b

Visit(a) == todo' = todo \ {a}

Upset(n) ==
  /\ n > 0 => tick < Calm /\ upsets + n <= MaxUpsets
  /\ upsets' = upsets + n

-----------------------------------------------------------------------------
(* What an agent knows of its windows: those it is shown, those that are   *)
(* valid on the route it follows (its route_version_ is v).                *)
Own(a, c) == {w \in committed : w.agent = a /\ w.resource = c}

Valid(a, c, v) == {w \in Own(a, c) : w.route = v /\ w.map = map}

Covers(w, t) == w.start <= t /\ t <= w.end

(* follow() skips the waypoint the vehicle stands on.                      *)
Ahead(a, way) == IF way # <<>> /\ Head(way) = pos[a] THEN Tail(way) ELSE way

From(a, way, i) == IF i = 1 THEN pos[a] ELSE way[i - 1]

(* passage_ticks: how many legs ahead contend for the same chokepoint.     *)
Passage(a, way, c, n) ==
  /\ \A i \in 1..n : c \in Contested(From(a, way, i), way[i])
  /\ n < Len(way) => c \notin Contested(way[n], way[n + 1])

(* A proposal starts after every window of its own still ahead.            *)
FirstFree(a, c, start) ==
  LET Slots == {tick + 1} \cup {w.end + 1 : w \in Own(a, c)}
  IN start \in Slots /\ \A s \in Slots : s <= start

(* reserve(): a leg that touches no chokepoint is free, one that does is   *)
(* under a grant ...                                                       *)
MayGo(a, way, v) ==
  \A c \in Contested(pos[a], Head(way)) : \E w \in Valid(a, c, v) : Covers(w, tick)

(* ... or the agent asks, unless it has asked and waits for the answer or  *)
(* for its window.                                                         *)
MayAsk(a, way, v, wait) ==
  /\ wait = 0
  /\ \A c \in Contested(pos[a], Head(way)) : ~\E w \in Valid(a, c, v) : tick < w.start

Stay(a) ==
  /\ move' = [move EXCEPT ![a] = pos[a]]
  /\ proposals' = [proposals EXCEPT ![a] = {}]
  /\ UNCHANGED version

Go(a, to) ==
  /\ move' = [move EXCEPT ![a] = to]
  /\ proposals' = [proposals EXCEPT ![a] = {}]
  /\ UNCHANGED version

Ask(a, way, v) ==
  \E c \in Contested(pos[a], Head(way)), start \in 1..Horizon, n \in 1..Len(way) :
     LET p == [resource |-> c, agent |-> a, start |-> start, end |-> start + n - 1,
               version |-> version[a] + 1, route |-> v, map |-> map]
     IN
     /\ FirstFree(a, c, start) /\ Passage(a, way, c, n)
     /\ p \in Table!Reservation
     /\ proposals' = [proposals EXCEPT ![a] = {p}]
     /\ version' = [version EXCEPT ![a] = p.version]
     /\ pending' = [pending EXCEPT ![a] = start]
     /\ move' = [move EXCEPT ![a] = pos[a]]

(* follow(): go, wait or ask; an agent that has not heard from its peers   *)
(* does not ask.                                                           *)
Follow(a, way, v, wait, cost) ==
  /\ route' = [route EXCEPT ![a] = way]
  /\ \/ /\ way # <<>> /\ MayGo(a, way, v)
        /\ Go(a, Head(way))
        /\ pending' = [pending EXCEPT ![a] = wait]
        /\ Upset(cost)
     \/ /\ way # <<>> => ~MayGo(a, way, v)
        /\ Stay(a)
        /\ pending' = [pending EXCEPT ![a] = wait]
        /\ Upset(IF way # <<>> /\ MayAsk(a, way, v, wait) THEN cost + 1 ELSE cost)
     \/ /\ way # <<>> /\ ~MayGo(a, way, v) /\ MayAsk(a, way, v, wait)
        /\ Ask(a, way, v)
        /\ Upset(cost)

(* synchronize() drops a route on a change of map or dynamics and forgets  *)
(* a proposal whose window should have begun.                              *)
Mut_Stale(a) == FALSE

Stale(a) == routed[a] /\ a \in changed

Mut_Outstanding(a) == pending[a]

Outstanding(a) == IF tick < pending[a] THEN pending[a] ELSE 0

Act(a) ==
  /\ phase = "agents" /\ Turn(a) /\ Visit(a)
  /\ changed' = changed \ {a}
  /\ UNCHANGED <<tick, phase, table, world, current, fence, shaken>>

OpenWays(a, g) ==
  {way \in Ways[<<pos[a], g>>] :
     \A i \in 1..Len(way) : Crossed[<<From(a, way, i), way[i]>>] \cap closed = {}}

(* clear_route(): the vehicle failed, arrived, finds no way, or gives up.  *)
ClearRoute(a) ==
  /\ Act(a)
  /\ routed' = [routed EXCEPT ![a] = FALSE]
  /\ route' = [route EXCEPT ![a] = <<>>]
  /\ routeVersion' = [routeVersion EXCEPT ![a] = IF routed[a] THEN @ + 1 ELSE @]
  /\ routeVersion'[a] \in Routes
  /\ pending' = [pending EXCEPT ![a] = 0]
  /\ Stay(a)
  /\ Upset(IF active[a] /\ pos[a] # goal[a] /\ OpenWays(a, goal[a]) # {} THEN 1 ELSE 0)
  /\ UNCHANGED goal

(* The agent keeps its route and stands: it serves its task, or waits for  *)
(* the allocation.                                                         *)
Pause(a) ==
  /\ Act(a)
  /\ routed[a] /\ ~Stale(a)
  /\ pending' = [pending EXCEPT ![a] = Outstanding(a)]
  /\ Stay(a)
  /\ Upset(IF pos[a] = goal[a] THEN 0 ELSE 1)
  /\ UNCHANGED <<goal, routed, route, routeVersion>>

Resume(a) ==
  /\ Act(a)
  /\ active[a] /\ routed[a] /\ ~Stale(a)
  /\ pos[a] # goal[a]
  /\ Follow(a, Ahead(a, route[a]), routeVersion[a], Outstanding(a), 0)
  /\ UNCHANGED <<goal, routed, routeVersion>>

(* set_route(), after clear_route() if what the old route was for is gone. *)
SetRoute(a, g, clear) ==
  /\ Act(a)
  /\ active[a]
  /\ pos[a] # g
  /\ ~routed[a] \/ Stale(a) \/ g # goal[a]
  /\ (clear => routed[a]) /\ (Stale(a) => clear)
  /\ goal' = [goal EXCEPT ![a] = g]
  /\ routed' = [routed EXCEPT ![a] = TRUE]
  /\ routeVersion' = [routeVersion EXCEPT ![a] = IF clear THEN @ + 2 ELSE @ + 1]
  /\ routeVersion'[a] \in Routes
  /\ \E way \in OpenWays(a, g) :
        Follow(a, Ahead(a, way), routeVersion'[a], IF clear THEN 0 ELSE Outstanding(a),
               IF g = goal[a] THEN 0 ELSE 1)

-----------------------------------------------------------------------------
(* The simulator.                                                          *)

(* canonicalize_actions: one bad proposal and the mission fails.           *)
ValidReservation(a, p) ==
  /\ p.agent = a
  /\ p.version # 0
  /\ p.route # 0 /\ p.route = routeVersion[a]
  /\ p.map = map
  /\ tick < p.start /\ p.start <= p.end
  /\ p.resource \notin closed

Canonicalize ==
  /\ phase = "agents" /\ todo = {}
  /\ \A a \in Agents : \A p \in proposals[a] : ValidReservation(a, p)
  /\ phase' = "events"
  /\ UNCHANGED <<tick, todo, upsets, table, world, current, fence, agents, actions, shaken>>

Event ==
  /\ phase = "events"
  /\ Upset(1)
  /\ UNCHANGED <<tick, phase, todo, pos, current, goal, routed, route, routeVersion,
                 version, pending, actions>>

DisableVehicle(a) ==
  /\ Event
  /\ active[a]
  /\ active' = [active EXCEPT ![a] = FALSE]
  /\ Table!ReleaseAgent(a)
  /\ shaken' = shaken \cup {a}
  /\ UNCHANGED <<map, closed, fence, changed>>

(* SET_SPEED_PERMILLE, SET_ENDURANCE_PERMILLE: the windows go even if the  *)
(* value is the old one and the agent sees no change.                      *)
DegradeVehicle(a) ==
  /\ Event
  /\ Table!ReleaseRoute(a, current[a])
  /\ changed' \in {changed, changed \cup {a}}
  /\ shaken' = shaken \cup {a}
  /\ UNCHANGED <<active, map, closed, fence>>

(* SET_REGION_CLOSED on a chokepoint or on some other region.              *)
SetRegionClosed ==
  /\ Event
  /\ map + 1 \in Maps
  /\ map' = map + 1
  /\ \/ closed' = closed
     \/ \E c \in Chokepoints : closed' \in {closed \cup {c}, closed \ {c}}
  /\ Table!ReleaseMap(map + 1)
  /\ changed' = Agents
  /\ shaken' = Agents
  /\ UNCHANGED <<active, fence>>

SetLinkBlocked ==
  /\ Event
  /\ fence' = TRUE
  /\ UNCHANGED <<table, active, map, closed, changed, shaken>>

(* apply_reservations: windows that ended, ...                             *)
Mut_EndEvents ==
  /\ phase = "events"
  /\ phase' = "routes"
  /\ todo' = Agents
  /\ Table!ReleaseBefore(tick + 1)
  /\ UNCHANGED <<tick, upsets, world, current, fence, agents, actions, shaken>>

EndEvents ==
  /\ phase = "events"
  /\ phase' = "routes"
  /\ todo' = Agents
  /\ Table!ReleaseBefore(tick)
  /\ UNCHANGED <<tick, upsets, world, current, fence, agents, actions, shaken>>

(* ... windows of routes that were replaced, ...                           *)
Mut_ChangeRoute(a) ==
  /\ phase = "routes" /\ Turn(a) /\ Visit(a)
  /\ current' = [current EXCEPT ![a] = routeVersion[a]]
  /\ UNCHANGED <<tick, phase, upsets, table, world, fence, agents, actions, shaken>>

ChangeRoute(a) ==
  /\ phase = "routes" /\ Turn(a) /\ Visit(a)
  /\ IF routeVersion[a] # current[a] THEN Table!ReleaseRoute(a, current[a])
                                     ELSE UNCHANGED table
  /\ current' = [current EXCEPT ![a] = routeVersion[a]]
  /\ UNCHANGED <<tick, phase, upsets, world, fence, agents, actions, shaken>>

(* ... and the proposals, unless the links changed.                        *)
EndRoutes ==
  /\ phase = "routes" /\ todo = {}
  /\ phase' = IF fence THEN "motion" ELSE "requests"
  /\ todo' = Agents
  /\ UNCHANGED <<tick, upsets, table, world, current, fence, agents, actions, shaken>>

Admissible(a, p) == active[a] /\ p.map = map /\ p.route = current[a]

Request(a) ==
  /\ phase = "requests" /\ Turn(a) /\ Visit(a)
  /\ IF \E p \in proposals[a] : Admissible(a, p) /\ ~Table!Seen(p)
       THEN \E p \in proposals[a] : Admissible(a, p) /\ Table!Reserve(p)
       ELSE UNCHANGED table
  /\ UNCHANGED <<tick, phase, upsets, world, current, fence, agents, actions, shaken>>

EndRequests ==
  /\ phase = "requests" /\ todo = {}
  /\ phase' = "motion"
  /\ todo' = Agents
  /\ UNCHANGED <<tick, upsets, table, world, current, fence, agents, actions, shaken>>

HasReservation(a, c) == \E w \in Valid(a, c, current[a]) : Covers(w, tick)

Mut_Occupied(c, a) == FALSE

Occupied(c, a) == \E b \in Agents \ {a} : active[b] /\ c \in Contested(pos[b], pos[b])

MayMove(a) ==
  /\ active[a]
  /\ \A c \in Contested(pos[a], move[a]) : HasReservation(a, c) /\ ~Occupied(c, a)
  /\ Crossed[<<pos[a], move[a]>>] \cap closed = {}

(* The motion loop of apply_actions.                                       *)
Move(a) ==
  /\ phase = "motion" /\ Turn(a) /\ Visit(a)
  /\ \/ /\ MayMove(a)
        /\ pos' = [pos EXCEPT ![a] = move[a]]
        /\ Upset(0)
     \/ /\ UNCHANGED pos
        /\ Upset(IF MayMove(a) /\ move[a] # pos[a] THEN 1 ELSE 0)
  /\ UNCHANGED <<tick, phase, table, active, map, closed, current, fence, agents, actions,
                 shaken>>

(* ++tick_, and the agents get the next observation.                       *)
Advance ==
  /\ phase = "motion" /\ todo = {}
  /\ tick < Horizon
  /\ tick' = tick + 1
  /\ phase' = "agents"
  /\ todo' = Agents
  /\ fence' = FALSE
  /\ move' = pos
  /\ proposals' = [a \in Agents |-> {}]
  /\ shaken' = {}
  /\ UNCHANGED <<upsets, table, world, current, agents>>

-----------------------------------------------------------------------------
Init ==
  /\ tick = 0 /\ phase = "agents" /\ todo = Agents /\ upsets = 0
  /\ committed = {} /\ newest = [a \in Agents |-> 0]
  /\ pos = Start /\ active = [a \in Agents |-> TRUE]
  /\ current = [a \in Agents |-> 0]
  /\ map = 1 /\ closed = {} /\ fence = FALSE
  /\ goal = Errand
  /\ routed = [a \in Agents |-> FALSE] /\ route = [a \in Agents |-> <<>>]
  /\ routeVersion = [a \in Agents |-> 0] /\ version = [a \in Agents |-> 0]
  /\ pending = [a \in Agents |-> 0] /\ changed = {}
  /\ move = Start /\ proposals = [a \in Agents |-> {}]
  /\ shaken = {}

AgentStep(a) ==
  \/ ClearRoute(a) \/ Pause(a) \/ Resume(a)
  \/ \E g \in Sites \cup {goal[a]}, clear \in BOOLEAN : SetRoute(a, g, clear)

EventStep ==
  \/ \E a \in Agents : DisableVehicle(a) \/ DegradeVehicle(a)
  \/ SetRegionClosed
  \/ SetLinkBlocked

SimulatorStep ==
  \/ Canonicalize \/ EndEvents \/ EndRoutes \/ EndRequests \/ Advance
  \/ \E a \in Agents : ChangeRoute(a) \/ Request(a) \/ Move(a)

Next == (\E a \in Agents : AgentStep(a)) \/ EventStep \/ SimulatorStep

Spec == Init /\ [][Next]_vars

(* Agents answer and the simulator goes on, whatever happens besides.      *)
FairSpec == Spec /\ WF_vars((\E a \in Agents : AgentStep(a)) \/ SimulatorStep)

-----------------------------------------------------------------------------
(* The simulator keeps the reservation table.                              *)
ImplementsTable == Table!Spec

(* No proposal an agent makes is one that canonicalize_actions throws on:  *)
(* that would end the mission.                                             *)
NeverThrows ==
  phase = "agents" /\ todo = {} =>
    \A a \in Agents : \A p \in proposals[a] : ValidReservation(a, p)

(* Every window in the table is one its holder can use: the vehicle works, *)
(* and the window is for the route and the map of now.                     *)
WindowsAreCurrent ==
  \A w \in committed :
    /\ active[w.agent]
    /\ w.map = map
    /\ w.route = current[w.agent]

(* A vehicle that sets out under a grant it was shown finds it still there *)
(* when the simulator checks it again, unless an event of this very tick   *)
(* took it: nothing the other agents propose does.                         *)
GrantHonoured ==
  phase = "motion" =>
    \A a \in todo \ shaken : active[a] /\ move[a] # pos[a] =>
       \A c \in Contested(pos[a], move[a]) : HasReservation(a, c)

(* An agent holds one window ahead on a chokepoint, however often it asks. *)
OneWindow ==
  \A v, w \in committed :
    v.agent = w.agent /\ v.resource = w.resource /\ tick <= v.end /\ tick <= w.end => v = w

(* The table stays usable: windows are of now, and nobody hoards them.     *)
WindowsSound == WindowsAreCurrent /\ OneWindow

(* Two active vehicles are never in one chokepoint.                        *)
Exclusive ==
  \A c \in Chokepoints : \A a, b \in Agents :
    active[a] /\ active[b] /\ Inside(a, c) /\ Inside(b, c) => a = b

(* A vehicle enters a chokepoint only in a window of its own for it.       *)
EntersUnderGrant ==
  [][\A a \in Agents : \A c \in Chokepoints :
       ~Inside(a, c) /\ Inside(a, c)' => \E w \in Own(a, c) : Covers(w, tick)]_vars

(* In the end every vehicle that works is where it wants to be, if there   *)
(* is a way.                                                               *)
Arrived(a) == pos[a] = goal[a] \/ OpenWays(a, goal[a]) = {}

EveryoneGetsThrough == <>[](\A a \in Agents : active[a] => Arrived(a))

=============================================================================
