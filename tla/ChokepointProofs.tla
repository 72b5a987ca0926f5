------------------------- MODULE ChokepointProofs -------------------------
(***************************************************************************)
(* What agents and simulator keep at chokepoints, for any world, any       *)
(* number of vehicles and any number of upsets.                            *)
(***************************************************************************)
EXTENDS Chokepoint, TLAPS

-----------------------------------------------------------------------------
(* Types, one kind of step at a time.                                      *)
LEMMA UpsetType ==
  ASSUME TypeOK, NEW n \in Nat, Upset(n)
  PROVE  upsets' \in 0..MaxUpsets
BY BoundsAssumption DEF TypeOK, Upset

LEMMA AheadType ==
  ASSUME NEW a, NEW way \in Seq(Points)
  PROVE  Ahead(a, way) \in Seq(Points)
BY DEF Ahead

LEMMA OutstandingType ==
  ASSUME TypeOK, NEW a \in Agents
  PROVE  Outstanding(a) \in 0..Horizon
BY BoundsAssumption DEF TypeOK, Outstanding

LEMMA StayType ==
  ASSUME TypeOK, NEW a \in Agents, Stay(a)
  PROVE  /\ move' \in [Agents -> Points]
         /\ proposals' \in [Agents -> SUBSET Table!Reservation]
         /\ version' \in [Agents -> Versions \cup {0}]
BY DEF TypeOK, Stay

LEMMA FollowType ==
  ASSUME TypeOK, NEW a \in Agents, NEW way \in Seq(Points), NEW v,
         NEW wait \in 0..Horizon, NEW cost \in Nat, Follow(a, way, v, wait, cost)
  PROVE  /\ route' \in [Agents -> Seq(Points)]
         /\ pending' \in [Agents -> 0..Horizon]
         /\ move' \in [Agents -> Points]
         /\ proposals' \in [Agents -> SUBSET Table!Reservation]
         /\ version' \in [Agents -> Versions \cup {0}]
         /\ upsets' \in 0..MaxUpsets
<1>1. route' \in [Agents -> Seq(Points)]
  BY DEF TypeOK, Follow
<1>2. CASE way # <<>> /\ Go(a, Head(way)) /\ pending' = [pending EXCEPT ![a] = wait] /\ Upset(cost)
  <2>1. Head(way) \in Points
    BY <1>2
  <2>2. upsets' \in 0..MaxUpsets
    BY <1>2, UpsetType
  <2> QED
    BY <1>1, <1>2, <2>1, <2>2 DEF TypeOK, Go
<1>3. CASE Stay(a) /\ pending' = [pending EXCEPT ![a] = wait] /\ (Upset(cost) \/ Upset(cost + 1))
  <2>1. upsets' \in 0..MaxUpsets
    BY <1>3, UpsetType
  <2>2. pending' \in [Agents -> 0..Horizon]
    BY <1>3 DEF TypeOK
  <2> QED
    BY <1>1, <1>3, <2>1, <2>2, StayType
<1>4. CASE Ask(a, way, v) /\ Upset(cost)
  <2>1. upsets' \in 0..MaxUpsets
    BY <1>4, UpsetType
  <2>2. PICK p \in Table!Reservation :
          /\ proposals' = [proposals EXCEPT ![a] = {p}]
          /\ version' = [version EXCEPT ![a] = p.version]
          /\ pending' = [pending EXCEPT ![a] = p.start]
          /\ move' = [move EXCEPT ![a] = pos[a]]
    BY <1>4 DEF Ask
  <2>3. p.version \in Versions /\ p.start \in 0..Horizon
    BY DEF Table!Reservation
  <2> QED
    BY <1>1, <2>1, <2>2, <2>3 DEF TypeOK
<1> QED
  BY <1>2, <1>3, <1>4 DEF Follow

LEMMA ActType ==
  ASSUME TypeOK, NEW a \in Agents, Act(a)
  PROVE  /\ phase' \in Phases /\ todo' \subseteq Agents /\ Table!TypeOK'
         /\ pos' \in [Agents -> Points] /\ active' \in [Agents -> BOOLEAN]
         /\ current' \in [Agents -> Routes] /\ map' \in Maps
         /\ closed' \subseteq Chokepoints /\ fence' \in BOOLEAN
         /\ changed' \subseteq Agents /\ shaken' \subseteq Agents
<1>1. UNCHANGED <<tick, phase, committed, newest, Stage>>
  BY DEF Act, table, Stage
<1>2. Table!TypeOK'
  BY <1>1 DEF TypeOK, Table!TypeOK
<1> QED
  BY <1>2 DEF TypeOK, Act, Visit, world

LEMMA TypeAgent ==
  ASSUME TypeOK, NEW a \in Agents, AgentStep(a)
  PROVE  TypeOK'
<1> USE BoundsAssumption
<1>1. CASE ClearRoute(a)
  <2>1. upsets' \in 0..MaxUpsets
    BY <1>1, UpsetType DEF ClearRoute
  <2>2. /\ routed' \in [Agents -> BOOLEAN] /\ route' \in [Agents -> Seq(Points)]
        /\ pending' \in [Agents -> 0..Horizon] /\ goal' \in [Agents -> Points]
    BY <1>1 DEF ClearRoute, TypeOK
  <2>3. routeVersion' \in [Agents -> Routes]
    BY <1>1 DEF ClearRoute, TypeOK
  <2> QED
    BY <1>1, <2>1, <2>2, <2>3, ActType, StayType DEF ClearRoute, TypeOK
<1>2. CASE Pause(a)
  <2>1. upsets' \in 0..MaxUpsets
    BY <1>2, UpsetType DEF Pause
  <2>2. pending' \in [Agents -> 0..Horizon]
    BY <1>2, OutstandingType DEF Pause, TypeOK
  <2> QED
    BY <1>2, <2>1, <2>2, ActType, StayType DEF Pause, TypeOK
<1>3. CASE Resume(a)
  <2>1. Ahead(a, route[a]) \in Seq(Points)
    BY AheadType DEF TypeOK
  <2>2. Follow(a, Ahead(a, route[a]), routeVersion[a], Outstanding(a), 0)
    BY <1>3 DEF Resume
  <2> QED
    BY <1>3, <2>1, <2>2, OutstandingType, ActType, FollowType DEF Resume, TypeOK
<1>4. ASSUME NEW g \in Points, NEW clear \in BOOLEAN, SetRoute(a, g, clear)
      PROVE  TypeOK'
  <2>1. PICK way \in OpenWays(a, g) :
          Follow(a, Ahead(a, way), routeVersion'[a], IF clear THEN 0 ELSE Outstanding(a),
                 IF g = goal[a] THEN 0 ELSE 1)
    BY <1>4 DEF SetRoute
  <2>2. way \in Seq(Points)
    BY WorldAssumption DEF OpenWays, TypeOK
  <2>3. (IF clear THEN 0 ELSE Outstanding(a)) \in 0..Horizon
    BY OutstandingType
  <2>4. /\ routed' \in [Agents -> BOOLEAN] /\ goal' \in [Agents -> Points]
    BY <1>4 DEF SetRoute, TypeOK
  <2>5. routeVersion' \in [Agents -> Routes]
    BY <1>4 DEF SetRoute, TypeOK
  <2>6. Ahead(a, way) \in Seq(Points)
    BY <2>2, AheadType
  <2>7. (IF g = goal[a] THEN 0 ELSE 1) \in Nat
    OBVIOUS
  <2>8. Act(a)
    BY <1>4 DEF SetRoute
  <2> QED
    BY <2>1, <2>3, <2>4, <2>5, <2>6, <2>7, <2>8, ActType, FollowType DEF TypeOK
<1> QED
  BY <1>1, <1>2, <1>3, <1>4, WorldAssumption, SMTT(30) DEF AgentStep, TypeOK

(* The table's operations: releases keep some of the windows, a proposal   *)
(* that is reserved replaces what it overlaps, or nothing.                 *)
LEMMA Releases ==
  /\ \A a : Table!ReleaseAgent(a) =>
        committed' = {w \in committed : w.agent # a} /\ newest' = newest
  /\ \A a, v : Table!ReleaseRoute(a, v) =>
        committed' = {w \in committed : ~(w.agent = a /\ w.route = v)} /\ newest' = newest
  /\ \A m : Table!ReleaseMap(m) =>
        committed' = {w \in committed : w.map = m} /\ newest' = newest
  /\ \A t : Table!ReleaseBefore(t) =>
        committed' = {w \in committed : ~(w.end < t)} /\ newest' = newest
BY DEF Table!ReleaseAgent, Table!ReleaseRoute, Table!ReleaseMap, Table!ReleaseBefore,
       Table!Release

LEMMA ReleaseType ==
  ASSUME TypeOK, committed' \subseteq committed, newest' = newest
  PROVE  /\ committed' \subseteq Table!Reservation
         /\ newest' \in [Agents -> Versions \cup {0}]
BY DEF TypeOK, Table!TypeOK

LEMMA EventReleases ==
  ASSUME EventStep
  PROVE  committed' \subseteq committed /\ newest' = newest
<1>1. ASSUME NEW a \in Agents, DisableVehicle(a)
      PROVE  committed' \subseteq committed /\ newest' = newest
  BY <1>1, Releases DEF DisableVehicle
<1>2. ASSUME NEW a \in Agents, DegradeVehicle(a)
      PROVE  committed' \subseteq committed /\ newest' = newest
  BY <1>2, Releases DEF DegradeVehicle
<1>3. CASE SetRegionClosed
  BY <1>3, Releases DEF SetRegionClosed
<1>4. CASE SetLinkBlocked
  BY <1>4 DEF SetLinkBlocked, table
<1> QED
  BY <1>1, <1>2, <1>3, <1>4 DEF EventStep

LEMMA TypeEvent ==
  ASSUME TypeOK, EventStep
  PROVE  TypeOK'
<1>1. Event
  BY DEF EventStep, DisableVehicle, DegradeVehicle, SetRegionClosed, SetLinkBlocked
<1>2. upsets' \in 0..MaxUpsets
  BY <1>1, UpsetType DEF Event
<1>3. Table!TypeOK'
  <2>1. tick' = tick /\ Stage' = Stage
    BY <1>1 DEF Event, Stage
  <2> QED
    BY <2>1, ReleaseType, EventReleases DEF TypeOK, Table!TypeOK
<1>4. /\ active' \in [Agents -> BOOLEAN] /\ map' \in Maps /\ closed' \subseteq Chokepoints
      /\ fence' \in BOOLEAN /\ changed' \subseteq Agents /\ shaken' \subseteq Agents
  BY DEF TypeOK, EventStep, DisableVehicle, DegradeVehicle, SetRegionClosed, SetLinkBlocked
<1> QED
  BY <1>1, <1>2, <1>3, <1>4 DEF TypeOK, Event, actions

(* What reserving does to the table.                                       *)
LEMMA RequestStep ==
  ASSUME TypeOK, NEW a \in Agents, Request(a)
  PROVE  \/ UNCHANGED <<committed, newest>>
         \/ \E p \in proposals[a] :
              /\ Admissible(a, p)
              /\ Table!Reserve(p)
              /\ newest' = [newest EXCEPT ![p.agent] = p.version]
              /\ \/ committed' = committed
                 \/ /\ Table!Wins(p)
                    /\ committed' = (committed \ Table!Conflicts(p)) \cup {p}
BY DEF Request, Table!Reserve, table

LEMMA TypeSimulator ==
  ASSUME TypeOK, SimulatorStep
  PROVE  TypeOK'
<1>1. CASE Canonicalize
  <2>1. Stage' = Stage /\ phase' \in Phases
    BY <1>1 DEF Canonicalize, Stage, Phases
  <2> QED
    BY <1>1, <2>1 DEF TypeOK, Table!TypeOK, Canonicalize, table, world, agents, actions
<1>2. CASE EndEvents
  <2>1. Stage' \in Table!Phases /\ phase' \in Phases
    BY <1>2 DEF EndEvents, Stage, Phases, Table!Phases
  <2>2. committed' \subseteq committed /\ newest' = newest
    BY <1>2, Releases DEF EndEvents
  <2>3. Table!TypeOK'
    BY <1>2, <2>1, <2>2, ReleaseType DEF TypeOK, Table!TypeOK, EndEvents
  <2> QED
    BY <1>2, <2>1, <2>3 DEF TypeOK, EndEvents, world, agents, actions
<1>3. CASE EndRoutes \/ EndRequests
  <2>1. Stage' \in Table!Phases /\ phase' \in Phases
    BY <1>3 DEF EndRoutes, EndRequests, Stage, Phases, Table!Phases
  <2>2. Table!TypeOK'
    BY <1>3, <2>1 DEF TypeOK, Table!TypeOK, EndRoutes, EndRequests, table
  <2> QED
    BY <1>3, <2>1, <2>2 DEF TypeOK, EndRoutes, EndRequests, world, agents, actions
<1>4. CASE Advance
  <2>1. Stage' \in Table!Phases /\ phase' \in Phases /\ tick' \in 0..Horizon
    BY <1>4, BoundsAssumption DEF Advance, Stage, Phases, Table!Phases, TypeOK, Table!TypeOK
  <2>2. Table!TypeOK'
    BY <1>4, <2>1 DEF TypeOK, Table!TypeOK, Advance, table
  <2>3. move' \in [Agents -> Points] /\ proposals' \in [Agents -> SUBSET Table!Reservation]
    BY <1>4 DEF TypeOK, Advance
  <2> QED
    BY <1>4, <2>1, <2>2, <2>3 DEF TypeOK, Advance, world, agents, table
<1>5. ASSUME NEW a \in Agents, ChangeRoute(a)
      PROVE  TypeOK'
  <2>1. Stage' = Stage
    BY <1>5 DEF ChangeRoute, Stage
  <2>2. committed' \subseteq committed /\ newest' = newest
    BY <1>5, Releases DEF ChangeRoute, table
  <2>3. Table!TypeOK'
    BY <1>5, <2>1, <2>2, ReleaseType DEF TypeOK, Table!TypeOK, ChangeRoute
  <2>4. current' \in [Agents -> Routes] /\ todo' \subseteq Agents
    BY <1>5 DEF TypeOK, ChangeRoute, Visit
  <2> QED
    BY <1>5, <2>3, <2>4 DEF TypeOK, ChangeRoute, world, agents, actions
<1>6. ASSUME NEW a \in Agents, Request(a)
      PROVE  TypeOK'
  <2>1. Stage' = Stage
    BY <1>6 DEF Request, Stage
  <2>2. /\ committed' \subseteq Table!Reservation
        /\ newest' \in [Agents -> Versions \cup {0}]
    <3>1. CASE UNCHANGED <<committed, newest>>
      BY <3>1 DEF TypeOK, Table!TypeOK
    <3>2. ASSUME NEW p \in proposals[a],
                 newest' = [newest EXCEPT ![p.agent] = p.version],
                 committed' \subseteq committed \cup {p}
          PROVE  /\ committed' \subseteq Table!Reservation
                 /\ newest' \in [Agents -> Versions \cup {0}]
      <4>1. p \in Table!Reservation
        BY DEF TypeOK
      <4>2. p.version \in Versions
        BY <4>1 DEF Table!Reservation
      <4> QED
        BY <3>2, <4>1, <4>2 DEF TypeOK, Table!TypeOK
    <3> QED
      BY <1>6, <3>1, <3>2, RequestStep
  <2>3. Table!TypeOK'
    BY <1>6, <2>1, <2>2 DEF TypeOK, Table!TypeOK, Request
  <2> QED
    BY <1>6, <2>3 DEF TypeOK, Request, Visit, world, agents, actions
<1>7. ASSUME NEW a \in Agents, Move(a)
      PROVE  TypeOK'
  <2>1. Stage' = Stage
    BY <1>7 DEF Move, Stage
  <2>2. upsets' \in 0..MaxUpsets
    BY <1>7, UpsetType DEF Move
  <2>3. Table!TypeOK'
    BY <1>7, <2>1 DEF TypeOK, Table!TypeOK, Move, table
  <2>4. pos' \in [Agents -> Points]
    BY <1>7 DEF Move, TypeOK
  <2> QED
    BY <1>7, <2>2, <2>3, <2>4 DEF TypeOK, Move, Visit, agents, actions
<1> QED
  BY <1>1, <1>2, <1>3, <1>4, <1>5, <1>6, <1>7 DEF SimulatorStep

LEMMA TypeInit == Init => TypeOK
<1> SUFFICES ASSUME Init PROVE TypeOK
  OBVIOUS
<1>1. Table!TypeOK
  BY BoundsAssumption DEF Init, Table!TypeOK, Table!Phases, Stage
<1>2. route \in [Agents -> Seq(Points)]
  <2>1. <<>> \in Seq(Points)
    OBVIOUS
  <2> QED
    BY <2>1 DEF Init
<1>3. /\ active \in [Agents -> BOOLEAN] /\ routed \in [Agents -> BOOLEAN] /\ fence \in BOOLEAN
      /\ closed \subseteq Chokepoints /\ changed \subseteq Agents /\ shaken \subseteq Agents
      /\ proposals \in [Agents -> SUBSET Table!Reservation]
  BY DEF Init
<1>4. /\ pos \in [Agents -> Points] /\ move \in [Agents -> Points] /\ goal \in [Agents -> Points]
      /\ phase \in Phases /\ todo \subseteq Agents
  BY WorldAssumption DEF Init, Phases
<1>5. /\ upsets \in 0..MaxUpsets /\ map \in Maps
      /\ pending \in [Agents -> 0..Horizon] /\ version \in [Agents -> Versions \cup {0}]
      /\ current \in [Agents -> Routes] /\ routeVersion \in [Agents -> Routes]
  BY BoundsAssumption DEF Init
<1> QED
  BY <1>1, <1>2, <1>3, <1>4, <1>5 DEF TypeOK

(* The state of agents and simulator is well formed, in every run.         *)
THEOREM TypeCorrect == Spec => []TypeOK
<1>1. TypeOK /\ [Next]_vars => TypeOK'
  <2> SUFFICES ASSUME TypeOK, [Next]_vars PROVE TypeOK'
    OBVIOUS
  <2>1. CASE UNCHANGED vars
    <3>1. Stage' = Stage
      BY <2>1 DEF vars, Stage
    <3> QED
      BY <2>1, <3>1 DEF TypeOK, Table!TypeOK, vars, table, world, agents, actions
  <2> QED
    BY <2>1, TypeAgent, TypeEvent, TypeSimulator DEF Next
<1> QED
  BY <1>1, TypeInit, PTL DEF Spec

-----------------------------------------------------------------------------
(* What an agent's step does: it touches only its own state, and goes,     *)
(* asks or stays.                                                          *)
Goes(a) ==
  /\ routed'[a] /\ route'[a] # <<>>
  /\ move'[a] = Head(route'[a]) /\ proposals'[a] = {}
  /\ MayGo(a, route'[a], routeVersion'[a])

Asks(a, p) ==
  /\ routed'[a] /\ route'[a] # <<>>
  /\ move'[a] = pos[a] /\ proposals'[a] = {p}
  /\ p.agent = a /\ p.route = routeVersion'[a] /\ p.map = map
  /\ tick < p.start /\ p.start <= p.end
  /\ p.resource \in Contested(pos[a], Head(route'[a]))
  /\ ~MayGo(a, route'[a], routeVersion'[a])
  /\ MayAsk(a, route'[a], routeVersion'[a], 0)

Stays(a) == move'[a] = pos[a] /\ proposals'[a] = {}

LEMMA StaysStep ==
  ASSUME TypeOK, NEW a \in Agents, Stay(a)
  PROVE  /\ Stays(a)
         /\ \A b \in Agents \ {a} : move'[b] = move[b] /\ proposals'[b] = proposals[b]
BY DEF TypeOK, Stay, Stays

LEMMA FollowStep ==
  ASSUME TypeOK, NEW a \in Agents, NEW way \in Seq(Points), NEW v, NEW wait, NEW cost,
         Follow(a, way, v, wait, cost), routeVersion'[a] = v, routed'[a]
  PROVE  /\ route'[a] = way
         /\ Stays(a) \/ Goes(a) \/ \E p \in Table!Reservation : Asks(a, p)
         /\ \A b \in Agents \ {a} : /\ move'[b] = move[b] /\ proposals'[b] = proposals[b]
                                    /\ route'[b] = route[b]
<1>1. route'[a] = way /\ \A b \in Agents \ {a} : route'[b] = route[b]
  BY DEF TypeOK, Follow
<1>2. CASE way # <<>> /\ MayGo(a, way, v) /\ Go(a, Head(way))
  BY <1>1, <1>2 DEF TypeOK, Go, Goes
<1>3. CASE Stay(a)
  BY <1>1, <1>3, StaysStep
<1>4. CASE way # <<>> /\ ~MayGo(a, way, v) /\ MayAsk(a, way, v, wait) /\ Ask(a, way, v)
  <2>1. PICK c \in Contested(pos[a], Head(way)), start \in 1..Horizon, n \in 1..Len(way),
             p \in Table!Reservation :
          /\ p = [resource |-> c, agent |-> a, start |-> start, end |-> start + n - 1,
                  version |-> version[a] + 1, route |-> v, map |-> map]
          /\ FirstFree(a, c, start)
          /\ proposals' = [proposals EXCEPT ![a] = {p}]
          /\ move' = [move EXCEPT ![a] = pos[a]]
    BY <1>4 DEF Ask
  <2>2. tick < start /\ start <= start + n - 1
    <3>1. tick \in Int /\ start \in Int /\ n \in Int /\ 1 <= n
      BY BoundsAssumption DEF TypeOK, Table!TypeOK
    <3>2. tick + 1 <= start
      BY <2>1 DEF FirstFree
    <3> QED
      BY <3>1, <3>2
  <2>3. MayAsk(a, way, v, 0)
    BY <1>4 DEF MayAsk
  <2>4. Asks(a, p)
    BY <1>1, <1>4, <2>1, <2>2, <2>3 DEF Asks, TypeOK
  <2>5. \A b \in Agents \ {a} : move'[b] = move[b] /\ proposals'[b] = proposals[b]
    BY <2>1 DEF TypeOK
  <2> QED
    BY <1>1, <2>4, <2>5
<1> QED
  BY <1>2, <1>3, <1>4 DEF Follow

LEMMA ActStep ==
  ASSUME TypeOK, NEW a \in Agents, AgentStep(a)
  PROVE  /\ UNCHANGED <<tick, phase, committed, newest, pos, active, map, closed,
                        current, fence, shaken>>
         /\ phase = "agents" /\ a \in todo /\ todo' = todo \ {a} /\ changed' = changed \ {a}
         /\ \A b \in Agents \ {a} :
              /\ move'[b] = move[b] /\ proposals'[b] = proposals[b]
              /\ route'[b] = route[b] /\ routed'[b] = routed[b]
              /\ routeVersion'[b] = routeVersion[b]
         /\ Stays(a) \/ Goes(a) \/ \E p \in Table!Reservation : Asks(a, p)
<1>1. Act(a)
  BY DEF AgentStep, ClearRoute, Pause, Resume, SetRoute
<1>2. /\ UNCHANGED <<tick, phase, committed, newest, pos, active, map, closed,
                     current, fence, shaken>>
      /\ phase = "agents" /\ a \in todo /\ todo' = todo \ {a} /\ changed' = changed \ {a}
  BY <1>1 DEF Act, Turn, Visit, table, world
<1>3. CASE ClearRoute(a)
  <2>1. \A b \in Agents \ {a} : /\ route'[b] = route[b] /\ routed'[b] = routed[b]
                                /\ routeVersion'[b] = routeVersion[b]
    BY <1>3 DEF TypeOK, ClearRoute
  <2> QED
    BY <1>2, <1>3, <2>1, StaysStep DEF ClearRoute
<1>4. CASE Pause(a)
  BY <1>2, <1>4, StaysStep DEF Pause
<1>5. CASE Resume(a)
  <2>1. Ahead(a, route[a]) \in Seq(Points)
    BY AheadType DEF TypeOK
  <2> QED
    BY <1>2, <1>5, <2>1, FollowStep DEF Resume
<1>6. ASSUME NEW g, NEW clear, SetRoute(a, g, clear), g \in Points
      PROVE  /\ \A b \in Agents \ {a} :
                  /\ move'[b] = move[b] /\ proposals'[b] = proposals[b]
                  /\ route'[b] = route[b] /\ routed'[b] = routed[b]
                  /\ routeVersion'[b] = routeVersion[b]
             /\ Stays(a) \/ Goes(a) \/ \E p \in Table!Reservation : Asks(a, p)
  <2>1. PICK way \in OpenWays(a, g) :
          Follow(a, Ahead(a, way), routeVersion'[a], IF clear THEN 0 ELSE Outstanding(a),
                 IF g = goal[a] THEN 0 ELSE 1)
    BY <1>6 DEF SetRoute
  <2>2. Ahead(a, way) \in Seq(Points)
    BY <1>6, AheadType, WorldAssumption DEF OpenWays, TypeOK
  <2>3. /\ routed'[a]
        /\ \A b \in Agents \ {a} : routed'[b] = routed[b] /\ routeVersion'[b] = routeVersion[b]
    BY <1>6 DEF SetRoute, TypeOK
  <2> QED
    BY <2>1, <2>2, <2>3, FollowStep
<1> QED
  BY <1>2, <1>3, <1>4, <1>5, <1>6, WorldAssumption DEF AgentStep, TypeOK

-----------------------------------------------------------------------------
(* A proposal is its agent's, for a window that has still to begin.        *)
Sound ==
  \A a \in Agents : \A p \in proposals[a] :
    p.agent = a /\ tick < p.start /\ p.start <= p.end

LEMMA SoundInit == Init => Sound
BY DEF Init, Sound

LEMMA SoundStep ==
  ASSUME TypeOK, Sound, [Next]_vars
  PROVE  Sound'
<1>1. ASSUME NEW a \in Agents, AgentStep(a)
      PROVE  Sound'
  <2> SUFFICES ASSUME NEW b \in Agents, NEW p \in proposals'[b]
               PROVE  p.agent = b /\ tick < p.start /\ p.start <= p.end
    BY <1>1, ActStep DEF Sound
  <2>1. CASE b # a
    BY <1>1, <2>1, ActStep DEF Sound
  <2>2. CASE b = a
    BY <1>1, <2>2, ActStep DEF Stays, Goes, Asks
  <2> QED
    BY <2>1, <2>2
<1>2. CASE UNCHANGED <<tick, proposals>>
  BY <1>2 DEF Sound
<1>3. CASE Advance
  BY <1>3 DEF Advance, Sound
<1>4. EventStep \/ (SimulatorStep /\ ~Advance) \/ UNCHANGED vars => UNCHANGED <<tick, proposals>>
  BY DEF EventStep, DisableVehicle, DegradeVehicle, SetRegionClosed, SetLinkBlocked, Event,
         SimulatorStep, Canonicalize, EndEvents, EndRoutes, EndRequests, ChangeRoute, Request,
         Move, vars, actions
<1> QED
  BY <1>1, <1>2, <1>3, <1>4 DEF Next

(* What the simulator calls on its table, each call when the table expects *)
(* it.                                                                     *)
LEMMA TableEvent ==
  ASSUME TypeOK, EventStep
  PROVE  Table!Event \/ UNCHANGED Table!vars
<1>1. UNCHANGED <<tick, Stage>> /\ Stage = "events"
  BY DEF EventStep, DisableVehicle, DegradeVehicle, SetRegionClosed, SetLinkBlocked, Event, Stage
<1>2. CASE \E a \in Agents : Table!ReleaseAgent(a)
  BY <1>1, <1>2 DEF Table!Event
<1>3. CASE \E a \in Agents : Table!ReleaseRoute(a, current[a])
  <2>1. \A a \in Agents : current[a] \in Routes
    BY DEF TypeOK
  <2> QED
    BY <1>1, <1>3, <2>1 DEF Table!Event
<1>4. CASE map + 1 \in Maps /\ Table!ReleaseMap(map + 1)
  BY <1>1, <1>4 DEF Table!Event
<1>5. CASE SetLinkBlocked
  BY <1>1, <1>5 DEF SetLinkBlocked, table, Table!vars
<1> QED
  BY <1>2, <1>3, <1>4, <1>5 DEF EventStep, DisableVehicle, DegradeVehicle, SetRegionClosed

LEMMA TableSimulator ==
  ASSUME TypeOK, Sound, SimulatorStep
  PROVE  [Table!Next]_(Table!vars)
<1> USE DEF Table!Next, Table!vars
<1>1. CASE Canonicalize
  <2>1. UNCHANGED <<tick, Stage, committed, newest>>
    BY <1>1 DEF Canonicalize, Stage, table
  <2> QED
    BY <2>1
<1>2. CASE EndEvents
  <2>1. tick' = tick /\ Stage = "events" /\ Stage' = "routes"
    BY <1>2 DEF EndEvents, Stage
  <2> QED
    BY <1>2, <2>1 DEF EndEvents, Table!Expire
<1>3. CASE EndRoutes
  <2>1. /\ UNCHANGED <<tick, committed, newest>>
        /\ Stage = "routes" /\ Stage' = "requests"
    BY <1>3 DEF EndRoutes, Stage, table
  <2> QED
    BY <2>1 DEF Table!EndRoutes
<1>4. CASE EndRequests
  <2>1. UNCHANGED <<tick, Stage, committed, newest>>
    BY <1>4 DEF EndRequests, Stage, table
  <2> QED
    BY <2>1
<1>5. CASE Advance
  <2>1. /\ UNCHANGED <<committed, newest>> /\ tick < Horizon /\ tick' = tick + 1
        /\ Stage = "requests" /\ Stage' = "events"
    BY <1>5 DEF Advance, Stage, table
  <2> QED
    BY <2>1 DEF Table!Advance
<1>6. ASSUME NEW a \in Agents, ChangeRoute(a)
      PROVE  [Table!Next]_(Table!vars)
  <2>1. tick' = tick /\ Stage = "routes" /\ Stage' = Stage
    BY <1>6 DEF ChangeRoute, Stage
  <2>2. CASE Table!ReleaseRoute(a, current[a])
    BY <2>1, <2>2 DEF Table!ChangeRoute, TypeOK
  <2>3. CASE UNCHANGED table
    BY <2>1, <2>3 DEF table
  <2> QED
    BY <1>6, <2>2, <2>3 DEF ChangeRoute
<1>7. ASSUME NEW a \in Agents, Request(a)
      PROVE  [Table!Next]_(Table!vars)
  <2>1. tick' = tick /\ Stage = "requests" /\ Stage' = Stage
    BY <1>7 DEF Request, Stage
  <2>2. CASE UNCHANGED <<committed, newest>>
    BY <2>1, <2>2
  <2>3. ASSUME NEW p \in proposals[a], Table!Reserve(p)
        PROVE  [Table!Next]_(Table!vars)
    <3>1. p \in Table!Reservation /\ tick < p.start /\ p.start <= p.end
      BY DEF TypeOK, Sound
    <3> QED
      BY <2>1, <2>3, <3>1 DEF Table!Request
  <2> QED
    BY <1>7, <2>2, <2>3, RequestStep
<1>8. ASSUME NEW a \in Agents, Move(a)
      PROVE  [Table!Next]_(Table!vars)
  <2>1. UNCHANGED <<tick, Stage, committed, newest>>
    BY <1>8 DEF Move, Stage, table
  <2> QED
    BY <2>1
<1> QED
  BY <1>1, <1>2, <1>3, <1>4, <1>5, <1>6, <1>7, <1>8 DEF SimulatorStep

(* The simulator uses its table as ReservationTable says it is used, so    *)
(* what is proved there of the windows holds here.                         *)
THEOREM TableImplemented == Spec => ImplementsTable
<1>1. Init => Table!Init
  BY DEF Init, Table!Init, Stage
<1>2. TypeOK /\ Sound /\ [Next]_vars => [Table!Next]_(Table!vars)
  <2> SUFFICES ASSUME TypeOK, Sound, [Next]_vars
               PROVE  [Table!Next]_(Table!vars)
    OBVIOUS
  <2>1. ASSUME NEW a \in Agents, AgentStep(a)
        PROVE  [Table!Next]_(Table!vars)
    <3>1. UNCHANGED <<tick, Stage, committed, newest>>
      BY <2>1, ActStep DEF Stage
    <3> QED
      BY <3>1 DEF Table!vars
  <2>2. CASE UNCHANGED vars
    <3>1. UNCHANGED <<tick, Stage, committed, newest>>
      BY <2>2 DEF vars, table, Stage
    <3> QED
      BY <3>1 DEF Table!vars
  <2> QED
    BY <2>1, <2>2, TableEvent, TableSimulator DEF Next, Table!Next
<1>3. TypeOK /\ Sound /\ [Next]_vars => Sound'
  BY SoundStep
<1> QED
  BY <1>1, <1>2, <1>3, TypeCorrect, SoundInit, PTL DEF Spec, ImplementsTable, Table!Spec

-----------------------------------------------------------------------------
(* Every place that changes a vehicle, a route or the map takes the        *)
(* windows with it.                                                        *)
LEMMA CurrentEvent ==
  ASSUME TypeOK, WindowsAreCurrent, EventStep
  PROVE  WindowsAreCurrent'
<1>1. UNCHANGED current
  BY DEF EventStep, DisableVehicle, DegradeVehicle, SetRegionClosed, SetLinkBlocked, Event
<1>2. ASSUME NEW a \in Agents, DisableVehicle(a)
      PROVE  WindowsAreCurrent'
  <2>1. committed' = {w \in committed : w.agent # a}
    BY <1>2, Releases DEF DisableVehicle
  <2>2. \A w \in committed : w.agent \in Agents
    BY DEF TypeOK, Table!TypeOK, Table!Reservation
  <2>3. \A b \in Agents \ {a} : active'[b] = active[b]
    BY <1>2 DEF TypeOK, DisableVehicle
  <2> QED
    BY <1>1, <1>2, <2>1, <2>2, <2>3 DEF WindowsAreCurrent, DisableVehicle
<1>3. ASSUME NEW a \in Agents, DegradeVehicle(a)
      PROVE  WindowsAreCurrent'
  BY <1>1, <1>3, Releases DEF WindowsAreCurrent, DegradeVehicle
<1>4. CASE SetRegionClosed
  BY <1>1, <1>4, Releases DEF WindowsAreCurrent, SetRegionClosed
<1>5. CASE SetLinkBlocked
  BY <1>1, <1>5 DEF WindowsAreCurrent, SetLinkBlocked, table
<1> QED
  BY <1>2, <1>3, <1>4, <1>5 DEF EventStep

LEMMA CurrentSimulator ==
  ASSUME TypeOK, Sound, WindowsAreCurrent, SimulatorStep
  PROVE  WindowsAreCurrent'
<1>1. CASE Canonicalize \/ EndRoutes \/ EndRequests \/ Advance
  BY <1>1 DEF WindowsAreCurrent, Canonicalize, EndRoutes, EndRequests, Advance, table, world
<1>2. CASE EndEvents
  BY <1>2, Releases DEF WindowsAreCurrent, EndEvents, world
<1>3. ASSUME NEW a \in Agents, ChangeRoute(a)
      PROVE  WindowsAreCurrent'
  <2>1. \A w \in committed : w.agent \in Agents
    BY DEF TypeOK, Table!TypeOK, Table!Reservation
  <2>2. \A b \in Agents \ {a} : current'[b] = current[b]
    BY <1>3 DEF TypeOK, ChangeRoute
  <2>3. UNCHANGED <<active, map>>
    BY <1>3 DEF ChangeRoute, world
  <2>4. CASE routeVersion[a] = current[a]
    <3>1. UNCHANGED <<committed, current>>
      BY <1>3, <2>4 DEF ChangeRoute, TypeOK, table
    <3> QED
      BY <2>3, <3>1 DEF WindowsAreCurrent
  <2>5. CASE routeVersion[a] # current[a]
    <3>1. committed' = {w \in committed : ~(w.agent = a /\ w.route = current[a])}
      BY <1>3, <2>5, Releases DEF ChangeRoute
    <3>2. \A w \in committed' : w \in committed /\ w.agent \in Agents \ {a}
      BY <2>1, <3>1 DEF WindowsAreCurrent
    <3> QED
      BY <2>2, <2>3, <3>2 DEF WindowsAreCurrent
  <2> QED
    BY <2>4, <2>5
<1>4. ASSUME NEW a \in Agents, Request(a)
      PROVE  WindowsAreCurrent'
  <2>1. UNCHANGED <<active, map, current>>
    BY <1>4 DEF Request, world
  <2>2. CASE UNCHANGED <<committed, newest>>
    BY <2>1, <2>2 DEF WindowsAreCurrent
  <2>3. ASSUME NEW p \in proposals[a], Admissible(a, p),
               committed' \subseteq committed \cup {p}
        PROVE  WindowsAreCurrent'
    BY <2>1, <2>3 DEF WindowsAreCurrent, Admissible, Sound
  <2> QED
    BY <1>4, <2>2, <2>3, RequestStep
<1>5. ASSUME NEW a \in Agents, Move(a)
      PROVE  WindowsAreCurrent'
  BY <1>5 DEF WindowsAreCurrent, Move, table
<1> QED
  BY <1>1, <1>2, <1>3, <1>4, <1>5 DEF SimulatorStep

LEMMA CurrentStep ==
  ASSUME TypeOK, Sound, WindowsAreCurrent, [Next]_vars
  PROVE  WindowsAreCurrent'
<1>1. ASSUME NEW a \in Agents, AgentStep(a)
      PROVE  WindowsAreCurrent'
  BY <1>1, ActStep DEF WindowsAreCurrent
<1>2. CASE UNCHANGED vars
  BY <1>2 DEF WindowsAreCurrent, vars, table, world
<1> QED
  BY <1>1, <1>2, CurrentEvent, CurrentSimulator DEF Next

(* No window outlives the vehicle, the route or the map it was asked for:  *)
(* release_agent, release_route and release_map leave nothing stale.       *)
THEOREM WindowsStayCurrent == Spec => []WindowsAreCurrent
<1>1. Init => WindowsAreCurrent
  BY DEF Init, WindowsAreCurrent
<1>2. TypeOK /\ Sound /\ WindowsAreCurrent /\ [Next]_vars => WindowsAreCurrent' /\ Sound'
  BY CurrentStep, SoundStep
<1> QED
  BY <1>1, <1>2, TypeCorrect, SoundInit, PTL DEF Spec

-----------------------------------------------------------------------------
(* The simulator asks for a grant of the first chokepoint a segment        *)
(* contends for and for no other.  Where no segment meets two, that is     *)
(* enough; the run chokepoint_twins shows a world where it is not.         *)
Separate == \A p, q \in Points : \A c, d \in Crossed[<<p, q>>] : c = d

StartsApart ==
  \A a, b \in Agents :
    Crossed[<<Start[a], Start[a]>>] \cap Crossed[<<Start[b], Start[b]>>] # {} => a = b

LEMMA ContestsAll ==
  ASSUME Separate, NEW p \in Points, NEW q \in Points, NEW c \in Crossed[<<p, q>>]
  PROVE  c \in Contested(p, q)
<1>1. c \in Nat /\ \A d \in Crossed[<<p, q>>] : d = c
  BY WorldAssumption DEF Separate
<1> QED
  BY <1>1 DEF Contested

LEMMA StandsStill ==
  ASSUME TypeOK, [Next]_vars, ~\E a \in Agents : Move(a)
  PROVE  pos' = pos /\ \A a \in Agents : active'[a] => active[a]
<1>1. ASSUME NEW a \in Agents, AgentStep(a)
      PROVE  pos' = pos /\ active' = active
  BY <1>1, ActStep
<1>2. CASE EventStep
  BY <1>2 DEF TypeOK, EventStep, DisableVehicle, DegradeVehicle, SetRegionClosed,
              SetLinkBlocked, Event
<1>3. CASE SimulatorStep
  BY <1>3 DEF SimulatorStep, Canonicalize, EndEvents, EndRoutes, EndRequests, Advance,
              ChangeRoute, Request, world
<1>4. CASE UNCHANGED vars
  BY <1>4 DEF vars, world
<1> QED
  BY <1>1, <1>2, <1>3, <1>4 DEF Next

LEMMA MoveStep ==
  ASSUME TypeOK, NEW a \in Agents, Move(a)
  PROVE  /\ UNCHANGED <<active, committed, tick>>
         /\ \A b \in Agents \ {a} : pos'[b] = pos[b]
         /\ pos'[a] = pos[a] \/ (MayMove(a) /\ pos'[a] = move[a])
BY DEF TypeOK, Move, table

(* A vehicle that was outside and is inside moved, along a segment that    *)
(* meets the chokepoint.                                                   *)
LEMMA MoveInto ==
  ASSUME Separate, TypeOK, NEW a \in Agents, NEW c \in Chokepoints,
         MayMove(a), c \in Crossed[<<move[a], move[a]>>]
  PROVE  HasReservation(a, c) /\ ~Occupied(c, a)
<1>1. pos[a] \in Points /\ move[a] \in Points
  BY DEF TypeOK
<1>2. c \in Crossed[<<pos[a], move[a]>>]
  BY <1>1, WorldAssumption
<1>3. c \in Contested(pos[a], move[a])
  BY <1>1, <1>2, ContestsAll
<1> QED
  BY <1>3 DEF MayMove

(* Where chokepoints are apart, no vehicle enters one outside its own      *)
(* window: the check in the motion loop is enough.                         *)
THEOREM EntriesGranted ==
  ASSUME Separate
  PROVE  Spec => EntersUnderGrant
<1> DEFINE Granted ==
      \A a \in Agents : \A c \in Chokepoints :
        ~Inside(a, c) /\ Inside(a, c)' => \E w \in Own(a, c) : Covers(w, tick)
<1>1. TypeOK /\ [Next]_vars => [Granted]_vars
  <2> SUFFICES ASSUME TypeOK, [Next]_vars, NEW a \in Agents, NEW c \in Chokepoints,
                      ~Inside(a, c), Inside(a, c)'
               PROVE  \E w \in Own(a, c) : Covers(w, tick)
    OBVIOUS
  <2>1. PICK b \in Agents : Move(b)
    BY StandsStill DEF Inside
  <2>2. a = b
    BY <2>1, MoveStep DEF Inside
  <2>3. MayMove(a) /\ pos'[a] = move[a]
    BY <2>1, <2>2, MoveStep DEF Inside
  <2>4. HasReservation(a, c)
    BY <2>3, MoveInto DEF Inside
  <2> QED
    BY <2>4 DEF HasReservation, Valid
<1> QED
  BY <1>1, TypeCorrect, PTL DEF Spec, EntersUnderGrant

(* Where chokepoints are apart and no two vehicles start in one, no two    *)
(* that work are ever in one: occupied() guards every entry, whatever      *)
(* became of the windows meanwhile.                                        *)
THEOREM NeverTwoInside ==
  ASSUME Separate, StartsApart
  PROVE  Spec => []Exclusive
<1>1. Init => Exclusive
  <2> SUFFICES ASSUME Init, NEW c \in Chokepoints, NEW a \in Agents, NEW b \in Agents,
                      Inside(a, c), Inside(b, c)
               PROVE  a = b
    BY DEF Exclusive
  <2>1. c \in Crossed[<<Start[a], Start[a]>>] \cap Crossed[<<Start[b], Start[b]>>]
    BY DEF Init, Inside
  <2> QED
    BY <2>1 DEF StartsApart
<1>2. TypeOK /\ Exclusive /\ [Next]_vars => Exclusive'
  <2> SUFFICES ASSUME TypeOK, Exclusive, [Next]_vars, NEW c \in Chokepoints,
                      NEW a \in Agents, NEW b \in Agents,
                      active'[a], active'[b], Inside(a, c)', Inside(b, c)'
               PROVE  a = b
    BY DEF Exclusive
  <2>1. CASE ~\E d \in Agents : Move(d)
    BY <2>1, StandsStill DEF Exclusive, Inside
  <2>2. ASSUME NEW x \in Agents, NEW y \in Agents, x # y, Move(x), Inside(x, c)', Inside(y, c)',
               active'[x], active'[y]
        PROVE  FALSE
    <3>1. Inside(y, c) /\ active[x] /\ active[y]
      BY <2>2, MoveStep DEF Inside
    <3>2. ~Inside(x, c)
      BY <2>2, <3>1 DEF Exclusive
    <3>3. MayMove(x) /\ pos'[x] = move[x]
      BY <2>2, <3>2, MoveStep DEF Inside
    <3>4. ~Occupied(c, x)
      BY <2>2, <3>3, MoveInto DEF Inside
    <3>5. c \in Contested(pos[y], pos[y])
      BY <3>1, ContestsAll DEF Inside, TypeOK
    <3> QED
      BY <2>2, <3>1, <3>4, <3>5 DEF Occupied
  <2>3. CASE \E d \in Agents : Move(d)
    <3>1. PICK d \in Agents : Move(d)
      BY <2>3
    <3>2. CASE d = a \/ d = b
      BY <2>2, <3>1, <3>2
    <3>3. CASE d # a /\ d # b
      BY <3>1, <3>3, MoveStep DEF Exclusive, Inside
    <3> QED
      BY <3>2, <3>3
  <2> QED
    BY <2>1, <2>3
<1> QED
  BY <1>1, <1>2, TypeCorrect, PTL DEF Spec

-----------------------------------------------------------------------------
(* By the time the proposals are looked at the simulator knows the route   *)
(* every vehicle follows.                                                  *)
RoutesKnown ==
  /\ phase \in {"requests", "motion"} => \A a \in Agents : current[a] = routeVersion[a]
  /\ phase = "routes" => \A a \in Agents \ todo : current[a] = routeVersion[a]

LEMMA RoutesKnownStep ==
  ASSUME TypeOK, RoutesKnown, [Next]_vars
  PROVE  RoutesKnown'
<1>1. ASSUME NEW a \in Agents, AgentStep(a)
      PROVE  RoutesKnown'
  BY <1>1, ActStep DEF RoutesKnown
<1>2. CASE EventStep
  BY <1>2 DEF RoutesKnown, EventStep, DisableVehicle, DegradeVehicle, SetRegionClosed,
              SetLinkBlocked, Event
<1>3. CASE UNCHANGED vars
  BY <1>3 DEF RoutesKnown, vars, agents
<1>4. CASE Canonicalize \/ EndEvents \/ EndRoutes \/ EndRequests \/ Advance
  BY <1>4 DEF RoutesKnown, Canonicalize, EndEvents, EndRoutes, EndRequests, Advance, agents
<1>5. ASSUME NEW a \in Agents, ChangeRoute(a)
      PROVE  RoutesKnown'
  BY <1>5 DEF RoutesKnown, ChangeRoute, Visit, TypeOK, agents
<1>6. ASSUME NEW a \in Agents, Request(a) \/ Move(a)
      PROVE  RoutesKnown'
  BY <1>6 DEF RoutesKnown, Request, Move, agents
<1> QED
  BY <1>1, <1>2, <1>3, <1>4, <1>5, <1>6 DEF Next, SimulatorStep

(* The agent's side of GrantHonoured: what it had read when it set out is  *)
(* still in the table.                                                     *)
Granted(a) ==
  active[a] /\ move[a] # pos[a] =>
    \A c \in Contested(pos[a], move[a]) :
      \E w \in Valid(a, c, routeVersion[a]) : Covers(w, tick)

GrantsKept == \A a \in Agents \ shaken : Granted(a)

LEMMA GrantedFrame ==
  ASSUME NEW a \in Agents, Granted(a),
         move'[a] = move[a], pos'[a] = pos[a], active'[a] => active[a],
         routeVersion'[a] = routeVersion[a], UNCHANGED <<tick, map>>,
         \A w \in committed : w.agent = a /\ w.route = routeVersion[a] /\ Covers(w, tick)
                                => w \in committed'
  PROVE  Granted(a)'
<1> SUFFICES ASSUME active'[a], move'[a] # pos'[a], NEW c \in Contested(pos'[a], move'[a])
             PROVE  \E w \in Valid(a, c, routeVersion[a])' : Covers(w, tick)
  BY DEF Granted, Covers
<1>1. PICK w \in Valid(a, c, routeVersion[a]) : Covers(w, tick)
  BY DEF Granted, Contested
<1>2. w \in committed'
  BY <1>1 DEF Valid, Own
<1> QED
  BY <1>1, <1>2 DEF Valid, Own

LEMMA GrantsKeptEvent ==
  ASSUME TypeOK, GrantsKept, EventStep
  PROVE  GrantsKept'
<1>1. UNCHANGED <<tick, pos, move, routeVersion>>
  BY DEF EventStep, DisableVehicle, DegradeVehicle, SetRegionClosed, SetLinkBlocked, Event,
         actions
<1>2. ASSUME NEW a \in Agents, DisableVehicle(a)
      PROVE  GrantsKept'
  <2> SUFFICES ASSUME NEW b \in Agents \ shaken'
               PROVE  Granted(b)'
    BY DEF GrantsKept
  <2>1. b # a /\ b \notin shaken /\ map' = map /\ active'[b] = active[b]
    BY <1>2 DEF DisableVehicle, TypeOK
  <2>2. \A w \in committed : w.agent = b => w \in committed'
    BY <1>2, <2>1, Releases DEF DisableVehicle
  <2> QED
    BY <1>1, <2>1, <2>2, GrantedFrame DEF GrantsKept
<1>3. ASSUME NEW a \in Agents, DegradeVehicle(a)
      PROVE  GrantsKept'
  <2> SUFFICES ASSUME NEW b \in Agents \ shaken'
               PROVE  Granted(b)'
    BY DEF GrantsKept
  <2>1. b # a /\ b \notin shaken /\ map' = map /\ active' = active
    BY <1>3 DEF DegradeVehicle
  <2>2. \A w \in committed : w.agent = b => w \in committed'
    BY <1>3, <2>1, Releases DEF DegradeVehicle
  <2> QED
    BY <1>1, <2>1, <2>2, GrantedFrame DEF GrantsKept
<1>4. CASE SetRegionClosed
  BY <1>4 DEF SetRegionClosed, GrantsKept
<1>5. CASE SetLinkBlocked
  <2>1. UNCHANGED <<committed, map, active, shaken>>
    BY <1>5 DEF SetLinkBlocked, table
  <2> QED
    BY <1>1, <2>1, GrantedFrame DEF GrantsKept
<1> QED
  BY <1>2, <1>3, <1>4, <1>5 DEF EventStep

LEMMA GrantsKeptSimulator ==
  ASSUME TypeOK, Sound, GrantsKept, SimulatorStep
  PROVE  GrantsKept'
<1>1. CASE Canonicalize \/ EndRoutes \/ EndRequests
  <2>1. UNCHANGED <<tick, pos, move, routeVersion, committed, map, active, shaken>>
    BY <1>1 DEF Canonicalize, EndRoutes, EndRequests, table, world, agents, actions
  <2> QED
    BY <2>1, GrantedFrame DEF GrantsKept
<1>2. CASE EndEvents
  <2>1. UNCHANGED <<tick, pos, move, routeVersion, map, active, shaken>>
    BY <1>2 DEF EndEvents, world, agents, actions
  <2>2. \A w \in committed : Covers(w, tick) => w \in committed'
    <3>1. committed' = {w \in committed : ~(w.end < tick)}
      BY <1>2, Releases DEF EndEvents
    <3>2. \A w \in committed : w.end \in Int
      BY DEF TypeOK, Table!TypeOK, Table!Reservation
    <3>3. tick \in Int
      BY DEF TypeOK, Table!TypeOK
    <3> QED
      BY <3>1, <3>2, <3>3 DEF Covers
  <2> QED
    BY <2>1, <2>2, GrantedFrame DEF GrantsKept
<1>3. CASE Advance
  <2>1. move' = pos'
    BY <1>3 DEF Advance, world
  <2> QED
    BY <2>1 DEF GrantsKept, Granted
<1>4. ASSUME NEW a \in Agents, ChangeRoute(a)
      PROVE  GrantsKept'
  <2> SUFFICES ASSUME NEW b \in Agents \ shaken
               PROVE  Granted(b)'
    BY <1>4 DEF GrantsKept, ChangeRoute
  <2>1. UNCHANGED <<tick, pos, move, routeVersion, map, active>>
    BY <1>4 DEF ChangeRoute, world, agents, actions
  <2>2. \A w \in committed : w.agent = b /\ w.route = routeVersion[b] => w \in committed'
    BY <1>4, Releases DEF ChangeRoute, table
  <2> QED
    BY <2>1, <2>2, GrantedFrame DEF GrantsKept
<1>5. ASSUME NEW a \in Agents, Request(a)
      PROVE  GrantsKept'
  <2>1. UNCHANGED <<tick, pos, move, routeVersion, map, active, shaken>>
    BY <1>5 DEF Request, world, agents, actions
  <2>2. \A w \in committed : Covers(w, tick) => w \in committed'
    <3>1. CASE committed \subseteq committed'
      BY <3>1
    <3>2. ASSUME NEW p \in proposals[a], Table!Wins(p),
                 committed' = (committed \ Table!Conflicts(p)) \cup {p},
                 NEW w \in committed, Covers(w, tick)
          PROVE  w \in committed'
      <4>1. tick \in Int /\ p.start \in Int /\ w.start \in Int
        BY DEF TypeOK, Table!TypeOK, Table!Reservation
      <4>2. w.start < p.start
        BY <3>2, <4>1 DEF Covers, Sound
      <4>3. ~Table!HigherPriority(p, w)
        BY <4>1, <4>2 DEF Table!HigherPriority
      <4> QED
        BY <3>2, <4>3 DEF Table!Wins
    <3> QED
      BY <1>5, <3>1, <3>2, RequestStep
  <2> QED
    BY <2>1, <2>2, GrantedFrame DEF GrantsKept
<1>6. ASSUME NEW a \in Agents, Move(a)
      PROVE  GrantsKept'
  <2> SUFFICES ASSUME NEW b \in Agents \ shaken
               PROVE  Granted(b)'
    BY <1>6 DEF GrantsKept, Move
  <2>1. UNCHANGED <<tick, move, routeVersion, map, active, committed>>
    BY <1>6 DEF Move, agents, actions, table
  <2>2. CASE pos'[b] = pos[b]
    BY <2>1, <2>2, GrantedFrame DEF GrantsKept
  <2>3. CASE pos'[b] # pos[b]
    BY <1>6, <2>1, <2>3, MoveStep DEF Granted
  <2> QED
    BY <2>2, <2>3
<1> QED
  BY <1>1, <1>2, <1>3, <1>4, <1>5, <1>6 DEF SimulatorStep

LEMMA GrantsKeptStep ==
  ASSUME TypeOK, Sound, GrantsKept, [Next]_vars
  PROVE  GrantsKept'
<1>1. ASSUME NEW a \in Agents, AgentStep(a)
      PROVE  GrantsKept'
  <2> SUFFICES ASSUME NEW b \in Agents \ shaken
               PROVE  Granted(b)'
    BY <1>1, ActStep DEF GrantsKept
  <2>1. UNCHANGED <<tick, pos, map, active, committed>>
    BY <1>1, ActStep
  <2>2. CASE b # a
    BY <1>1, <2>1, <2>2, ActStep, GrantedFrame DEF GrantsKept
  <2>3. CASE b = a /\ Goes(a)
    BY <2>1, <2>3 DEF Goes, MayGo, Granted, Valid, Own, Covers, Contested
  <2>4. CASE b = a /\ move'[a] = pos[a]
    BY <2>1, <2>4 DEF Granted
  <2> QED
    BY <1>1, <2>2, <2>3, <2>4, ActStep DEF Stays, Asks
<1>2. CASE UNCHANGED vars
  BY <1>2, GrantedFrame DEF GrantsKept, vars, table, world, agents, actions
<1> QED
  BY <1>1, <1>2, GrantsKeptEvent, GrantsKeptSimulator DEF Next

(* Between the observation an agent sets out on and the tick's motion, no  *)
(* proposal of another agent, no expiry and no other vehicle's new route   *)
(* takes the window it relies on: only an event of that very tick can.     *)
THEOREM GrantsHonoured == Spec => []GrantHonoured
<1>1. Init => GrantsKept /\ RoutesKnown
  BY DEF Init, GrantsKept, Granted, RoutesKnown
<1>2. /\ TypeOK /\ Sound /\ GrantsKept /\ [Next]_vars => GrantsKept' /\ Sound'
      /\ TypeOK /\ RoutesKnown /\ [Next]_vars => RoutesKnown'
  BY GrantsKeptStep, SoundStep, RoutesKnownStep
<1>3. TypeOK /\ GrantsKept /\ RoutesKnown => GrantHonoured
  BY DEF TypeOK, GrantsKept, Granted, RoutesKnown, GrantHonoured, HasReservation
<1> QED
  BY <1>1, <1>2, <1>3, TypeCorrect, SoundInit, PTL DEF Spec

-----------------------------------------------------------------------------
(* Whoever asks holds no window ahead that it could still use.             *)
AsksAfresh ==
  \A a \in Agents :
    phase \in {"agents", "events", "routes"} \/ (phase = "requests" /\ a \in todo) =>
      \A p \in proposals[a] : \A w \in Own(a, p.resource) :
        tick <= w.end => w.route # routeVersion[a] \/ w.map # p.map

LEMMA AskingHoldsNone ==
  ASSUME TypeOK, NEW a \in Agents, NEW p, Asks(a, p), AgentStep(a),
         NEW w \in Own(a, p.resource), tick <= w.end
  PROVE  w.route # routeVersion'[a] \/ w.map # p.map
<1> SUFFICES ASSUME w.route = routeVersion'[a], w.map = map
             PROVE  FALSE
  BY DEF Asks
<1>1. /\ p.resource \in Contested(pos[a], Head(route'[a]))
      /\ \A c \in Contested(pos[a], Head(route'[a])) : c = p.resource
  <2>1. pos[a] \in Points /\ Head(route'[a]) \in Points
    <3>1. route'[a] \in Seq(Points) /\ route'[a] # <<>>
      BY TypeAgent DEF TypeOK, Asks
    <3> QED
      BY <3>1 DEF TypeOK
  <2>2. Crossed[<<pos[a], Head(route'[a])>>] \subseteq Nat
    BY <2>1, WorldAssumption
  <2> QED
    BY <2>2 DEF Asks, Contested
<1>2. w \in Valid(a, p.resource, routeVersion'[a])
  BY DEF Valid
<1>3. ~(tick < w.start) /\ ~Covers(w, tick)
  BY <1>1, <1>2 DEF Asks, MayGo, MayAsk
<1>4. tick \in Int /\ w.start \in Int
  BY DEF TypeOK, Table!TypeOK, Table!Reservation, Own
<1> QED
  BY <1>3, <1>4 DEF Covers

LEMMA AsksAfreshStep ==
  ASSUME TypeOK, Sound, AsksAfresh, [Next]_vars
  PROVE  AsksAfresh'
<1>1. ASSUME NEW a \in Agents, AgentStep(a)
      PROVE  AsksAfresh'
  <2> SUFFICES ASSUME NEW b \in Agents, NEW p \in proposals'[b],
                      NEW w \in Own(b, p.resource), tick <= w.end
               PROVE  w.route # routeVersion'[b] \/ w.map # p.map
    BY <1>1, ActStep DEF AsksAfresh, Own
  <2>1. CASE b # a
    BY <1>1, <2>1, ActStep DEF AsksAfresh
  <2>2. CASE b = a
    BY <1>1, <2>2, ActStep, AskingHoldsNone DEF Stays, Goes, Asks
  <2> QED
    BY <2>1, <2>2
<1>2. CASE EventStep
  <2>1. UNCHANGED <<tick, phase, todo, proposals, routeVersion>>
    BY <1>2 DEF EventStep, DisableVehicle, DegradeVehicle, SetRegionClosed, SetLinkBlocked,
                Event, actions
  <2> QED
    BY <1>2, <2>1, EventReleases DEF AsksAfresh, Own
<1>3. CASE UNCHANGED vars
  BY <1>3 DEF AsksAfresh, Own, vars, table, agents, actions
<1>4. CASE Canonicalize \/ EndRoutes \/ EndRequests
  BY <1>4 DEF AsksAfresh, Own, Canonicalize, EndRoutes, EndRequests, table, agents, actions
<1>5. CASE EndEvents
  BY <1>5, Releases DEF AsksAfresh, Own, EndEvents, agents, actions
<1>6. CASE Advance
  BY <1>6 DEF AsksAfresh, Advance
<1>7. ASSUME NEW a \in Agents, ChangeRoute(a)
      PROVE  AsksAfresh'
  <2>1. committed' \subseteq committed
    BY <1>7, Releases DEF ChangeRoute, table
  <2> QED
    BY <1>7, <2>1 DEF AsksAfresh, Own, ChangeRoute, agents, actions
<1>8. ASSUME NEW a \in Agents, Request(a)
      PROVE  AsksAfresh'
  <2>1. UNCHANGED <<tick, phase, proposals, routeVersion>> /\ phase = "requests" /\ todo' = todo \ {a}
    BY <1>8 DEF Request, Visit, agents, actions
  <2>2. \A w \in committed' : w \in committed \/ w.agent = a
    BY <1>8, RequestStep DEF Sound
  <2> QED
    BY <2>1, <2>2 DEF AsksAfresh, Own
<1>9. ASSUME NEW a \in Agents, Move(a)
      PROVE  AsksAfresh'
  BY <1>9 DEF AsksAfresh, Move
<1> QED
  BY <1>1, <1>2, <1>3, <1>4, <1>5, <1>6, <1>7, <1>8, <1>9 DEF Next, SimulatorStep

LEMMA OneWindowStep ==
  ASSUME TypeOK, Sound, WindowsAreCurrent, RoutesKnown, AsksAfresh, OneWindow, [Next]_vars
  PROVE  OneWindow'
<1>1. CASE committed' \subseteq committed /\ tick' = tick
  BY <1>1 DEF OneWindow
<1>2. CASE Advance
  <2>1. tick \in Int /\ \A w \in committed : w.end \in Int
    BY DEF TypeOK, Table!TypeOK, Table!Reservation
  <2>2. committed' = committed /\ tick' = tick + 1
    BY <1>2 DEF Advance, table
  <2>3. \A w \in committed : tick' <= w.end => tick <= w.end
    BY <2>1, <2>2
  <2> QED
    BY <2>2, <2>3 DEF OneWindow
<1>3. ASSUME NEW a \in Agents, Request(a)
      PROVE  OneWindow'
  <2>1. tick' = tick /\ phase = "requests" /\ a \in todo
    BY <1>3 DEF Request, Turn
  <2>2. ASSUME NEW p \in proposals[a], Admissible(a, p), committed' \subseteq committed \cup {p}
        PROVE  OneWindow'
    <3>1. p.agent = a
      BY DEF Sound
    <3>2. \A w \in Own(a, p.resource) : ~(tick <= w.end)
      BY <2>1, <2>2 DEF AsksAfresh, WindowsAreCurrent, RoutesKnown, Admissible, Own
    <3> QED
      BY <2>1, <2>2, <3>1, <3>2 DEF OneWindow, Own
  <2> QED
    BY <1>1, <1>3, <2>1, <2>2, RequestStep
<1>4. ASSUME NEW a \in Agents, AgentStep(a) \/ ChangeRoute(a) \/ Move(a)
      PROVE  committed' \subseteq committed /\ tick' = tick
  BY <1>4, ActStep, Releases DEF ChangeRoute, Move, table
<1>5. EventStep => committed' \subseteq committed /\ tick' = tick
  BY EventReleases DEF EventStep, DisableVehicle, DegradeVehicle, SetRegionClosed,
                       SetLinkBlocked, Event
<1>6. Canonicalize \/ EndEvents \/ EndRoutes \/ EndRequests \/ UNCHANGED vars =>
        committed' \subseteq committed /\ tick' = tick
  BY Releases DEF Canonicalize, EndEvents, EndRoutes, EndRequests, vars, table
<1> QED
  BY <1>1, <1>2, <1>3, <1>4, <1>5, <1>6 DEF Next, SimulatorStep

(* However proposals are delayed, refused, repeated or overtaken by a new  *)
(* route, an agent never holds two windows ahead on one chokepoint.        *)
THEOREM OneWindowEach == Spec => []OneWindow
<1>1. Init => OneWindow /\ AsksAfresh /\ RoutesKnown
  BY DEF Init, OneWindow, AsksAfresh, RoutesKnown
<1>2. /\ TypeOK /\ Sound /\ AsksAfresh /\ [Next]_vars => AsksAfresh' /\ Sound'
      /\ TypeOK /\ RoutesKnown /\ [Next]_vars => RoutesKnown'
  BY AsksAfreshStep, SoundStep, RoutesKnownStep
<1>3. TypeOK /\ Sound /\ WindowsAreCurrent /\ RoutesKnown /\ AsksAfresh /\ OneWindow /\ [Next]_vars
        => OneWindow'
  BY OneWindowStep
<1> QED
  BY <1>1, <1>2, <1>3, TypeCorrect, WindowsStayCurrent, SoundInit, PTL DEF Spec

(* Every window is of now, and an agent has one on each chokepoint.        *)
THEOREM WindowsStaySound == Spec => []WindowsSound
<1>1. WindowsAreCurrent /\ OneWindow => WindowsSound
  BY DEF WindowsSound
<1> QED
  BY <1>1, WindowsStayCurrent, OneWindowEach, PTL

-----------------------------------------------------------------------------
(* No leg of the way from where the vehicle is meets a closed region.      *)
Open(a, way) ==
  \A i \in 1..Len(way) : Crossed[<<From(a, way, i), way[i]>>] \cap closed = {}

(* An agent that knows the map follows an open route, and moves along it.  *)
OnOpenRoute ==
  \A a \in Agents :
    /\ routed[a] => routeVersion[a] # 0
    /\ routed[a] /\ a \notin changed => Open(a, route[a])
    /\ move[a] # pos[a] => routed[a] /\ route[a] # <<>> /\ move[a] = Head(route[a])

LEMMA AheadOpen ==
  ASSUME NEW a, NEW way \in Seq(Points), Open(a, way)
  PROVE  Open(a, Ahead(a, way))
<1>1. CASE Ahead(a, way) = way
  BY <1>1
<1>2. CASE way # <<>> /\ Head(way) = pos[a] /\ Ahead(a, way) = Tail(way)
  <2> SUFFICES ASSUME NEW i \in 1..Len(Tail(way))
               PROVE  Crossed[<<From(a, Tail(way), i), Tail(way)[i]>>] \cap closed = {}
    BY <1>2 DEF Open
  <2>1. i + 1 \in 1..Len(way) /\ i + 1 # 1 /\ i + 1 - 1 = i
    BY <1>2
  <2>2. Tail(way)[i] = way[i + 1]
    BY <1>2, <2>1
  <2>3. From(a, Tail(way), i) = way[i]
    <3>1. CASE i = 1
      BY <1>2, <3>1 DEF From
    <3>2. CASE i # 1
      <4>1. i - 1 \in 1..Len(Tail(way)) /\ i - 1 + 1 = i
        BY <3>2
      <4> QED
        BY <1>2, <3>2, <4>1 DEF From
    <3> QED
      BY <3>1, <3>2
  <2>4. From(a, way, i + 1) = way[i]
    BY <2>1 DEF From
  <2> QED
    BY <2>1, <2>2, <2>3, <2>4 DEF Open
<1> QED
  BY <1>1, <1>2 DEF Ahead

LEMMA AgentStaysOpen ==
  ASSUME TypeOK, OnOpenRoute, NEW a \in Agents, AgentStep(a)
  PROVE  /\ routed'[a] => routeVersion'[a] # 0 /\ Open(a, route'[a])
         /\ move'[a] # pos[a] => routed'[a] /\ route'[a] # <<>> /\ move'[a] = Head(route'[a])
<1>1. move'[a] # pos[a] => routed'[a] /\ route'[a] # <<>> /\ move'[a] = Head(route'[a])
  BY ActStep DEF Stays, Goes, Asks
<1>2. CASE ClearRoute(a)
  BY <1>1, <1>2 DEF ClearRoute, TypeOK
<1>3. CASE Pause(a)
  BY <1>1, <1>3 DEF Pause, Stale, OnOpenRoute
<1>4. CASE Resume(a)
  <2>1. route[a] \in Seq(Points) /\ Ahead(a, route[a]) \in Seq(Points)
    BY AheadType DEF TypeOK
  <2>2. Open(a, Ahead(a, route[a]))
    BY <1>4, <2>1, AheadOpen DEF Resume, Stale, OnOpenRoute
  <2>3. route'[a] = Ahead(a, route[a])
    BY <1>4, <2>1, FollowStep DEF Resume
  <2>4. routeVersion'[a] # 0
    BY <1>4 DEF Resume, OnOpenRoute
  <2> QED
    BY <1>1, <2>2, <2>3, <2>4
<1>5. ASSUME NEW g \in Points, NEW clear \in BOOLEAN, SetRoute(a, g, clear)
      PROVE  routeVersion'[a] # 0 /\ Open(a, route'[a])
  <2>1. PICK way \in OpenWays(a, g) :
          Follow(a, Ahead(a, way), routeVersion'[a], IF clear THEN 0 ELSE Outstanding(a),
                 IF g = goal[a] THEN 0 ELSE 1)
    BY <1>5 DEF SetRoute
  <2>2. way \in Seq(Points) /\ Ahead(a, way) \in Seq(Points)
    BY AheadType, WorldAssumption DEF OpenWays, TypeOK
  <2>3. Open(a, Ahead(a, way))
    BY <2>2, AheadOpen DEF OpenWays, Open
  <2>4. route'[a] = Ahead(a, way)
    BY <1>5, <2>1, <2>2, FollowStep DEF SetRoute, TypeOK
  <2>5. routeVersion'[a] # 0
    <3>1. routeVersion[a] \in Nat
      BY BoundsAssumption DEF TypeOK
    <3>2. routeVersion'[a] = routeVersion[a] + 2 \/ routeVersion'[a] = routeVersion[a] + 1
      BY <1>5 DEF SetRoute, TypeOK
    <3> QED
      BY <3>1, <3>2
  <2> QED
    BY <2>3, <2>4, <2>5
<1> QED
  BY <1>1, <1>2, <1>3, <1>4, <1>5, WorldAssumption DEF AgentStep, TypeOK

LEMMA MoveStaysOpen ==
  ASSUME TypeOK, OnOpenRoute, NEW a \in Agents, Move(a)
  PROVE  OnOpenRoute'
<1> SUFFICES ASSUME NEW b \in Agents
             PROVE  /\ routed[b] => routeVersion[b] # 0
                    /\ routed[b] /\ b \notin changed => Open(b, route[b])'
                    /\ move[b] # pos'[b] =>
                          routed[b] /\ route[b] # <<>> /\ move[b] = Head(route[b])
  BY DEF Move, agents, actions, OnOpenRoute
<1>1. closed' = closed /\ route' = route
  BY DEF Move, agents
<1>2. CASE pos'[b] = pos[b]
  BY <1>1, <1>2 DEF OnOpenRoute, Open, From
<1>3. CASE pos'[b] # pos[b]
  <2>1. b = a /\ pos'[b] = move[b] /\ move[b] # pos[b]
    BY <1>3, MoveStep
  <2>2. ASSUME Open(b, route[b]) PROVE Open(b, route[b])'
    <3> SUFFICES ASSUME NEW i \in 1..Len(route[b])
                 PROVE  Crossed[<<From(b, route[b], i)', route[b][i]>>] \cap closed = {}
      BY <1>1 DEF Open
    <3>1. CASE i = 1
      <4>1. route[b] \in Seq(Points) /\ route[b] # <<>> /\ move[b] = route[b][1] /\ pos[b] \in Points
        BY <2>1 DEF OnOpenRoute, TypeOK
      <4>2. Crossed[<<pos[b], route[b][1]>>] \cap closed = {}
        BY <2>2, <3>1 DEF Open, From
      <4>3. From(b, route[b], i)' = route[b][1]
        BY <1>1, <2>1, <3>1, <4>1 DEF From
      <4>4. route[b][1] \in Points
        BY <4>1
      <4> QED
        BY <3>1, <4>1, <4>2, <4>3, <4>4, WorldAssumption
    <3>2. CASE i # 1
      BY <1>1, <2>2, <3>2 DEF Open, From
    <3> QED
      BY <3>1, <3>2
  <2> QED
    BY <2>1, <2>2 DEF OnOpenRoute
<1> QED
  BY <1>2, <1>3

LEMMA OnOpenRouteStep ==
  ASSUME TypeOK, OnOpenRoute, [Next]_vars
  PROVE  OnOpenRoute'
<1>1. ASSUME NEW a \in Agents, AgentStep(a)
      PROVE  OnOpenRoute'
  <2> SUFFICES ASSUME NEW b \in Agents
               PROVE  /\ routed'[b] => routeVersion'[b] # 0
                      /\ routed'[b] /\ b \notin changed' => Open(b, route'[b])
                      /\ move'[b] # pos[b] =>
                            routed'[b] /\ route'[b] # <<>> /\ move'[b] = Head(route'[b])
    BY <1>1, ActStep DEF OnOpenRoute, Open, From
  <2>1. CASE b = a
    BY <1>1, <2>1, AgentStaysOpen
  <2>2. CASE b # a
    BY <1>1, <2>2, ActStep DEF OnOpenRoute
  <2> QED
    BY <2>1, <2>2
<1>2. ASSUME UNCHANGED <<pos, move, routed, route, routeVersion>>,
             changed' = Agents \/ (closed' = closed /\ changed \subseteq changed')
      PROVE  OnOpenRoute'
  BY <1>2 DEF OnOpenRoute, Open, From
<1>3. EventStep => /\ UNCHANGED <<pos, move, routed, route, routeVersion>>
                   /\ changed' = Agents \/ (closed' = closed /\ changed \subseteq changed')
  BY DEF EventStep, DisableVehicle, DegradeVehicle, SetRegionClosed, SetLinkBlocked, Event,
         actions
<1>4. Canonicalize \/ EndEvents \/ EndRoutes \/ EndRequests \/ UNCHANGED vars =>
        UNCHANGED <<pos, move, routed, route, routeVersion, closed, changed>>
  BY DEF Canonicalize, EndEvents, EndRoutes, EndRequests, vars, world, agents, actions
<1>5. ASSUME NEW a \in Agents, ChangeRoute(a) \/ Request(a)
      PROVE  UNCHANGED <<pos, move, routed, route, routeVersion, closed, changed>>
  BY <1>5 DEF ChangeRoute, Request, world, agents, actions
<1>6. CASE Advance
  <2>1. move' = pos /\ UNCHANGED <<pos, routed, route, routeVersion, closed, changed>>
    BY <1>6 DEF Advance, world, agents
  <2> QED
    BY <2>1 DEF OnOpenRoute, Open, From
<1> QED
  BY <1>1, <1>2, <1>3, <1>4, <1>5, <1>6, MoveStaysOpen DEF Next, SimulatorStep

(* A proposal is for the route its agent follows, on the map of now, and   *)
(* for an open chokepoint.                                                 *)
ProposalsFit ==
  phase = "agents" =>
    \A a \in Agents : \A p \in proposals[a] :
      p.route = routeVersion[a] /\ p.route # 0 /\ p.map = map /\ p.resource \notin closed

LEMMA ProposalsFitStep ==
  ASSUME TypeOK, OnOpenRoute, ProposalsFit, [Next]_vars
  PROVE  ProposalsFit'
<1>1. ASSUME NEW a \in Agents, AgentStep(a)
      PROVE  ProposalsFit'
  <2> SUFFICES ASSUME NEW b \in Agents, NEW p \in proposals'[b]
               PROVE  p.route = routeVersion'[b] /\ p.route # 0 /\ p.map = map
                        /\ p.resource \notin closed
    BY <1>1, ActStep DEF ProposalsFit
  <2>1. CASE b # a
    BY <1>1, <2>1, ActStep DEF ProposalsFit
  <2>2. CASE b = a
    <3>1. Asks(a, p)
      BY <1>1, <2>2, ActStep DEF Stays, Goes, Asks
    <3>2. routeVersion'[a] # 0 /\ Open(a, route'[a])
      BY <1>1, <3>1, AgentStaysOpen DEF Asks
    <3>3. route'[a] \in Seq(Points) /\ route'[a] # <<>>
      BY <1>1, <3>1, TypeAgent DEF TypeOK, Asks
    <3>4. Crossed[<<pos[a], Head(route'[a])>>] \cap closed = {}
      <4>1. 1 \in 1..Len(route'[a]) /\ Head(route'[a]) = route'[a][1]
        BY <3>3
      <4> QED
        BY <3>2, <4>1 DEF Open, From
    <3> QED
      BY <2>2, <3>1, <3>2, <3>4 DEF Asks, Contested
  <2> QED
    BY <2>1, <2>2
<1>2. CASE Advance
  BY <1>2 DEF ProposalsFit, Advance
<1>3. CASE UNCHANGED vars
  BY <1>3 DEF ProposalsFit, vars, world, agents, actions
<1>4. EventStep \/ Canonicalize \/ EndEvents \/ EndRoutes \/ EndRequests => phase' # "agents"
  BY DEF EventStep, DisableVehicle, DegradeVehicle, SetRegionClosed, SetLinkBlocked, Event,
         Canonicalize, EndEvents, EndRoutes, EndRequests
<1>5. ASSUME NEW a \in Agents, ChangeRoute(a) \/ Request(a) \/ Move(a)
      PROVE  phase' # "agents"
  BY <1>5 DEF ChangeRoute, Request, Move
<1> QED
  BY <1>1, <1>2, <1>3, <1>4, <1>5 DEF Next, SimulatorStep, ProposalsFit

(* canonicalize_actions never throws on a proposal of these agents: none   *)
(* asks on a route of before, on a map it has not seen change, for a       *)
(* closed chokepoint or for a window that has begun.                       *)
THEOREM ProposalsAccepted == Spec => []NeverThrows
<1>1. Init => OnOpenRoute /\ ProposalsFit
  BY DEF Init, OnOpenRoute, ProposalsFit
<1>2. /\ TypeOK /\ OnOpenRoute /\ [Next]_vars => OnOpenRoute'
      /\ TypeOK /\ OnOpenRoute /\ ProposalsFit /\ [Next]_vars => ProposalsFit'
      /\ TypeOK /\ Sound /\ [Next]_vars => Sound'
  BY OnOpenRouteStep, ProposalsFitStep, SoundStep
<1>3. TypeOK /\ Sound /\ ProposalsFit => NeverThrows
  <2> SUFFICES ASSUME TypeOK, Sound, ProposalsFit, phase = "agents",
                      NEW a \in Agents, NEW p \in proposals[a]
               PROVE  ValidReservation(a, p)
    BY DEF NeverThrows
  <2>1. p.version # 0
    BY BoundsAssumption DEF TypeOK, Table!Reservation
  <2> QED
    BY <2>1 DEF ValidReservation, Sound, ProposalsFit
<1> QED
  BY <1>1, <1>2, <1>3, TypeCorrect, SoundInit, PTL DEF Spec

=============================================================================
