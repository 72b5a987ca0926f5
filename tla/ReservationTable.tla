------------------------- MODULE ReservationTable -------------------------
(***************************************************************************)
(* The chokepoint reservation table, sentinel::planning::ReservationTable  *)
(* (planning/src/planner.cpp), under the calls the simulator makes on it   *)
(* in one tick (core/src/simulator.cpp):                                   *)
(*                                                                         *)
(*   "events"    the scheduled events release an agent, a route or a map   *)
(*   "routes"    after release_before(tick), routes that changed go        *)
(*   "requests"  the proposals of the tick are reserved, one at a time     *)
(*                                                                         *)
(* Agent ids are naturals so that < is the string order of the code.       *)
(* seen_ is kept as the newest version seen from each agent: reserve()     *)
(* only asks it whether an equal or a newer version was seen before, and   *)
(* its two answers (unchanged, stale) leave the same state.  conflicts_    *)
(* is a counter of the summary and is left out.  A name that starts with   *)
(* Mut_ is a mistake someone could make in the definition after it;        *)
(* nothing uses it, and PROJECT.json says which property it breaks.        *)
(***************************************************************************)
EXTENDS Integers

CONSTANTS
  Agents,       (* vehicle ids, ordered                                    *)
  Resources,    (* chokepoint regions                                      *)
  Versions,     (* proposal versions: ++reservation_version in the agent   *)
  Routes,       (* route versions                                          *)
  Maps,         (* map versions                                            *)
  Horizon       (* bound: the last tick a window or the clock reaches      *)

ASSUME AgentsAssumption   == Agents \subseteq Nat
ASSUME VersionsAssumption == Versions \subseteq Nat \ {0}
ASSUME HorizonAssumption  == Horizon \in Nat

VARIABLES
  tick,         (* the simulator's tick_                                   *)
  phase,        (* where the simulator is in the tick                      *)
  committed,    (* committed_                                              *)
  newest        (* the newest version of each agent in seen_, 0 if none    *)

vars == <<tick, phase, committed, newest>>

Reservation ==
  [resource : Resources, agent : Agents, start : 0..Horizon, end : 0..Horizon,
   version : Versions, route : Routes, map : Maps]

Phases == {"events", "routes", "requests"}

TypeOK ==
  /\ tick \in 0..Horizon
  /\ phase \in Phases
  /\ committed \subseteq Reservation
  /\ newest \in [Agents -> Versions \cup {0}]

(***************************************************************************)
(* Inclusive windows of one resource, and the rank that settles a clash.   *)
(***************************************************************************)
Overlaps(p, q) ==
  /\ p.resource = q.resource
  /\ p.start <= q.end
  /\ q.start <= p.end

Mut_HigherPriority(p, q) ==
  p.agent < q.agent \/ (p.agent = q.agent /\ p.start < q.start)

HigherPriority(p, q) ==
  \/ p.start < q.start
  \/ p.start = q.start /\ p.agent < q.agent
  \/ p.start = q.start /\ p.agent = q.agent /\ p.version > q.version

Conflicts(p) == {q \in committed : Overlaps(q, p)}

(* reserve() answers unchanged or stale: the agent was seen at this        *)
(* version, or a newer one, before.                                        *)
Mut_Seen(p) == newest[p.agent] = p.version

Seen(p) == newest[p.agent] >= p.version

Wins(p) == \A q \in Conflicts(p) : HigherPriority(p, q)

Mut_Reserve(p) ==
  /\ ~Seen(p)
  /\ newest' = [newest EXCEPT ![p.agent] = p.version]
  /\ committed' = IF Wins(p) THEN committed \cup {p} ELSE committed

Reserve(p) ==
  /\ ~Seen(p)
  /\ newest' = [newest EXCEPT ![p.agent] = p.version]
  /\ committed' = IF Wins(p) THEN (committed \ Conflicts(p)) \cup {p} ELSE committed

(***************************************************************************)
(* The releases erase what they select.                                    *)
(***************************************************************************)
Release(Selected(_)) ==
  /\ committed' = {r \in committed : ~Selected(r)}
  /\ UNCHANGED newest

ReleaseBefore(t)    == Release(LAMBDA r : r.end < t)
ReleaseAgent(a)     == Release(LAMBDA r : r.agent = a)
ReleaseRoute(a, v)  == Release(LAMBDA r : r.agent = a /\ r.route = v)
ReleaseMap(m)       == Release(LAMBDA r : r.map # m)

(***************************************************************************)
(* The calls of one tick.                                                  *)
(***************************************************************************)
Init ==
  /\ tick = 0
  /\ phase = "events"
  /\ committed = {}
  /\ newest = [a \in Agents |-> 0]

(* apply_events: DISABLE_VEHICLE, a degradation, a region that opens or    *)
(* closes.                                                                 *)
Event ==
  /\ phase = "events"
  /\ \/ \E a \in Agents : ReleaseAgent(a)
     \/ \E a \in Agents, v \in Routes : ReleaseRoute(a, v)
     \/ \E m \in Maps : ReleaseMap(m)
  /\ UNCHANGED <<tick, phase>>

(* apply_reservations starts by dropping the windows that have ended ...   *)
Expire ==
  /\ phase = "events"
  /\ phase' = "routes"
  /\ ReleaseBefore(tick)
  /\ UNCHANGED tick

(* ... then the windows of the routes that were replaced ...               *)
ChangeRoute ==
  /\ phase = "routes"
  /\ \E a \in Agents, v \in Routes : ReleaseRoute(a, v)
  /\ UNCHANGED <<tick, phase>>

(* ... in a loop of its own ...                                            *)
EndRoutes ==
  /\ phase = "routes"
  /\ phase' = "requests"
  /\ UNCHANGED <<tick, committed, newest>>

(* ... and reserves the proposals, each of which starts after this tick    *)
(* (valid_reservation).                                                    *)
Request ==
  /\ phase = "requests"
  /\ \E p \in Reservation :
        /\ tick < p.start /\ p.start <= p.end
        /\ Reserve(p)
  /\ UNCHANGED <<tick, phase>>

Advance ==
  /\ phase = "requests"
  /\ tick < Horizon
  /\ tick' = tick + 1
  /\ phase' = "events"
  /\ UNCHANGED <<committed, newest>>

Next == Event \/ Expire \/ ChangeRoute \/ EndRoutes \/ Request \/ Advance

Spec == Init /\ [][Next]_vars

-----------------------------------------------------------------------------
(* Two windows committed on one chokepoint never share a tick: what the    *)
(* erasing branch of reserve() has to re-establish whatever it displaces.  *)
NoOverlap ==
  \A p, q \in committed : Overlaps(p, q) => p = q

(* A committed window is one its agent proposed no later than the newest   *)
(* version seen from it, and two of its windows have different versions.   *)
VersionsDistinct ==
  /\ \A p \in committed : p.version <= newest[p.agent]
  /\ \A p, q \in committed :
        p.agent = q.agent /\ p.version = q.version => p = q

(* reserve() displaces only windows that overlap the admitted one, rank    *)
(* below it and have not begun: a vehicle inside its window keeps its      *)
(* grant whatever the others propose.                                      *)
DisplacementJustified ==
  [][\A q \in committed' \ committed :
        \A r \in committed \ committed' :
           Overlaps(q, r) /\ HigherPriority(q, r) /\ tick < r.start]_vars

(* A window that was displaced, released or refused never comes back: the  *)
(* simulator replaying an old proposal is answered stale, and the table    *)
(* never forgets a version when it releases the window.                    *)
NoReplay ==
  [][/\ \A q \in committed' \ committed : newest[q.agent] < newest'[q.agent]
     /\ \A a \in Agents : newest[a] <= newest'[a]]_vars

=============================================================================
