------------------------------ MODULE Bundles ------------------------------
(***************************************************************************)
(* What an agent's allocator asks of the planner: can this vehicle do      *)
(* these tasks in this order, and where would one more task fit best       *)
(* (BundleEvaluator and feasible_route in planning/src/planner.cpp).       *)
(*                                                                         *)
(* Routes between places are a table: Hop[a][<<p, q>>] is the route of     *)
(* vehicle a from p to q, NoHop where it has none.  Ticks are counted from *)
(* the basis tick of the allocation, the one at which its epoch began.     *)
(***************************************************************************)
EXTENDS Integers, Sequences, SequencesExt, FiniteSetsExt

CONSTANTS
  Agents,         (* vehicle ids, ordered                                  *)
  Tasks,          (* task ids, ordered                                     *)
  Places,         (* where vehicles and tasks are                          *)
  Home,           (* where each vehicle is when the epoch begins           *)
  Hop,            (* [ticks, distance, energy] of each vehicle's routes    *)
  NoHop,          (* there is no route                                     *)
  Load,           (* payload_grams of each vehicle                         *)
  Energy,         (* energy of each vehicle above its reserve              *)
  Site,           (* target of each task                                   *)
  Able,           (* the vehicles with the required capability             *)
  Priority,       (* priority of each task                                 *)
  Deadline,       (* deadline_tick of each task                            *)
  Service,        (* service_ticks not yet done of each task               *)
  ServiceEnergy,  (* what they cost                                        *)
  Payload,        (* payload_required_grams of each task                   *)
  Deliveries,     (* the tasks that leave their payload behind             *)
  PriorityWeight, (* what a point of priority is worth                     *)
  TickWeight      (* what a tick is worth, in units of distance or energy  *)

ASSUME IdsAssumption == Agents \subseteq Nat \ {0} /\ Tasks \subseteq Nat
ASSUME FleetAssumption == IsFiniteSet(Agents) /\ IsFiniteSet(Tasks)
ASSUME RoutesAssumption ==
  /\ Home \in [Agents -> Places]
  /\ Site \in [Tasks -> Places]
  /\ Hop \in [Agents -> [Places \X Places ->
                [ticks : Nat, distance : Nat, energy : Nat] \cup {NoHop}]]
ASSUME WorkAssumption ==
  /\ Load \in [Agents -> Nat] /\ Energy \in [Agents -> Int]
  /\ Able \in [Tasks -> SUBSET Agents]
  /\ Priority \in [Tasks -> Nat] /\ Deadline \in [Tasks -> Nat] /\ Service \in [Tasks -> Nat]
  /\ ServiceEnergy \in [Tasks -> Nat] /\ Payload \in [Tasks -> Nat]
  /\ Deliveries \subseteq Tasks
  /\ PriorityWeight \in Nat /\ TickWeight \in Nat

(* evaluate: the tour of a through the tasks ts, as a function: its value  *)
(* at k is the state after the first k of them.                            *)
Departure(a) ==
  [at |-> Home[a], tick |-> 0, distance |-> 0, energy |-> 0, load |-> Load[a],
   ok |-> Energy[a] >= 0]

Refused(s) == [s EXCEPT !.ok = FALSE]

Arrival(a, s, t, hop) ==
  LET next == [at       |-> Site[t],
               tick     |-> s.tick + hop.ticks + Service[t],
               distance |-> s.distance + hop.distance,
               energy   |-> s.energy + hop.energy + ServiceEnergy[t],
               load     |-> IF t \in Deliveries THEN s.load - Payload[t] ELSE s.load,
               ok       |-> TRUE]
  IN IF next.energy > Energy[a] \/ next.tick > Deadline[t] THEN Refused(s) ELSE next

Serve(a, s, t) ==
  LET hop == Hop[a][<<s.at, Site[t]>>]
  IN IF ~s.ok \/ a \notin Able[t] \/ s.load < Payload[t] \/ hop = NoHop
     THEN Refused(s) ELSE Arrival(a, s, t, hop)

Tour(a, ts) ==
  LET tour[k \in 0..Len(ts)] ==
        IF k = 0 THEN Departure(a) ELSE Serve(a, tour[k - 1], ts[k])
  IN tour

Outcome(a, ts) == Tour(a, ts)[Len(ts)]

Feasible(a, ts) == Outcome(a, ts).ok

-----------------------------------------------------------------------------
(* best_insertion: t as the i-th task of ts (from 0), and what that costs  *)
(* the tasks behind it.                                                    *)
Delay(old, new, i, n) ==
  LET delay[k \in 0..n] ==
        IF k <= i THEN 0 ELSE delay[k - 1] + Max({0, new[k + 1].tick - old[k].tick})
  IN delay[n]

Insertion(a, ts, t, i) ==
  LET longer == InsertAt(ts, i + 1, t)
      old    == Tour(a, ts)
      new    == Tour(a, longer)
      n      == Len(ts)
      more   == [distance |-> new[n + 1].distance - old[n].distance,
                 energy   |-> new[n + 1].energy - old[n].energy]
  IN [index      |-> i,
      distance   |-> more.distance,
      energy     |-> more.energy,
      completion |-> new[i + 1].tick,
      score      |-> Priority[t] * PriorityWeight
                     + (Deadline[t] - new[i + 1].tick - Delay(old, new, i, n)) * TickWeight
                     - more.distance - more.energy]

(* The greater score, then less distance, energy, time and index.          *)
Preferred(x, y) ==
  \/ x.score > y.score
  \/ /\ x.score = y.score
     /\ \/ x.distance < y.distance
        \/ /\ x.distance = y.distance
           /\ \/ x.energy < y.energy
              \/ /\ x.energy = y.energy
                 /\ \/ x.completion < y.completion
                    \/ x.completion = y.completion /\ x.index <= y.index

Slots(a, ts, t, least) ==
  {i \in least..Len(ts) : Feasible(a, InsertAt(ts, i + 1, t))}

(* The set of the best insertion, empty if none is feasible.               *)
BestInsertion(a, ts, t, least) ==
  LET all == IF Feasible(a, ts) /\ t \notin ToSet(ts)
             THEN {Insertion(a, ts, t, i) : i \in Slots(a, ts, t, least)} ELSE {}
  IN {x \in all : \A y \in all : Preferred(x, y)}
=============================================================================
