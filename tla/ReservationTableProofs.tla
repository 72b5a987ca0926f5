---------------------- MODULE ReservationTableProofs ----------------------
(***************************************************************************)
(* What the reservation table keeps, for any number of vehicles and        *)
(* chokepoints, any versions and any horizon.                              *)
(***************************************************************************)
EXTENDS ReservationTable, TLAPS

(* Versions, and the 0 that stands for none, are ordered as naturals.       *)
LEMMA VersionIsNat == \A v \in Versions \cup {0} : v \in Nat
BY VersionsAssumption

(* A step that is not a request keeps some of the windows and adds none.   *)
LEMMA ReleaseStep ==
  ASSUME [Next]_vars
  PROVE  \/ committed' \subseteq committed /\ newest' = newest
         \/ Request
BY DEF Next, Event, Expire, ChangeRoute, EndRoutes, Advance, Release, ReleaseBefore,
       ReleaseAgent, ReleaseRoute, ReleaseMap, vars

(* A request either leaves the windows alone or admits one proposal in the *)
(* place of every window it overlaps, all of which it outranks.            *)
LEMMA RequestStep ==
  ASSUME TypeOK, Request
  PROVE  \E p \in Reservation :
           /\ tick < p.start /\ p.start <= p.end
           /\ newest[p.agent] < p.version
           /\ newest' = [newest EXCEPT ![p.agent] = p.version]
           /\ \/ committed' = committed
              \/ Wins(p) /\ committed' = (committed \ Conflicts(p)) \cup {p}
<1>1. PICK p \in Reservation : tick < p.start /\ p.start <= p.end /\ Reserve(p)
  BY DEF Request
<1>2. p.agent \in Agents /\ p.version \in Versions
  BY DEF Reservation
<1>3. newest[p.agent] \in Versions \cup {0}
  BY <1>2 DEF TypeOK
<1>4. newest[p.agent] \in Nat /\ p.version \in Nat
  BY <1>2, <1>3, VersionIsNat
<1>5. newest[p.agent] < p.version
  BY <1>1, <1>4 DEF Reserve, Seen
<1> QED
  BY <1>1, <1>5 DEF Reserve

-----------------------------------------------------------------------------
(* The table's state stays of its type: the clock within the horizon, the  *)
(* committed windows well formed, versions among those proposed.           *)
LEMMA TypeInit == Init => TypeOK
BY HorizonAssumption DEF Init, TypeOK, Phases

LEMMA TypeStep == TypeOK /\ [Next]_vars => TypeOK'
<1> SUFFICES ASSUME TypeOK, [Next]_vars PROVE TypeOK'
  OBVIOUS
<1>1. tick' \in 0..Horizon /\ phase' \in Phases
  BY HorizonAssumption
  DEF TypeOK, Next, Event, Expire, ChangeRoute, EndRoutes, Request, Advance, Phases, vars
<1>2. committed' \subseteq Reservation /\ newest' \in [Agents -> Versions \cup {0}]
  <2>1. CASE committed' \subseteq committed /\ newest' = newest
    BY <2>1 DEF TypeOK
  <2>2. CASE Request
    <3>1. PICK p \in Reservation :
            /\ newest' = [newest EXCEPT ![p.agent] = p.version]
            /\ \/ committed' = committed
               \/ committed' = (committed \ Conflicts(p)) \cup {p}
      BY <2>2, RequestStep
    <3>2. p.agent \in Agents /\ p.version \in Versions
      BY DEF Reservation
    <3> QED
      BY <3>1, <3>2 DEF TypeOK
  <2> QED
    BY <2>1, <2>2, ReleaseStep
<1> QED
  BY <1>1, <1>2 DEF TypeOK

THEOREM TypeCorrect == Spec => []TypeOK
BY TypeInit, TypeStep, PTL DEF Spec

-----------------------------------------------------------------------------
(* Committed windows of one chokepoint never overlap, whatever reserve()   *)
(* displaces: summary().committed_reservations_never_overlap() is always   *)
(* true.                                                                   *)
LEMMA OverlapsSymmetric ==
  ASSUME NEW p, NEW q
  PROVE  Overlaps(p, q) <=> Overlaps(q, p)
BY DEF Overlaps

LEMMA NoOverlapStep == TypeOK /\ NoOverlap /\ [Next]_vars => NoOverlap'
<1> SUFFICES ASSUME TypeOK, NoOverlap, [Next]_vars,
                    NEW r \in committed', NEW s \in committed', Overlaps(r, s)
             PROVE  r = s
  BY DEF NoOverlap
<1>1. CASE committed' \subseteq committed
  BY <1>1 DEF NoOverlap
<1>2. CASE Request /\ ~(committed' \subseteq committed)
  <2>1. PICK p \in Reservation : committed' = (committed \ Conflicts(p)) \cup {p}
    BY <1>2, RequestStep
  <2>2. \A q \in committed \ Conflicts(p) : ~Overlaps(q, p) /\ ~Overlaps(p, q)
    BY OverlapsSymmetric DEF Conflicts
  <2> QED
    BY <2>1, <2>2 DEF NoOverlap
<1> QED
  BY <1>1, <1>2, ReleaseStep

THEOREM NeverOverlaps == Spec => []NoOverlap
<1>1. Init => NoOverlap
  BY DEF Init, NoOverlap
<1> QED
  BY <1>1, NoOverlapStep, TypeCorrect, PTL DEF Spec

-----------------------------------------------------------------------------
(* A window is displaced only by a proposal that overlaps it and ranks     *)
(* above it, and only before it begins: the priority is the earliest start *)
(* and every proposal starts after the current tick.                       *)
LEMMA DisplacementStep ==
  ASSUME TypeOK, [Next]_vars,
         NEW q \in committed' \ committed, NEW r \in committed \ committed'
  PROVE  Overlaps(q, r) /\ HigherPriority(q, r) /\ tick < r.start
<1>1. PICK p \in Reservation :
        /\ tick < p.start
        /\ Wins(p)
        /\ committed' = (committed \ Conflicts(p)) \cup {p}
  BY ReleaseStep, RequestStep
<1>2. q = p /\ r \in Conflicts(p)
  BY <1>1
<1>3. Overlaps(q, r)
  BY <1>2, OverlapsSymmetric DEF Conflicts
<1>4. HigherPriority(q, r)
  BY <1>1, <1>2 DEF Wins
<1>5. r \in Reservation /\ tick \in Int
  BY DEF TypeOK
<1>6. q.start \in Int /\ r.start \in Int
  BY <1>2, <1>5, HorizonAssumption DEF Reservation
<1>7. q.start <= r.start
  BY <1>4, <1>6 DEF HigherPriority
<1> QED
  BY <1>1, <1>2, <1>3, <1>4, <1>5, <1>6, <1>7

THEOREM GrantsAreKept == Spec => DisplacementJustified
<1>1. TypeOK /\ [Next]_vars =>
        [\A q \in committed' \ committed :
           \A r \in committed \ committed' :
              Overlaps(q, r) /\ HigherPriority(q, r) /\ tick < r.start]_vars
  BY DisplacementStep
<1> QED
  BY <1>1, TypeCorrect, PTL DEF Spec, DisplacementJustified

-----------------------------------------------------------------------------
(* Versions: an admitted proposal is newer than anything its agent sent    *)
(* before, so a window that is gone stays gone.                            *)
LEMMA ReplayStep ==
  ASSUME TypeOK, [Next]_vars
  PROVE  /\ \A q \in committed' \ committed : newest[q.agent] < newest'[q.agent]
         /\ \A a \in Agents : newest[a] <= newest'[a]
<1>0. \A a \in Agents : newest[a] \in Nat
  <2>1. \A a \in Agents : newest[a] \in Versions \cup {0}
    BY DEF TypeOK
  <2> QED
    BY <2>1, VersionIsNat
<1>1. CASE committed' \subseteq committed /\ newest' = newest
  BY <1>0, <1>1
<1>2. CASE Request
  <2>1. PICK p \in Reservation :
          /\ newest[p.agent] < p.version
          /\ newest' = [newest EXCEPT ![p.agent] = p.version]
          /\ \/ committed' = committed
             \/ committed' = (committed \ Conflicts(p)) \cup {p}
    BY <1>2, RequestStep
  <2>2. p.agent \in Agents /\ p.version \in Nat
    BY VersionsAssumption DEF Reservation
  <2>3. newest' [p.agent] = p.version
    BY <2>1, <2>2 DEF TypeOK
  <2>4. \A a \in Agents \ {p.agent} : newest'[a] = newest[a]
    BY <2>1 DEF TypeOK
  <2> QED
    BY <1>0, <2>1, <2>2, <2>3, <2>4
<1> QED
  BY <1>1, <1>2, ReleaseStep

THEOREM NothingComesBack == Spec => NoReplay
<1>1. TypeOK /\ [Next]_vars =>
        [/\ \A q \in committed' \ committed : newest[q.agent] < newest'[q.agent]
         /\ \A a \in Agents : newest[a] <= newest'[a]]_vars
  BY ReplayStep
<1> QED
  BY <1>1, TypeCorrect, PTL DEF Spec, NoReplay

(* The windows an agent holds carry different versions, none newer than    *)
(* the newest the table saw from it.                                       *)
LEMMA VersionsStep ==
  TypeOK /\ VersionsDistinct /\ [Next]_vars => VersionsDistinct'
<1> SUFFICES ASSUME TypeOK, VersionsDistinct, [Next]_vars PROVE VersionsDistinct'
  OBVIOUS
<1>1. CASE committed' \subseteq committed /\ newest' = newest
  BY <1>1 DEF VersionsDistinct
<1>2. CASE Request
  <2>1. PICK p \in Reservation :
          /\ newest[p.agent] < p.version
          /\ newest' = [newest EXCEPT ![p.agent] = p.version]
          /\ \/ committed' = committed
             \/ committed' = (committed \ Conflicts(p)) \cup {p}
    BY <1>2, RequestStep
  <2>2. p.agent \in Agents /\ p.version \in Nat /\ newest[p.agent] \in Nat
    <3>1. p.agent \in Agents /\ p.version \in Versions
      BY DEF Reservation
    <3>2. newest[p.agent] \in Versions \cup {0}
      BY <3>1 DEF TypeOK
    <3> QED
      BY <3>1, <3>2, VersionIsNat
  <2>3. /\ newest'[p.agent] = p.version
        /\ \A a \in Agents \ {p.agent} : newest'[a] = newest[a]
    BY <2>1, <2>2 DEF TypeOK
  <2>4. \A q \in committed : q.agent \in Agents /\ q.version \in Nat
    BY VersionsAssumption DEF TypeOK, Reservation
  <2>5. \A q \in committed : q.agent = p.agent => q.version < p.version
    BY <2>1, <2>2, <2>4 DEF VersionsDistinct
  <2>6. \A q \in committed' : q \in committed \/ q = p
    BY <2>1
  <2>7. ASSUME NEW q \in committed' PROVE q.version <= newest'[q.agent]
    BY <2>2, <2>3, <2>4, <2>5, <2>6 DEF VersionsDistinct
  <2>8. ASSUME NEW q \in committed', NEW r \in committed',
               q.agent = r.agent, q.version = r.version
        PROVE  q = r
    BY <2>2, <2>4, <2>5, <2>6, <2>8 DEF VersionsDistinct
  <2> QED
    BY <2>7, <2>8 DEF VersionsDistinct
<1> QED
  BY <1>1, <1>2, ReleaseStep

THEOREM VersionsStayDistinct == Spec => []VersionsDistinct
<1>1. Init => VersionsDistinct
  BY DEF Init, VersionsDistinct
<1> QED
  BY <1>1, VersionsStep, TypeCorrect, PTL DEF Spec
=============================================================================
