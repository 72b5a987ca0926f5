---------------------------- MODULE MCConsensus ----------------------------
(* Small worlds for Consensus: vehicles and tasks on a line, a tick for    *)
(* each unit of distance.                                                  *)
EXTENDS Consensus

Pair  == {1, 2}
Trio  == {1, 2, 3}
Line  == 0..6

Gap(p, q) == IF p < q THEN q - p ELSE p - q

Walk(as) ==
  [a \in as |-> [pq \in Line \X Line |->
     [ticks |-> Gap(pq[1], pq[2]), distance |-> Gap(pq[1], pq[2]), energy |-> 0]]]

TrioWalk == Walk(Trio)

(* Three agents, two tasks between them.                                   *)
TrioHome == (1 :> 0) @@ (2 :> 3) @@ (3 :> 6)

Two      == {1, 2}
TwoSites == (1 :> 2) @@ (2 :> 4)
TrioAble == (1 :> Trio) @@ (2 :> Trio)
TwoZero  == (1 :> 0) @@ (2 :> 0)
TwoOnes  == (1 :> 1) @@ (2 :> 1)
TwoLate  == (1 :> 40) @@ (2 :> 40)
PairZero == (1 :> 0) @@ (2 :> 0)
TrioZero == (1 :> 0) @@ (2 :> 0) @@ (3 :> 0)

(* Two agents, each with an urgent task behind its back; between them two  *)
(* tasks which each would do one after the other.                          *)
Road       == -10..22
RoadWalk   == [a \in Pair |-> [pq \in Road \X Road |->
     [ticks |-> Gap(pq[1], pq[2]), distance |-> Gap(pq[1], pq[2]), energy |-> 0]]]
RoadHome   == (1 :> 0) @@ (2 :> 12)
Four       == 1..4
RoadSites  == (1 :> 5) @@ (2 :> 7) @@ (3 :> -10) @@ (4 :> 22)
Urgent     == (1 :> 0) @@ (2 :> 0) @@ (3 :> 1) @@ (4 :> 1)
FourAble   == [t \in Four |-> Pair]
FourZero   == [t \in Four |-> 0]
FourOnes   == [t \in Four |-> 1]
FourLate   == [t \in Four |-> 100]

(* A longer road on which the best order is not the order in which a       *)
(* bundle was built, and no one can do the last task in time.              *)
Street     == 0..12
StreetWalk == [a \in Pair |-> [pq \in Street \X Street |->
     [ticks |-> Gap(pq[1], pq[2]), distance |-> Gap(pq[1], pq[2]), energy |-> 0]]]

OddHome    == (1 :> 8) @@ (2 :> 6)
OddSites   == (1 :> 7) @@ (2 :> 6) @@ (3 :> 11) @@ (4 :> 0)
OddUrgent  == (1 :> 0) @@ (2 :> 1) @@ (3 :> 0) @@ (4 :> 0)
OddLate    == (1 :> 5) @@ (2 :> 10) @@ (3 :> 13) @@ (4 :> 3)
OddService == (1 :> 1) @@ (2 :> 0) @@ (3 :> 2) @@ (4 :> 0)

Three        == 1..3
=============================================================================
