--------------------------- MODULE MCChokepoint ---------------------------
(***************************************************************************)
(* Vehicles on a straight road.  A leg intersects a chokepoint if one of   *)
(* its ends is in it.                                                      *)
(***************************************************************************)
EXTENDS Chokepoint

Legs(n) == (1..n) \X (1..n)

(* The points of one road in the order of travel.                          *)
Straight(n) == [l \in Legs(n) |->
  IF l[1] = l[2] THEN {}
  ELSE IF l[1] < l[2] THEN {[i \in 1..(l[2] - l[1]) |-> l[1] + i]}
  ELSE {[i \in 1..(l[1] - l[2]) |-> l[1] - i]}]

(* A pass over points 2 and 3 of four, a vehicle on either side ...        *)
PassWays    == Straight(4)
PassCrossed == [l \in Legs(4) |-> IF {l[1], l[2]} \cap {2, 3} # {} THEN {1} ELSE {}]
PassStart   == <<1, 4>>
PassErrand  == <<4, 1>>

(* ... or two on one side and one on the other.                            *)
QueueStart  == <<1, 4, 2>>
QueueErrand == <<4, 1, 4>>

(* Two chokepoints that share their border, point 3 of five.               *)
TwinWays    == Straight(5)
TwinCrossed == [l \in Legs(5) |->
  (IF {l[1], l[2]} \cap {2, 3} # {} THEN {1} ELSE {}) \cup
  (IF {l[1], l[2]} \cap {3, 4} # {} THEN {2} ELSE {})]
TwinStart   == <<1, 5>>
TwinErrand  == <<5, 1>>

=============================================================================
