---------------------------- MODULE MCErrands ----------------------------
(* Corridors of three edges, one of them mud, with a charger at one end.   *)
EXTENDS Errands, TLC

UpTo(cost, terrain) ==
  LET sum[i \in 0..Columns] ==
        IF i = 0 THEN 0
        ELSE sum[i - 1] + ((((Cell * cost) \div 1000) * terrain[i - 1]) \div 1000)
  IN sum

Mission(speedOf, costOf, start, land, chargersOf, tasksOf) ==
  [speed |-> speedOf, cost |-> costOf, initial |-> start, terrain |-> land,
   upTo |-> UpTo(costOf, land),
   chargers |-> chargersOf, home |-> {[at |-> 1, radius |-> 0]}, tasks |-> tasksOf]

Mud == (0 :> 1000) @@ (1 :> 1700) @@ (2 :> 1000)

Job(target, radius, deadline, service, cost, released) ==
  [target |-> target, radius |-> radius, deadline |-> deadline, service |-> service,
   cost |-> cost, able |-> TRUE, released |-> released]

MCDeltas == {-1400, 900}

(* Slow or generous chargers, close or relaxed deadlines, tasks that need  *)
(* service or only a visit, a second task at once or later.                *)
MCMissions ==
  {Mission(pace, 7777, start, Mud,
           (1 :> [at |-> 0, radius |-> 0, rate |-> c.rate]) @@
           (2 :> [at |-> 2, radius |-> c.radius, rate |-> 400]),
           (1 :> Job(3, d.radius, d.last, service, 333, TRUE)) @@
           (2 :> Job(0, 0, 14, 0, 0, service = 2))) :
     pace \in {1000, 700, 335}, start \in {3100, 4500},
     c \in {[rate |-> 700, radius |-> 0], [rate |-> 1900, radius |-> 50]},
     d \in {[radius |-> 0, last |-> 7], [radius |-> 30, last |-> 12]}, service \in {0, 2}}
==========================================================================
