----------------------------- MODULE MCNetwork -----------------------------
(* Two links, one used in both directions, and two profiles: a slow one    *)
(* with jitter and a fast one that loses and reorders.                     *)
EXTENDS Network

MCTraffic == {<<1, 2>>, <<2, 1>>, <<1, 3>>}

Slow == [rate |-> 1, latency |-> 1, jitter |-> 1, lossy |-> FALSE, window |-> 0]
Fast == [rate |-> 3, latency |-> 1, jitter |-> 0, lossy |-> TRUE, window |-> 1]

MCProfiles == {Slow, Fast}
=============================================================================
