----------------------------- MODULE MCMission -----------------------------
(* Small missions: three vehicles, one task that is owned from the start   *)
(* and one that a commit has to assign.                                    *)
EXTENDS Mission, TLC

CONSTANTS t1, t2

MCCapable     == (t1 :> {1, 2, 3}) @@ (t2 :> {1, 2})
MCDeadline    == (t1 :> 5) @@ (t2 :> 3)
MCService     == (t1 :> 2) @@ (t2 :> 0)
MCPreassigned == (t1 :> 1) @@ (t2 :> None)
=============================================================================
