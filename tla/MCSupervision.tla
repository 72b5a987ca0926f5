--------------------------- MODULE MCSupervision ---------------------------
(* Two agents.                                                             *)
EXTENDS Supervision
=============================================================================
