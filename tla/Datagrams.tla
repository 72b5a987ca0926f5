----------------------------- MODULE Datagrams -----------------------------
(***************************************************************************)
(* What agents may rely on when they send a message: it is a datagram,     *)
(* delivered once or dropped, and, once its fate is settled, neither       *)
(* delivered again nor revived.  Nothing is promised about the order.      *)
(***************************************************************************)
EXTENDS Integers

VARIABLES sent, carried, delivered, dropped

datagrams == <<sent, carried, delivered, dropped>>

Init == sent = 0 /\ carried = {} /\ delivered = {} /\ dropped = {}

(* A message is accepted, and may be lost at once.                         *)
Send ==
  /\ sent' = sent + 1
  /\ \/ carried' = carried \cup {sent'} /\ UNCHANGED dropped
     \/ dropped' = dropped \cup {sent'} /\ UNCHANGED carried
  /\ UNCHANGED delivered

(* Messages that are carried arrive ...                                    *)
Deliver ==
  /\ \E D \in SUBSET carried :
        /\ carried' = carried \ D
        /\ delivered' = delivered \cup D
  /\ UNCHANGED <<sent, dropped>>

(* ... or are dropped.                                                     *)
Drop ==
  /\ \E D \in SUBSET carried :
        /\ carried' = carried \ D
        /\ dropped' = dropped \cup D
  /\ UNCHANGED <<sent, delivered>>

Next == Send \/ Deliver \/ Drop

Spec == Init /\ [][Next]_datagrams
=============================================================================
