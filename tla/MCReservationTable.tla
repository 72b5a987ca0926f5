------------------------ MODULE MCReservationTable ------------------------
(* Three vehicles contend for one chokepoint, or two for two.              *)
EXTENDS ReservationTable
=============================================================================
