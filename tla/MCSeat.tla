------------------------------- MODULE MCSeat -------------------------------
(* The seat, small: two names for one task, and one report. *)
EXTENDS Seat
=============================================================================
