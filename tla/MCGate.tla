------------------------------- MODULE MCGate -------------------------------
(* The gate on one call.  Calls share nothing but the clock and the server's *)
(* life: every action either touches one call or acts on each separately.   *)
EXTENDS Gate

CONSTANT call

MCCalls    == {call}
MCPatience == [c \in MCCalls |-> 2]
=============================================================================
