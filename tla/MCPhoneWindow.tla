--------------------------- MODULE MCPhoneWindow ---------------------------
(* Attaches and events are numbers already: the configurations bound them,  *)
(* and the panes are model values.                                          *)
EXTENDS PhoneWindow
=============================================================================
