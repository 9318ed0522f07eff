---------------------------- MODULE MCReminders ----------------------------
(* Rows, ticks and nags are numbers already: the configurations bound them. *)
EXTENDS Reminders
=============================================================================
