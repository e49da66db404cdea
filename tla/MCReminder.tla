----------------------------- MODULE MCReminder -----------------------------
(* The reminder with a few voice events. *)
EXTENDS Reminder
=============================================================================
