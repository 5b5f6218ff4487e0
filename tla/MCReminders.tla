---------------------------- MODULE MCReminders -----------------------------
(* The instance of Reminders that TLC checks.                              *)
EXTENDS Reminders
=============================================================================
