----------------------------- MODULE MCWorkflow -----------------------------
(* The instance of Workflow that TLC checks.                                *)
EXTENDS Workflow
=============================================================================
