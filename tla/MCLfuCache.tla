----------------------------- MODULE MCLfuCache ------------------------------
(* The instance of LfuCache that TLC checks.                                *)
EXTENDS LfuCache
=============================================================================
