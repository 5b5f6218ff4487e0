--------------------------- MODULE MCTaskExecutor ----------------------------
(* The instance of TaskExecutor that TLC checks.                            *)
EXTENDS TaskExecutor
=============================================================================
