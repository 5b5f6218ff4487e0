-------------------------- MODULE MCEventLoopThread --------------------------
(* The instance of EventLoopThread that TLC checks: an owner, two threads   *)
(* that post, and four functors.                                            *)
EXTENDS EventLoopThread
=============================================================================
