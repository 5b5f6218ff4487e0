----------------------------- MODULE MCTcpOutput -----------------------------
(* The instance of TcpOutput, with its buffers, that TLC checks.            *)
EXTENDS TcpBuffers
=============================================================================
