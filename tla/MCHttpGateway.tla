---------------------------- MODULE MCHttpGateway ----------------------------
(* The instance of HttpGateway that TLC checks.                             *)
EXTENDS HttpGateway
=============================================================================
