----------------------------- MODULE MCUpstream -----------------------------
(* The instance of Upstream that TLC checks.                                *)
EXTENDS Upstream, TLC

RequestSymmetry == Permutations(Requests)
=============================================================================
