----------------------------- MODULE MCAgentTurns -----------------------------
(* Two questions and an approval, two at a time, in any combination.         *)
EXTENDS AgentTurns, TLC

\* Questions are compared for equality only.
Alike == Permutations(Asks)
=============================================================================
