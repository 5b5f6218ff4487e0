\* Two questions, two rounds of research, three tool calls of which two are asked
\* for at once: a batch is cut at the limit, and a call is repeated within a batch
\* and in the next round.  After the last answer nothing happens.
CONSTANTS
  MaxRewrites = 1
  MaxIterations = 3
  MaxToolCalls = 3
  Reads = {search}
  Writes = {remind}
  Plan = plan
  MaxBatch = 2
  MaxTurns = 2
SPECIFICATION Spec
INVARIANTS BudgetsHold WritesAreApproved WritesHappenOnce EvidencePolicyKept
PROPERTY TurnEnds
CHECK_DEADLOCK FALSE
