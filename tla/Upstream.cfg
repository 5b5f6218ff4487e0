\* Two requests of any kind, streams of up to two lines of three bytes,
\* characters of up to three bytes, cached answers cut after two.  Requests are
\* only compared.  A request is made once, so the system comes to rest.
CONSTANTS
  Requests = {r1, r2}
  MaxLines = 2
  LineLen = 3
  MaxWidth = 3
  ChunkBytes = 2
  NoAnswer = NoAnswer
SYMMETRY RequestSymmetry
SPECIFICATION CallsSpec
INVARIANTS StreamIsReassembled ShownIsAnswer CacheHoldsGoodAnswers AgentIsRelayed
CHECK_DEADLOCK FALSE
