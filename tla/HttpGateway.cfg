\* One client that waits and one that pipelines, two requests in all (on one
\* connection or on both), two workers, two events per stream.  Silent clients
\* leave the system at rest.
CONSTANTS
  Conns = {a, p}
  Pipelining = {p}
  Workers = {w1, w2}
  MaxRequests = 2
  MaxTotal = 2
  MaxEvents = 2
SPECIFICATION Spec
INVARIANTS ResponsesInOrder ClosesWhenAnswered
PROPERTY SentIsAnswered
CHECK_DEADLOCK FALSE
