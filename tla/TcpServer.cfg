\* Two connections on zero, one or two I/O loops, two requests on each.  The
\* peers may fall silent and the server then waits.
CONSTANTS
  MaxConns = 2
  MaxSubLoops = 2
  MaxMessages = 2
SPECIFICATION Spec
INVARIANTS NoDanglingChannel ContextsMatchConnections
PROPERTIES RefinesConnLifecycle ClosedIsFreed
CHECK_DEADLOCK FALSE
