\* Messages of one to three bytes through a socket with room for two, vectors that
\* start with room for two bytes behind one that is kept free, and an overflow of
\* two bytes on the stack.  After the close nothing more happens.
CONSTANTS
  MaxBytes = 4
  MaxSend = 3
  SockCap = 2
  MaxInput = 3
  CheapPrepend = 1
  InitialSize = 2
  ExtraSize = 2
SPECIFICATION BSpec
INVARIANTS StreamIntact FinIsLast BuffersHold
PROPERTIES AllDelivered ShutdownCompletes
CHECK_DEADLOCK FALSE
