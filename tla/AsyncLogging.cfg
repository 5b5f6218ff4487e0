\* Buffers for two lines, seven lines: more full buffers than the two that are
\* kept, and files of three lines over four seconds of three periods, with
\* the end of summer time in the middle.  After stop() the back end ends.
CONSTANTS
  BufferSize = 3
  MaxMessages = 7
  MaxTime = 4
  Garbage <- CountGarbage
  RollSize = 2
  CheckEveryN = 2
  FlushInterval = 1
  RollPeriod = 2
  LocalTime <- SummerEnds
SPECIFICATION LogSpec
INVARIANTS NothingLost BuffersRecycled
PROPERTY AppendedIsFlushed
CHECK_DEADLOCK FALSE
