\* Three workers (main.cc starts at least two), two I/O threads that submit,
\* four tasks, and a stop at any time.  After the stop nothing happens.
CONSTANTS
  Workers = {w1, w2, w3}
  Submitters = {s1, s2}
  MaxTasks = 4
SPECIFICATION Spec
INVARIANT IInv
PROPERTIES SubmittedIsTaken StopDrains
CHECK_DEADLOCK FALSE
