\* The reactor under its owner: two posting threads, four functors.  The
\* owner stops at the end, so the system does.
CONSTANTS
  Threads = {owner, t1, t2}
  Owner = owner
  MaxPosted = 4
SPECIFICATION TSpec
INVARIANTS NoStrandedFunctor UsersSeeLiveLoop
PROPERTIES RefinesFunctorQueue PostedIsRun
CHECK_DEADLOCK FALSE
