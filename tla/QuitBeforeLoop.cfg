CONSTANTS
  Threads = {owner, t1}
  Owner = owner
  MaxPosted = 1
SPECIFICATION TSpec
PROPERTY DestructorReturns
CHECK_DEADLOCK FALSE
