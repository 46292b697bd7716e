SPECIFICATION Spec
CONSTANTS
  Threads = {t1, t2}
  MaxAcquires = 3
INVARIANTS StateFollowsCount
CHECK_DEADLOCK FALSE
