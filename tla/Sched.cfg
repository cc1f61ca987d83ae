\* Three CPUs that may all be in the balancer at once, with two tasks.
\* The bound on vruntime ends every behaviour, hence no deadlock check.
CONSTANTS
  t1 = t1
  t2 = t2
  NCPU = 3
  Task = {t1, t2}
  InitTask = t1
  MAX_SLICES = 1
  MaxV = 1
SPECIFICATION FairSpec
INVARIANTS
  OnePlace
  NoneLost
  QueueSorted
  QueuesExist
PROPERTY
  BalanceEnds
CHECK_DEADLOCK FALSE
