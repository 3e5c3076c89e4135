SPECIFICATION FairSpec
CONSTANTS
  Task = {t1, t2, t3}
  MinWorkers = 1
  MaxWorkers = 1
  Warm = TRUE
  ShutDown = {}
PROPERTY ImplementsFairTaskPool
\* A pool with nothing to do, or shut down, waits for ever.
CHECK_DEADLOCK FALSE
