SPECIFICATION Spec
CONSTANTS
  Task = {t1, t2}
  MinWorkers = 1
  MaxWorkers = 1
  Warm = FALSE
  ShutDown = {}
INVARIANT NoTaskDropped
\* A pool with nothing to do, or shut down, waits for ever.
CHECK_DEADLOCK FALSE
