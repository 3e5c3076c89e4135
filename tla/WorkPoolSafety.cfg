SPECIFICATION Spec
CONSTANTS
  Task = {t1, t2, t3}
  MinWorkers = 1
  MaxWorkers = 2
  Warm = FALSE
  ShutDown = {"stop", "abort"}
SYMMETRY TaskSymmetry
CONSTRAINT ShutDownBound
INVARIANTS
  NoLostDispatch
  EveryWorkerInOneHand
  StoppedMeansEnded
PROPERTY ImplementsTaskPool
\* A pool with nothing to do, or shut down, waits for ever.
CHECK_DEADLOCK FALSE
