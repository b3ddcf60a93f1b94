SPECIFICATION Spec
CONSTANTS
  NumThreads = 3
  QUEUESIZE = 1
  Task = {t1, t2}
  NULL = NULL
  Modes = {TRUE, FALSE}
  MaxTraversals = 2
SYMMETRY TaskSymmetry
INVARIANTS
  TypeOK
  LeaveOnlyWhenDone
  ExactlyOnce
  OverflowNeedsQueueSizeTasks
