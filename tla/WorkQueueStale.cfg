SPECIFICATION Spec
CONSTANTS
  NumThreads = 2
  QUEUESIZE = 2
  Task = {t1, t2}
  NULL = NULL
  Modes = {TRUE}
  MaxTraversals = 2
INVARIANT
  AllqemptySaysAllEmpty
