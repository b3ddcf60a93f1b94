SPECIFICATION FairSpec
CONSTANTS
  NumThreads = 3
  QUEUESIZE = 2
  Task = {t1, t2}
  NULL = NULL
  Modes = {TRUE, FALSE}
  MaxTraversals = 1
PROPERTIES
  ImplementsTaskPool DrainedReturns
