SPECIFICATION Spec
CONSTANTS
  NumThreads = 2
  o1 = o1
  o2 = o2
  Object = {o1, o2}
  NumFields = 2
  Root = Root
  NewRoot = NewRoot
  Service <- CopyInPlace
  NumBuckets = 2
  BucketOf <- Rows
  SeedRow = 0
  NULL = NULL
  Wild = Wild
INVARIANT OldMemFreedOnce
CHECK_DEADLOCK FALSE
