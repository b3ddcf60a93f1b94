SPECIFICATION FairSpec
CONSTANTS
  NumThreads = 2
  o1 = o1
  o2 = o2
  Object = {o1, o2}
  NumFields = 2
  Root = Root
  NewRoot = NewRoot
  Service <- CopyAllOrNone
  NumBuckets = 2
  BucketOf <- Rows
  SeedRow = 0
  NULL = NULL
  Wild = Wild
INVARIANTS
  CalledOnce
  NoUseAfterFree
  HeapCopied
  SharesSound
PROPERTY
  Terminates
