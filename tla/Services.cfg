SPECIFICATION Spec
CONSTANTS
  Value = {v1, v2}
  NULL = NULL
  QUEUESIZE = 3
  SPLIT = 4
  MaxCount = 40
  visitalls <- Visitalls
  g1 = g1
  g2 = g2
  Cell = {c1, c2}
  c1 = c1
  c2 = c2
  obj = obj
  Content = {c1, c2, obj}
  MaxEntries = 3
  Thread = {h1, h2}
  BaseTyp <- Generated
  TargetOf <- PointsTo
  ArrayLen = {2, 3}
  GenArgs = {args}
  args = args
  Pad = {0}
  Hash <- HashSome
  RowOf <- RowApart
  MaxCalls = 2
  NoTyp <- NoneTyp
  User = {u1, u2}
  k1 = k1
  k2 = k2
  k3 = k3
  HashKey = {k1, k2, k3}
  HashValue <- HashesMC
  XHASH_INITIAL_NUM_BUCKETS = 1
  XHASH_MAX_NUM_BUCKETS = 4
  XHASH_MAX_NUM_MUTEX = 2
  XHASH_BKT_CAPACITY_THRESH = 1
  MaxUses = 3
  Globals = Globals
  Null = Null
  Fields <- FieldsMC
  Heaps <- HeapsMC
  Symbol = {sym}
  Relocated <- RelocatedMC
  NewAddr = {w1, w2, w3, w4, w5}
  Malloc <- MallocMC
  Leftover = {Null, junk, n1}
  n1 = n1
  n2 = n2
  ar = ar
  st = st
  sym = sym
  sym2 = sym2
  txt = txt
  d1 = d1
  d2 = d2
  junk = junk
SYMMETRY ThreadSymmetry
INVARIANTS
  IndicesAgree
  PiecesApart AllVisited
  RootsSound
  ReturnedTypeFound ConstructorsSound TableSound
  RoundTrip
PROPERTY ImplementsFifo
