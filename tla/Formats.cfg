SPECIFICATION Spec
CONSTANTS
  W = 5
  IntText = 7
  LzfMin = 8
  LongMax = 600000
  hash_max_zipmap_entries = 2
  hash_max_zipmap_value = 4
  DbId = {0, 9}
  Datasets <- DatasetsMC
  MaxDbNumber = 9
  Times = {1, 3}
  Logs <- LogsMC
  MULTI <- M
  EXEC <- X
  Scripts <- ScriptsMC
  Bulk = {2}
  Arity <- ArityMC
  Quit = 3
  Reply <- ReplyMC
  GLUEREPLY_UP_TO = 4
  REDIS_MAX_WRITE_PER_EVENT = 2
  REDIS_WRITEV_THRESHOLD = 2
  REDIS_WRITEV_IOVEC_COUNT = 2
  REDIS_REQUEST_MAX_SIZE = 6
  k1 = k1
  k2 = k2
  c1 = c1
  c2 = c2
  t1 = t1
  t2 = t2
  Key <- KeyMC
  Client <- ClientMC
  Thread <- ThreadMC
  Size = {1, 2}
  NIL = NIL
  vm_pages = 3
  PipeSize = 1
  MaxEvents = 4
SYMMETRY VmSymmetry
INVARIANTS
  DumpReadersSound AofSound ConnectionSound
  VmTransparent JobsSound
