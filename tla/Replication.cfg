SPECIFICATION Spec
CONSTANTS
  Key <- KeyMC
  Elem <- ElemMC
  hash_max_zipmap_entries = 1
  hash_max_zipmap_value = 1
  MaxText = 2
  MaxElems = 2
  MaxVolatile = 1
  MaxKeys = 2
  MaxChanges = 1
  MasterAuth = TRUE
  Chunks = 2
  MaxCommands = 3
  MaxFaults = 3
INVARIANTS
  SameDataset KeyspaceSound ReplicaSound
PROPERTY CatchesUp
