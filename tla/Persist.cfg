SPECIFICATION PSpec
CONSTANTS
  s1 = s1
  s2 = s2
  Db = {0, 1}
  Slave <- SlaveMC
  NoChild = NoChild
  MaxOps = 4
  MaxCrash = 1
SYMMETRY SlaveSymmetry
INVARIANTS FilesSound SlavesSound
