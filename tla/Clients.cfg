SPECIFICATION CSpec
CONSTANTS
  c1 = c1
  c2 = c2
  c3 = c3
  Client <- ClientMC
  Key <- KeyMC
  Channel = {"news"}
  Pattern = {"n*", "x*"}
  Matches <- MatchesMC
  Program <- ProgramMC
  NIL = NIL
  MaxBuf = 2
  MaxPushed = 3
SYMMETRY ClientSymmetry
INVARIANTS WaitersSound DeliveredOnce
PROPERTY ServedInOrder
