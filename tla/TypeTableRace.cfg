SPECIFICATION TypesSpec
CONSTANTS
  Thread = {h1, h2}
  BaseTyp <- Generated
  TargetOf <- PointsTo
  ArrayLen = {2, 3}
  GenArgs = {args}
  args = args
  Pad = {0, 1}
  Hash <- HashApart
  RowOf <- RowShared
  MaxCalls = 1
  NoTyp <- NoneTyp
INVARIANT
  ReturnedTypeFound
