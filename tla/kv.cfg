SPECIFICATION MCSpec
CONSTANTS
  Empty = Empty
  NCtx = 4
  Size = 5
  Pad = 2
  MaxMoves = 1
  Tokens = {a}
  s0 = s0
  s1 = s1
  SeqIds = {s0, s1}
  MaxBatch = 2
  Deltas <- MCDeltas
  Divisors = {2}
INVARIANTS
  TypeOK
  UsedIsExact
  CellsConsistent
  HolesCanBeFilled
PROPERTIES
  SlotIsFound
  ActsAsPositions
  DecodeReturns
  Implements
ACTION_CONSTRAINT MCScope
