SPECIFICATION Spec
CONSTANTS
  b = b
  x = x
  y = y
  Empty = Empty
  Bos = b
  HasBos = TRUE
  Tokens <- MCTokens
  Sampled <- MCSampled
  Requests <- MCLongRequests
  ContextModes = {"shift"}
  ClientsAbort = TRUE
  DecodeMayFail = FALSE
  NCtx = 9
  NBatch = 2
  MemoryMargin = 1
  MinLength = 2
  Reserve = 3
  PurgeMinLen = 4
  ShortfallBase = 2
  SlackBase = 1
  SmartBase = 1
INVARIANT ShiftMovesBoth
CHECK_DEADLOCK FALSE
