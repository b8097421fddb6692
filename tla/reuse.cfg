SPECIFICATION FairSpec
CONSTANTS
  b = b
  x = x
  y = y
  Empty = Empty
  Bos = b
  HasBos = TRUE
  Tokens <- MCTokens
  Sampled <- MCSampled
  Requests <- MCRequests
  ContextModes = {"plain", "shift", "smart"}
  ClientsAbort = TRUE
  DecodeMayFail = TRUE
  NCtx = 9
  NBatch = 2
  MemoryMargin = 1
  MinLength = 2
  Reserve = 3
  PurgeMinLen = 4
  ShortfallBase = 2
  SlackBase = 1
  SmartBase = 1
INVARIANTS
  TypeOK
  NoCellBeyondPast
  CellsAgreeWithContext
  FitsContext
  SamplesFreshLogits
  BatchIsContextTail
  ContextIsPrompt
  EndOfPromptIsEvaluated
PROPERTIES
  CountIsExact
  GenerationEnds
ACTION_CONSTRAINT MCScope
CHECK_DEADLOCK FALSE
