SPECIFICATION Spec
CONSTANTS
  a = a
  b = b
  c = c
  Tokens <- MCTokens
  MaxLen = 8
  Settings <- MCSettings
INVARIANTS
  PenaltiesAreExact
  ScanIsLinear
CHECK_DEADLOCK FALSE
