SPECIFICATION Spec
CONSTANTS
  x = x
  a = a
  b = b
  Lead = Lead
  Cont = Cont
  Space = Space
  Newline = Newline
  Bytes <- MCBytes
  Tokens <- MCTokens
  StopSequences <- MCStopSequences
  MaxTokens = 4
CHECK_DEADLOCK FALSE
INVARIANTS
  OnlySplitIsLost
  NothingIsLost
