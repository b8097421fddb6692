SPECIFICATION Spec
CONSTANTS
  p = p
  q = q
  s = s
  k = k
  NoRequest = NoRequest
  NoKey = NoKey
  NoAbort = NoAbort
  Requests <- MCRequests
  StreamReqs <- MCStreams
  Keys = {k}
  KeyOf <- MCKeyOf
  MultiUser = 3
  MaxTokens = 2
  HeadersMayFail = TRUE
INVARIANT HandledInSequence
CHECK_DEADLOCK FALSE
