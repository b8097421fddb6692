SPECIFICATION FairSpec
CONSTANTS
  p = p
  q = q
  s = s
  k = k
  NoRequest = NoRequest
  NoKey = NoKey
  NoAbort = NoAbort
  Requests <- MCPair
  StreamReqs <- MCStreams
  Keys = {k}
  KeyOf <- MCPairKeyOf
  MultiUser = 2
  MaxTokens = 2
  HeadersMayFail = TRUE
INVARIANT LockCoversHandler
PROPERTIES
  ServedEventually
  CallsEnd
CHECK_DEADLOCK FALSE
