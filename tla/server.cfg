SPECIFICATION Spec
CONSTANTS
  p = p
  q = q
  s = s
  k = k
  NoRequest = NoRequest
  NoKey = NoKey
  NoAbort = NoAbort
  Requests <- MCRequests
  StreamReqs <- MCStreams
  Keys = {k}
  KeyOf <- MCKeyOf
  MultiUser = 2
  MaxTokens = 2
  HeadersMayFail = FALSE
INVARIANTS
  TypeOK
  LockCoversCall
  AnswersAreOwn
  StreamIsComplete
PROPERTY ServiceSpec
CHECK_DEADLOCK FALSE
