CONSTANTS
  t1 = t1
  Tokens <- OneToken
  MaxEdits = 2
  MaxRequests = 1
  MaxPushes = 1
SPECIFICATION LspSpec
INVARIANT MirrorKept
PROPERTIES
  RequestsEnd
  LoadingEnds
  ShutdownEnds
CHECK_DEADLOCK FALSE
