SPECIFICATION FairSpec
CONSTANTS
  a = a
  b = b
  d = d
  Clients <- TwoClients
  Requests <- NoRequest
  Capacity = 1
  MaxListings = 0
  Crashes = FALSE
  NoClient = NoClient
PROPERTIES NoticesGone ReleasedLearns AttachAnswered SessionEnds
CHECK_DEADLOCK FALSE
