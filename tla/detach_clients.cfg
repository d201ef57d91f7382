SPECIFICATION Spec
CONSTANTS
  a = a
  b = b
  d = d
  Clients <- TwoClients
  Requests <- OneRequest
  Capacity = 2
  MaxListings = 1
  Crashes = TRUE
  NoClient = NoClient
INVARIANT OneClient
CHECK_DEADLOCK FALSE
