SPECIFICATION Spec
CONSTANTS
  Roots <- Names
  Entries <- TwoEntries
  Self = "self"
  Absent = Absent
  Fragment = Fragment
  Requests <- AllRequests
  Layouts <- AllLayouts
  RenameTo <- FreeName
INVARIANTS NothingLost OneFragment DoneMeansDone BystandersKept
CHECK_DEADLOCK FALSE
