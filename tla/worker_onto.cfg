SPECIFICATION Spec
CONSTANTS
  Roots <- Names
  Entries <- TwoEntries
  Self = "self"
  Absent = Absent
  Fragment = Fragment
  Requests <- OntoItself
  Layouts <- AllLayouts
  RenameTo <- FreeName
INVARIANTS SourcesKept
CHECK_DEADLOCK FALSE
