SPECIFICATION Spec
CONSTANTS
  Ascii <- Letter
  Marks <- NoMarks
  Newline = "n"
  MaxHistory = 1
  Insertions <- Pastes
  Documents <- TwoLines
  ServerSync = "incremental"
  MaxPendingLsp = 2
  MaxLen = 4
  MaxEdits = 3
INVARIANTS NoPanic LspMirror
PROPERTIES ImplementsTimeline CursorFollowsInsertion
CHECK_DEADLOCK FALSE
