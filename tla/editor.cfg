SPECIFICATION Spec
CONSTANTS
  a = a
  b = b
  p = p
  q = q
  r = r
  NoFile = NoFile
  Absent = Absent
  Texts <- TwoTexts
  Multiline <- Lines
  Torn = a
  MaxVersions = 3
  Files <- ThreeFiles
  Opened = p
  SaveAsTo <- Elsewhere
  LineEndings <- Both
  ReadOnly <- Locked
  TornWrites = TRUE
  Deletes <- Spare
  Interrupts = FALSE
  MaxTime = 4
INVARIANTS SafeToClose UnsavedIsModified FlagMeansOther
