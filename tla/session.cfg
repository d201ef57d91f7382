SPECIFICATION Spec
CONSTANTS
  outer = outer
  inner = inner
  None = None
  Torn = Torn
  Projects <- MCProjects
  Inside <- MCInside
  Removable <- MCRemovable
  Cut <- MCCut
  n1 = n1  n2 = n2  n3 = n3
  Names <- MCNames
  MaxEditors = 2
  MaxShared = 1
SYMMETRY AnyNames
INVARIANTS
  SavedSurvives
  OwnFile
