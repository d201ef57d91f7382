SPECIFICATION FairSpec
CONSTANTS
  MaxOps = 4
  MaxConcurrent = 1
  MaxStandalone = 1
  Batches <- AllBatches
INVARIANTS DeletedIsCopiedUncrossed CountedIsDone HandedInOrder AnswerIsForSource AllCounted
PROPERTIES BatchEnds
CHECK_DEADLOCK FALSE
