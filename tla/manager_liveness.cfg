SPECIFICATION AnsweredSpec
CONSTANTS
  MaxConcurrent = 1
  MaxQueueSize = 0
  MaxOps = 2
  MaxEvents = 1
  Requests <- AskingRequests
  Resolutions <- AnswerKinds
INVARIANTS NothingLost
PROPERTIES AcceptedEnds CancelEnds
