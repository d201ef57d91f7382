SPECIFICATION Spec
CONSTANTS
  MaxConcurrent = 2
  MaxQueueSize = 2
  MaxOps = 3
  MaxEvents = 0
  Requests <- MixedRequests
  Resolutions <- SomeAnswers
INVARIANTS ThreadsBounded OnePlace QueueInOrder OneQuestionPerConflict
PROPERTIES ImplementsService
