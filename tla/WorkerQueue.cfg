SPECIFICATION Spec
CONSTANTS
  Concurrency = 2
  MaxRetries = 2
  MaxJobs = 4
  Rejecting = {"engine"}
  Fallible = {1, 4}
  Hung = {2}
INVARIANTS
  ConcurrencyBound
  NoLostWakeup
  FifoOrder
  RetriesAreImmediate
PROPERTIES
  AnswersAreFinal
  EveryJobSettles
  ImplementsService
CHECK_DEADLOCK FALSE
