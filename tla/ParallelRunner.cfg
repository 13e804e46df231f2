SPECIFICATION Spec
CONSTANTS
  Total = 5
  Concurrency = 3
  Hung = {2}
  Fatal = {3}
  Throwing = {4}
INVARIANTS
  EachRunOnce
  NoIdleWorker
  CounterAccounts
PROPERTIES
  SuiteProgress
CHECK_DEADLOCK FALSE
