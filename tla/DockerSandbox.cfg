SPECIFICATION Spec
CONSTANTS
  Commands = {c1, c2}
  MaxResets = 2
CHECK_DEADLOCK FALSE
INVARIANTS
  RunningMeansUp
  HealthyCleanUp
PROPERTIES
  FallbackIsForGood
  CallsSettle
