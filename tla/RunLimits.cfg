CONSTANTS
  Calls = {c1, c2}
  Hung = {c1}
  RunIds = {r1, r2}
  MaxTokens = 2
  Listeners = {l1}
SPECIFICATION Spec
INVARIANTS
  LimitLostOnlyToOthers
  ReachedByCancelRun
  CancellationIsHeard
PROPERTIES
  LimitIsEnforced
CHECK_DEADLOCK FALSE
