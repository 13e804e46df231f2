CONSTANTS
  CustomCalls = {"a", "b"}
  MaxToolCalls = {2, 4}
  MaxIdentical = 3
  MaxMade = 5
  MaxInFlight = 2
  EarlierResults <- MCEarlierResults
  Claims <- MCClaims
  Scores = {0, 850, 950}
  Costs = {0, 30000}
  Durations = {100}
  MinScore = 900
  MaxSteps = 10
SPECIFICATION Spec
INVARIANTS
  CallLimit
  LoopIsBroken
  CountersAgree
  AuditTrail
  ReplayKeepsOrder
  RecordHasTrajectory
  ExportHoldsAllOrNone
  NoVerdictLoses
CHECK_DEADLOCK FALSE
