CONSTANTS
  Tasks <- MCTasks
  Features = {"solved", "tests", "file", "suite", "host"}
  MaxUpsets = 1
  Outside = {"host"}
  Effects <- MCEffects
  Failing <- MCFailing
SPECIFICATION Spec
INVARIANTS
  VerdictIsReference
  NoOpRunDecides
  FileChecksNeverPassRuns
  AuditIsSound
CHECK_DEADLOCK FALSE
