SPECIFICATION Spec
CONSTANTS
  AgentKinds = {"bundled", "custom"}
  Commands = {"tool", "check"}
  VerifierCommands = {"check"}
INVARIANTS
  VerdictMatchesStatus
  NoVerdictWithoutAgent
  CleanedUp
  ResultsAreConclusive
PROPERTIES
  StatusMovesForward
  RunReturns
CHECK_DEADLOCK FALSE
