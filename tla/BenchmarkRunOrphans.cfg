SPECIFICATION SafeSpec
CONSTANTS
  AgentKinds = {"bundled", "custom"}
  Commands = {"tool", "check"}
  VerifierCommands = {"check"}
INVARIANTS
  NoOrphans
CHECK_DEADLOCK FALSE
