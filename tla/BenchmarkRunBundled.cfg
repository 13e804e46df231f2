SPECIFICATION SafeSpec
CONSTANTS
  AgentKinds = {"bundled", "custom"}
  Commands = {"tool", "check"}
  VerifierCommands = {"check"}
INVARIANTS
  BundledAgentsReport
CHECK_DEADLOCK FALSE
