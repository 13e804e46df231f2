SPECIFICATION Spec
CONSTANTS
  AgentKinds = {"bundled", "custom"}
  Commands = {"tool", "check"}
  VerifierCommands = {"check"}
PROPERTIES
  TimeoutSettles
CHECK_DEADLOCK FALSE
