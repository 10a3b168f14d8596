SPECIFICATION Spec
CONSTANTS
  Operator = {"alice", "bob"}
  Version = {"v1", "v2"}
  CompilerOf <- MCCompilerOf
  Commands <- MCCommands
  None = "none"
  MaxFaults = 2
INVARIANTS
  DeployedBeforeVerifying
  VerdictsAreTrue
PROPERTIES
  EveryCommandSucceeds
\* The commands end.
CHECK_DEADLOCK FALSE
