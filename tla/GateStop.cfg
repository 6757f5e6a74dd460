SPECIFICATION Spec
CONSTANTS
  Values <- MCValues
  ForcedExport <- MCForcedExport
  Default <- MCDefault
  Keepalive = TRUE
  Verify = TRUE
  Commands <- MCCommands
  Operators = {"operator"}
  Envs <- MCEnvs
  Faults = {}
  MaxChain = 1
  None = None
  Refused = Refused
INVARIANT StopNeutralises
