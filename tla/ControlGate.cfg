SPECIFICATION FairSpec
CONSTANTS
  Values <- MCValues
  ForcedExport <- MCForcedExport
  Default <- MCDefault
  Keepalive = TRUE
  Verify = TRUE
  Commands <- MCCommands
  Operators = {"operator"}
  Envs <- MCEnvs
  Faults = {"lost", "late", "drift", "crash"}
  MaxChain = 1
  None = None
  Refused = Refused
INVARIANT TypeOK LastWriteTrue StopNeutral FailedHasNoEffect
PROPERTY VerifyHonest HoldsWanted
