SPECIFICATION Spec
CONSTANTS
  FlagSteps <- MCFlagSteps
  LimitPoint = "dvFeedInLimitW"
  Customer = {"own"}
  Block = "block"
  Default = "default"
  Legacy = "legacy"
  None = "none"
  Callers = {"eval"}
INVARIANT NoBlockBehindCache

