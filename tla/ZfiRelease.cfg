SPECIFICATION ZSpec
CONSTANTS
  FlagSteps <- MCSteps
  LimitPoint = "dvFeedInLimitW"
  OutPoint = "outWRte"
  Customer = {"own"}
  Block = "block"
  Default = "default"
  Legacy = "legacy"
  None = "none"
  Callers = {"eval"}
INVARIANT ReleaseRestores
