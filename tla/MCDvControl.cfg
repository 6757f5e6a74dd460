SPECIFICATION ApartSpec
CONSTANTS
  FlagSteps <- MCFlagSteps
  LimitPoint = "dvFeedInLimitW"
  Customer = {"own"}
  Block = "block"
  Default = "default"
  Legacy = "legacy"
  None = "none"
  Callers = {"eval", "dv", "api", "limit"}
INVARIANTS TypeOK BlockBacked BackupGenuine
PROPERTIES ReleaseComplete EventuallyReleased
