SPECIFICATION ZApartSpec
CONSTANTS
  FlagSteps <- MCSteps
  LimitPoint = "dvFeedInLimitW"
  OutPoint = "outWRte"
  Customer = {"own"}
  Block = "block"
  Default = "default"
  Legacy = "legacy"
  None = "none"
  Callers = {"eval", "dv", "api"}
INVARIANTS ZTypeOK CustomersBack
PROPERTIES GapOnlyByEntering ThrottleFollows
