SPECIFICATION FairSpec
CONSTANTS
  Limits = {"w"}
  Own = "own"
  OwnDur = 2
  Durations = {1}
  LimitTimes = {1}
  Timeout = 1
  Forever = Forever
  None = None
  MaxAge = 3
  Faults = {"save", "exit", "restart"}
INVARIANTS TypeOK NoBoxNoLimit SilenceIsFailsafe FileTrue
PROPERTIES FailsafeHeld LimitsEnd
