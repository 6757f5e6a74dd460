SPECIFICATION Spec
CONSTANTS
  Limits = {"w"}
  Own = "own"
  OwnDur = 3
  Durations = {2}
  LimitTimes = {1}
  Timeout = 2
  Forever = Forever
  None = None
  MaxAge = 3
  Faults = {"restart"}
PROPERTY FailsafeOutlasts
