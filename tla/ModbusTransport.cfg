SPECIFICATION FairSpec
CONSTANTS
  MaxCalls = 3
  MaxFrames = 2
  TidMod = 3
  None = None
INVARIANTS TypeOK NoneForgotten Attended OwnAnswer
PROPERTIES Served EverySettles
