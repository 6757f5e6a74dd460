SPECIFICATION FairSpec
CONSTANTS
  Sources = {"fixed", "dv"}
  Limits = {3, 6}
  Caps = {None, 3, 6}
  None = None
  Undef = Undef
  MaxChain = 2
  Faults = {"fail", "drift", "restart"}
INVARIANTS TypeOK AppliedTrue Settled
PROPERTY CapHeals
