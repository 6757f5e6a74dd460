SPECIFICATION DvSpec
CONSTANTS
  Sources = {"fixed", "dv"}
  Limits = {3, 6}
  Caps = {None, 6}
  None = None
  Undef = Undef
  MaxChain = 2
  Faults = {"fail"}
  Percents = {0, 30, 60, 100}
  RefW = 10
  Lease = 2
  Never = Never
INVARIANT FullLiftsLimit
