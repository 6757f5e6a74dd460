SPECIFICATION DvFairSpec
CONSTANTS
  Sources = {"fixed", "dv"}
  Limits = {3, 6}
  Caps = {None, 6}
  None = None
  Undef = Undef
  MaxChain = 2
  Faults = {"fail", "restart", "config"}
  Percents = {0, 30, 100}
  RefW = 10
  Lease = 1
  Never = Never
INVARIANTS DvTypeOK Curtailed NothingLeft
PROPERTIES LeaseHeld LeaseEnds PartialObeyed
