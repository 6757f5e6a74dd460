SPECIFICATION FairSpec
CONSTANTS
  Helpers = {h1, h2, h3}
  Configs <- MCConfigs
  Faults = {"crash", "cert", "spawn", "slow"}
  None = None
INVARIANT TypeOK Supervised
PROPERTY FollowsSettings
