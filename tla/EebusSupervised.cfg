SPECIFICATION Spec
CONSTANTS
  Helpers = {h1, h2, h3}
  Configs <- MCConfigs
  Faults = {"slow"}
  None = None
INVARIANT AlwaysSupervised
