CONSTANTS
  Nodes = {n1}
  Configs <- SampleConfigs
  MaxPresses = 2
  MaxReboots = 1
  NULL = NULL
SPECIFICATION Spec
PROPERTY TwoSyncs
CHECK_DEADLOCK FALSE
