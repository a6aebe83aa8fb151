CONSTANTS
  Nodes = {n1, n2}
  Configs <- SampleConfigs
  MaxPresses = 2
  MaxReboots = 1
  NULL = NULL
SPECIFICATION FairSpec
PROPERTY SampleServes
CHECK_DEADLOCK FALSE
