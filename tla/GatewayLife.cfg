CONSTANTS
  Nodes = {n1, n2, n3}
  Configs <- MCConfigs
  MaxPresses = 2
  MaxReboots = 1
  NULL = NULL
SPECIFICATION FairSpec
INVARIANTS TypeOK OneThingAtATime WindowIsTimed OneStrangerPerWindow
PROPERTIES NewBondsFromWindow ScanningResumes WindowCloses
PROPERTIES GatewayServes SyncsStop
CHECK_DEADLOCK FALSE
