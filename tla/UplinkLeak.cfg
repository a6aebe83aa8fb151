CONSTANTS
  BlockSize = 2
  MaxWrite = 2
  PouchLen = 4
  Scheds = {"serial"}
  NULL = NULL
SPECIFICATION FairSpec
PROPERTY DisconnectFrees
CHECK_DEADLOCK FALSE
