CONSTANTS
  NumBlocks = 2
  MaxBlock = 2
  PouchLen = 3
  PacketSize = 2
  Window = 2
  Scheds = {"serial"}
  NULL = NULL
SPECIFICATION FairSpec
PROPERTY AbortFrees
CHECK_DEADLOCK FALSE
