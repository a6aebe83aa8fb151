CONSTANTS
  NumBlocks = 2
  MaxBlock = 2
  PouchLen = 5
  PacketSize = 3
  Window = 2
  Scheds = {"serial", "preempt"}
  NULL = NULL
SPECIFICATION FairSpec
INVARIANTS TypeOK PoolConserved InOrder FinalIsEnd NoLostWakeup
INVARIANTS NoUseAfterFree KickFindsSender
PROPERTIES Delivered DeliversAll
CHECK_DEADLOCK FALSE
