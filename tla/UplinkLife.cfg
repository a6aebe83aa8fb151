CONSTANTS
  BlockSize = 3
  MaxWrite = 3
  PouchLen = 8
  Scheds = {"serial", "preempt"}
  NULL = NULL
SPECIFICATION FairSpec
INVARIANTS TypeOK OneInFlight UploadIsPrefix LastIsFinal
INVARIANTS NoUseAfterFree InFlightIsHeld SuccessLacksOneWrite FullBlocks
PROPERTIES ClosedEnds ForwardsAll
CHECK_DEADLOCK FALSE
