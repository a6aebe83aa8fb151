CONSTANTS
  Tables <- MCTables
  MaxSessions = 2
  Late = FALSE
SPECIFICATION FairSpec
INVARIANTS TypeOK SubscribesToOwn CertsFirst PacketizerIsOwn
PROPERTIES NothingLost SessionEnds
CHECK_DEADLOCK FALSE
