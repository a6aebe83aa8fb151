CONSTANTS
  Certs = 3
  CertLen <- MCCertLen
  SerialLen <- MCSerialLen
  BufLen = 3
  Failures = {"boot", "before", "after"}
  MaxUpdates = 3
SPECIFICATION FairSpec
INVARIANTS TypeOK SyncHasCert NothingLeftBehind
PROPERTIES NewestIsWhole TransferEnds
CHECK_DEADLOCK FALSE
