CONSTANTS
  Certs = 3
  CertLen <- MCCertLen
  SerialLen <- MCSerialLen
  BufLen = 3
  Failures = {}
  MaxUpdates = 3
SPECIFICATION Spec
INVARIANT TransferIsNewest
CHECK_DEADLOCK FALSE
