CONSTANTS
  Certs = 3
  CertLen <- MCCertLen
  SerialLen <- MCSerialLen
  BufLen = 3
  Failures = {"boot"}
  MaxUpdates = 3
SPECIFICATION Spec
INVARIANT SyncsWithSome
CHECK_DEADLOCK FALSE
