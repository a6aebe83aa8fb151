CONSTANTS
  Tables <- MCTables
  MaxSessions = 2
  Late = TRUE
SPECIFICATION Spec
PROPERTY SessionsApart
CHECK_DEADLOCK FALSE
