CONSTANTS
  NumMsgs = 2
  MaxSweeps = 2
  MaxCalls = 1
  MaxFaults = 1
SPECIFICATION Spec
CHECK_DEADLOCK FALSE
INVARIANTS IdentitySafe
PROPERTIES NumberWins
