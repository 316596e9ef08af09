CONSTANTS
  k1 = k1 k2 = k2
  Callers <- MCCallers
  MaxFailures = 2
  MaxFaults = 2
  MaxCalls = 2
  MaxReacts = 1
SPECIFICATION FairSpec
CHECK_DEADLOCK FALSE
INVARIANTS LinkSafe
PROPERTIES ResetOnlyWhenStable ErrorStays OnlyOwnerLifts ComesBack
