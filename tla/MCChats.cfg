CONSTANTS
  free = free k1 = k1 k2 = k2 m1 = m1
  Free = free
  Callers <- MCCallers
  Messages <- MCMessages
  Rows <- MCRows
  Defaults <- MCDefaults
  Levels = {"boss", "auto", "confirm", "unattended", "ignored"}
  MaxCalls = 3
SPECIFICATION Spec
SYMMETRY MCSymmetry
CHECK_DEADLOCK FALSE
INVARIANTS ChatsSafe ClaimHonoured
PROPERTIES ServedIsNotSwept
