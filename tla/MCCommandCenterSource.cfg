SPECIFICATION Spec
CONSTANTS
  r1 = r1
  r2 = r2
  Nothing = Nothing
  NoDate = NoDate
  Request = {r1, r2}
  Rows <- MCRows
  Claim <- MCClaim
  WaitingLimit = 1
  UrgentLimit = 1
  MaxCalls = 3
  MaxEvents = 1
INVARIANT NeverTakenDown
SYMMETRY Symmetric
CHECK_DEADLOCK FALSE
