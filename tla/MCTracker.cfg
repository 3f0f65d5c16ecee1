SPECIFICATION Spec
CONSTANTS
  t1 = t1
  t2 = t2
  t3 = t3
  r1 = r1
  r2 = r2
  a1 = a1
  a2 = a2
  a3 = a3
  green = green
  red = red
  NoRow = NoRow
  None = None
  Request = {r1, r2}
  Task = {t1, t2, t3}
  Answer = {a1, a2, a3}
  Health = {green, red}
  HealthOf <- MCHealthOf
  MaxDepth = 4
  MaxCalls = 4
INVARIANTS NoCycle BlockedByWhatIsAbove HealthIsExplained
PROPERTIES WorkIsKept
SYMMETRY Same
CHECK_DEADLOCK FALSE
