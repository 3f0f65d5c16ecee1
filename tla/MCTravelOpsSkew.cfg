SPECIFICATION Spec
CONSTANTS
  c1 = c1
  c2 = c2
  c3 = c3
  p1 = p1
  p2 = p2
  b1 = b1
  b2 = b2
  r1 = r1
  r2 = r2
  Blank = Blank
  NoRow = NoRow
  Booking = {b1}
  Comm = {c1, c2}
  Person = {p1}
  Request = {r1, r2}
  MaxCalls = 3
  MaxDeaths = 0
  MaxRedeploys = 0
INVARIANTS ClosedOnceDecided
CHECK_DEADLOCK FALSE
