SPECIFICATION Spec
CONSTANTS
  t1 = t1
  t2 = t2
  p1 = p1
  p2 = p2
  r1 = r1
  r2 = r2
  a1 = a1
  a2 = a2
  a3 = a3
  k1 = k1
  k2 = k2
  NoRow = NoRow
  None = None
  Request = {r1, r2}
  Person = {p1}
  Text = {t1, t2}
  Answer = {a1, a2, a3}
  Category = {k1, k2}
  CategoryOf <- MCCategoryOf
  Seed = k1
  MaxCalls = 5
  MaxDeaths = 1
INVARIANTS DecisionIsOfItsTextInTurn SentOnce ReadingIsWhole
PROPERTIES ApprovedIsFinal
CHECK_DEADLOCK FALSE
