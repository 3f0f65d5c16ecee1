SPECIFICATION Spec
CONSTANTS
  t1 = t1
  t2 = t2
  c1 = c1
  c2 = c2
  c3 = c3
  c4 = c4
  r1 = r1
  r2 = r2
  s1 = s1
  s2 = s2
  Blank = Blank
  NoRow = NoRow
  Request = {r1, r2}
  Sop = {s1, s2}
  Title = {t1, t2}
  Content = {c1, c3, c4}
  TitleOf <- MCTitleOf
  TopK = 2
  MaxVersion = 3
  MaxCalls = 5
SYMMETRY MCSymmetry
INVARIANT ReadersAreCurrent
PROPERTY ImplementsSerial
CHECK_DEADLOCK FALSE
