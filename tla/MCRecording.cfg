SPECIFICATION Spec
CONSTANTS
  i1 = i1
  i2 = i2
  v1 = v1
  m1 = m1
  m2 = m2
  m3 = m3
  Request = {i1, i2, v1}
  Model = {m1, m2, m3}
  Default = m1
  Embedding = m3
  Fallbacks <- MCFallbacks
  MaxRetries = 1
  Allowance = 1
  Items <- MCItems
  MaxDeaths = 1
INVARIANTS FallsBackOnlyWhenSpent DrawsAreBounded
PROPERTIES NothingRecordedIsLost RequestsEnd
