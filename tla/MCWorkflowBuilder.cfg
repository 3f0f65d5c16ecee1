SPECIFICATION BuilderSpec
CONSTANTS
  n1 = n1
  n2 = n2
  n3 = n3
  n0 = n0
  EmptyId = n0
  p1 = p1
  p2 = p2
  NoNode = NoNode
  NoRow = NoRow
  e1 = e1
  r1 = r1
  r2 = r2
  Blank = Blank
  Node = {n1, n2, n3, n0}
  Person = {p1}
  Workflows <- SomeWorkflows
  Handled <- RunnableTypes
  MaxSteps = 4
  Edited <- SomeWorkflows
  MaxResumes = 1
  Exe = {e1}
  Request = {r1, r2}
  MaxCalls = 3
  MaxDeaths = 1
INVARIANTS KeptActsApproved SendsAreLogged
PROPERTIES UncontestedIsFinal
CHECK_DEADLOCK FALSE
