SPECIFICATION Spec
CONSTANTS
  n1 = n1
  n2 = n2
  n3 = n3
  n4 = n4
  n0 = n0
  EmptyId = n0
  p1 = p1
  p2 = p2
  NoNode = NoNode
  Blank = Blank
  Node = {n1, n2, n3, n4, n0}
  Person = {p1}
  Workflows <- AllWorkflows
  Handled <- RunnableTypes
  MaxSteps = 3
  MaxResumes = 2
  Edited <- Rewrites
INVARIANTS ActsFollowApproval PauseIsRecorded EachNodeOnce LimitMeansLoop
PROPERTIES ImplementsGate WalkEnds
CHECK_DEADLOCK FALSE
