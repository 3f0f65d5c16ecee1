SPECIFICATION PartsSpec
CONSTANTS
  n1 = n1
  n2 = n2
  n3 = n3
  n4 = n4
  n0 = n0
  EmptyId = n0
  q1 = q1
  q2 = q2
  v1 = v1
  v2 = v2
  k1 = k1
  k2 = k2
  k3 = k3
  NoNode = NoNode
  Node = {n1, n2, n3, n4, n0}
  Workflows <- SomeWorkflows
  Missing = Missing
  MaxMetrics = 2
  CategoryLimit = 25
  Tables <- MCTables
  Periods = {"daily", "weekly", "monthly"}
  Claims = {"m2", "m9"}
  Reader = {q1, q2}
  Analyses <- MCAnalyses
  Limit = 2
  MaxExplains = 4
  Request = {v1, v2}
  Demo = {"refunds"}
  Own = "own"
  Nowhere = 0
  MaxProjects = 3
  MaxTasks = 2
  MaxCalls = 7
  Field = {"purpose"}
  Line = {"a", "b", ""}
  Versions <- MCVersions
  Blank = ""
  Client = {k1, k2, k3}
  Settings <- MCSettings
  PoolSize = 1
  MaxOverflow = 1
  MaxServes = 3
  MaxOutages = 2
SYMMETRY Symmetric
INVARIANTS LoopIsExact GuardIsExact ReportIsOfItsPeriods AnomalyNeedsEight CacheServes SeededOnce AdviceLeadsSomewhere DiffReplays SteadyDatabaseServes
CHECK_DEADLOCK FALSE
