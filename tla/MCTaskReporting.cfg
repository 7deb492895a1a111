SPECIFICATION FairSpec
CONSTANTS
  w1 = w1
  w2 = w2
  g = g
  s = s
  m = m
  Workers <- MCWorkers
  Tasks <- MCTasks
  Kind <- MCKind
  Configured = TRUE
CHECK_DEADLOCK FALSE
INVARIANTS
  TypeOK
  ReportsInOrder
  ResolvedIsReported
  LeaksAreSwallowedErrors
PROPERTIES
  OverIsFinal
  TasksGetPastTheBrowser
