CONSTANTS
  t1 = t1
  t2 = t2
  t3 = t3
  Tasks <- TwoTasks
  NumWorkers = 1
  NoTask = NoTask
  MaxQueue = 1
  RequestTimeout = TRUE
  RecycleEnabled = TRUE
  Wedged <- OneWedge

SPECIFICATION FairSpec

CHECK_DEADLOCK FALSE

INVARIANTS
  Safety

PROPERTIES
  Ends
  ImplementsResolver
