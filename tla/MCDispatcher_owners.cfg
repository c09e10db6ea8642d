CONSTANTS
  t1 = t1
  t2 = t2
  t3 = t3
  Tasks <- ThreeTasks
  NumWorkers = 2
  NoTask = NoTask
  MaxQueue = 2
  RequestTimeout = FALSE
  RecycleEnabled = TRUE
  Wedged <- NoWedge

SPECIFICATION FairSpec

INVARIANTS
  OneOwner

PROPERTIES
  EveryCallReturns
