SPECIFICATION Spec
CONSTANTS
  Requests = {1, 2}
  Scenarios <- SomeScenarios
  MaxBatchImages = 4
  ChunkImages = 2
  DimCap = 4
  PixelCap = 8
  PixelBudget = 5
  Pipelines = 2
  RpcWorkers = 3
  Permits = 1
  MaxFaults = 1
INVARIANTS SlotsAnswered NeighboursSpared BudgetHeld WorkersBounded
PROPERTIES BatchesEnd
CHECK_DEADLOCK FALSE
