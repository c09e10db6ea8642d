SPECIFICATION Spec
CONSTANTS
  Rows <- SomeRows
  TextBoxes <- SomeTextBoxes
  Regions <- SomeRegions
  Tiny <- SomeTiny
  Async <- SomeAsync
  MaxBatchImages = 2
  DefaultRows = 1
  MaxFaults = 1
  MaxCalls = 3
  Programs <- SomePrograms
INVARIANTS FailsByItself
CHECK_DEADLOCK FALSE
