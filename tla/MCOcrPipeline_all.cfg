SPECIFICATION Spec
CONSTANTS
  Rows <- SomeRows
  TextBoxes <- SomeTextBoxes
  Regions <- SomeRegions
  Tiny <- SomeTiny
  Async <- SomeAsync
  MaxBatchImages = 2
  DefaultRows = 1
  MaxFaults = 2
  MaxCalls = 3
  Programs <- SomePrograms
INVARIANTS OwnPixels UploadsFit NoSilentLoss
PROPERTIES CallsEnd
CHECK_DEADLOCK FALSE
