SPECIFICATION Spec
CONSTANTS
  NumBlocks = 8
  W = 8
  H = 4
  MaxComponents = 2
  ExtractSlots = 1
  ThreadBlock = 8
  BoxThreshold = 60
  UnclipRatio = 150
  MinExpand = 200
  MaxExpand = 2400
  DetMaxSideMin = 32
  DetMaxSideMax = 160
  DetBatch = 2
  MaxCandidates = 2
  MaxBatch = 2
  MaxSlots = 2
  MaxCalls = 2
  Profiles <- SomeProfiles
  Calls <- SomeCalls
  RecHeight = 8
  MinRecWidth = 6
  MaxRecWidth = 80
  WidthBuckets = {16, 40, 80}
  Lanes = 2
  GridN = 4
  BandHeight = 8
  MaxTokens = 14
  MaxRunRepeat = 3
  MaxTableCells = 64
INVARIANTS
  BoxesFound
  PagesInPlace
  EveryCropItsOwn
  LinesDecoded
  TablesHoldTheirLines
CHECK_DEADLOCK FALSE
