SPECIFICATION Spec
CONSTANTS
  ProjectionMaxBins = 64
  MaxXyCutDepth = 64
  MaxHeaderRows = 5
  MaxGridColumns = 4096
  Rounds = 8
  LabelClasses <- KnownLabels
  ScoreThreshold = 30
  PageSizes <- SmallPages
INVARIANT LinesPlaced
INVARIANT BoxesPlaced
INVARIANT RegionsRouted
INVARIANT DroppedForAnInnerBox
INVARIANT TableRowsKept
INVARIANT LargerIsHigher
INVARIANT TextWritten
CHECK_DEADLOCK FALSE
