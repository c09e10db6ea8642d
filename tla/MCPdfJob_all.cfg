CONSTANTS
  NumPages = 2
  HasTimeout = TRUE

SPECIFICATION FairSpec

INVARIANTS
  Safety

PROPERTIES
  JobEnds
