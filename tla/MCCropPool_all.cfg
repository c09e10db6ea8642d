CONSTANTS
  c1 = c1
  c2 = c2
  Crops <- TwoCrops
  MaxConcurrency = 1
  MaxRetries = 2
  HasWorker = TRUE

SPECIFICATION FairSpec

INVARIANTS
  Safety

PROPERTIES
  ShutsDown
  ImplementsResolver
