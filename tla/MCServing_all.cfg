SPECIFICATION Spec
CONSTANTS
  r1 = r1
  r2 = r2
  r3 = r3
  c1 = c1
  c2 = c2
  t1 = t1
  t2 = t2
  t3 = t3
  p1 = p1
  Parts <- AllParts
  Daemons = 2
  Renders <- ThreeRenders
  Hints <- Zero
  MaxFaults = 1
  Checkers <- TwoCheckers
  Ttl = 2
  MaxClock = 5
  PoolSize = 2
  Configured <- Deployments
  Clients <- ThreeClients
  Probes <- OneProbe
  Asks <- Demands
  Pages <- OnePage
  Images <- SomeImages
  Documents <- SomeDocuments
  Dims <- SomeDims
  Regions <- SomeRegions
INVARIANTS PoolKept FreshVerdict ServesWhatItOffers TransportsAgree NothingAskedIsLost BuildsAgree
PROPERTIES WaitsEnd
CHECK_DEADLOCK FALSE
