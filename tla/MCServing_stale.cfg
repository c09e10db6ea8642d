SPECIFICATION Spec
CONSTANTS
  r1 = r1
  r2 = r2
  r3 = r3
  c1 = c1
  c2 = c2
  t1 = t1
  t2 = t2
  t3 = t3
  p1 = p1
  Parts <- RendersOnly
  Daemons = 1
  Renders <- TwoRenders
  Hints <- Zero
  MaxFaults = 0
  Checkers <- TwoCheckers
  Ttl = 2
  MaxClock = 5
  PoolSize = 2
  Configured <- Deployments
  Clients <- ThreeClients
  Probes <- OneProbe
  Asks <- Demands
  Pages <- OnePage
  Images <- SomeImages
  Documents <- SomeDocuments
  Dims <- SomeDims
  Regions <- SomeRegions
INVARIANT ReplyIsOwn
CHECK_DEADLOCK FALSE
