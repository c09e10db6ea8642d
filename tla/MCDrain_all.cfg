CONSTANTS
  r1 = r1
  r2 = r2
  c1 = c1
  Requests <- TwoRequests
  Rpcs <- OneRpc
  NumThreads = 2
  MaxDepth = 1
  NoRequest = NoRequest
  Hangs <- NoHang

SPECIFICATION FairSpec

INVARIANTS
  Safety

PROPERTIES
  ShutdownEnds
