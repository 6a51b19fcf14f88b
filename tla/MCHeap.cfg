CONSTANTS
  SlLog2 = 2
  FlIndexMax = 8
  FirstPool <- Boot
  MorePools <- MCPools
  Requests = {0, 20, 70, 230, 250}
  ReallocRequests = {40, 90}
  Aligns = {32, 64}
CHECK_DEADLOCK FALSE
SPECIFICATION Spec
INVARIANTS
  ChecksPass
  GoodFit
  AllFreedWhole
PROPERTIES
  ArenaPromise
