CONSTANTS
  SlLog2 = 2
  FlIndexMax = 8
  FirstPool <- Boot
  MorePools <- MCPools
  Requests = {0, 20, 70, 230, 250}
  ReallocRequests = {20, 90, 250}
  Aligns = {32, 64}
CHECK_DEADLOCK FALSE
SPECIFICATION Spec
INVARIANT RefusedUntouched
