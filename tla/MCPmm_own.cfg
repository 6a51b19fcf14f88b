CONSTANTS
  c1 = c1
  c2 = c2
  c3 = c3
  PageSize = 4
  MaxAddr = 284
  Maps <- MCMaps
  Callers <- MCCallers
  Sizes = {1, 3, 30}
SPECIFICATION Spec
INVARIANTS
  PagesOwn
