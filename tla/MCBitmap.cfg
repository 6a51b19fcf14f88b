CONSTANTS
  c1 = c1
  c2 = c2
  c3 = c3
  PageSize = 4
  MaxAddr = 284
  Maps <- MCMaps
  Callers <- MCCallers
  Sizes = {1, 3, 30}
  p1 = p1
  p2 = p2
  p3 = p3
  None = None
  Procs <- MCProcs
  MaxPid = 40
SYMMETRY MCSymmetry
SPECIFICATION MCSpec
INVARIANTS
  TypeOK
  AccountsExact
  OwnedBacked
  FirstFit
  NeverFails
  VisibleExact
  NeverGrows
