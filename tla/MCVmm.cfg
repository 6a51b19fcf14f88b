CONSTANTS
  Frames = {0, 1, 2, 3, 4, 5, 6, 7, 8, 9, 10}
  Index = {0, 1, 2, 3}
  Half = 2
  ClearedTo = 1
  Pages <- MCPages
  d1 = d1
  Data = {d1, d2}
  Absent = Absent
  BootTables <- MCBootTables
  Leftover <- MCLeftoverZero
SPECIFICATION Spec
INVARIANTS
  TypeOK
  TlbFresh
  KernelAgrees
PROPERTIES
  SpacePromise
