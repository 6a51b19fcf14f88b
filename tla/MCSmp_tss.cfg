CONSTANTS
  NCores = 3
  Bsp = 0
  SleepLen = 2
SPECIFICATION Spec
INVARIANTS
  EveryTssLoads
