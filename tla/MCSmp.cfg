CONSTANTS
  NCores = 3
  Bsp = 0
  SleepLen = 3
SPECIFICATION FairSpec
INVARIANTS
  TypeOK
  LocksExclusive
  CalibrationBounded
PROPERTIES
  ApParks
  BspKeepsTicking
