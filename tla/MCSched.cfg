CONSTANTS
  p1 = p1
  p2 = p2
  p3 = p3
  idle = idle
  test_func = test_func
  t3 = t3
  t4 = t4
  Boot = Boot
  NULL = NULL
  Processes <- MCProcesses
  Threads <- MCThreads
  Script <- MCScript
  NCores = 2
  MinQuantum = 9
  MaxQuantum = 11
  MaxPrint = 3
SPECIFICATION FairSpec
INVARIANTS
  TypeOK
  QueuesAgree
  NeverDerailed
  OwnContexts
  PrintExclusive
  TickOutstanding
  AbortsOnlyIdle
PROPERTIES
  EveryThreadPrints
CHECK_DEADLOCK FALSE
