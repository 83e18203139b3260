CONSTANTS
  t1 = t1
  t2 = t2
  u1 = u1
  MAIN = MAIN
  Configured = {"rr", "other"}
  Populators <- TwoThreads
  UserNames <- NoNames
  MinIns = 1
  MaxIns = 2
  MaxProcesses = 3
SPECIFICATION Spec
CHECK_DEADLOCK FALSE
INVARIANT UniqueNames
