CONSTANTS
  x = x
  y = y
  Variables <- MCVariables
  Literals = {65535}
  SleepCycles = {0, 258}
  MaxInstructions = 3
SPECIFICATION FairSpec
CHECK_DEADLOCK FALSE
INVARIANTS
  TypeOK
  TableIsExact
  LogIsExact
PROPERTIES
  EveryCallCounts
  ImplementsTask
