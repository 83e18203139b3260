CONSTANTS
  t1 = t1
  t2 = t2
  u1 = u1
  MAIN = MAIN
  Configured = {"rr", "other"}
  Populators <- TwoThreads
  UserNames <- MCUserNames
  MinIns = 1
  MaxIns = 2
  MaxProcesses = 3
SPECIFICATION PatientSpec
CHECK_DEADLOCK FALSE
INVARIANTS
  TypeOK
  IdsIdentify
  ScreenShowsProcess
  NamesClashOnlyAcross
  EnoughInstructions
  SchedulerIsThere
PROPERTIES
  DrawsWhatWasAsked
  PopulationStops
