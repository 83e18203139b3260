CONSTANTS
  p1 = p1
  p2 = p2
  p3 = p3
  None = None
  Processes <- MCProcesses
  IdOf <- MCIdOf
  Ticks <- MCTicks
  NumCores = 2
SPECIFICATION ReportingSpec
CHECK_DEADLOCK FALSE
INVARIANTS
  TypeOK
  OneProcessPerCore
  NoCoreIsLost
  NoneLost
  UsedCoresAreTaken
  ListIsComplete
PROPERTIES
  FirstComeFirstServed
  ImplementsScheduling
  AddedFinishes
  StopReturnsIfAllAwake
