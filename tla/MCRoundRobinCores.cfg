CONSTANTS
  p1 = p1
  p2 = p2
  p3 = p3
  None = None
  NoProcess = NoProcess
  Processes <- MCProcesses
  ProcessIds = {1, 2, 3}
  IdOf <- MCIdOf
  Need <- MCNeed
  Ticks <- MCTicks
  MaxMemory = 3
  NumCores = 2
  Quantum = 2
SPECIFICATION Spec
CHECK_DEADLOCK FALSE
INVARIANT AllCoresServe
