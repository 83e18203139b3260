SYMMETRY Symmetry
CONSTANTS
  p1 = p1
  p2 = p2
  p3 = p3
  p4 = p4
  NoProcess = NoProcess
  ProcessIds <- MCProcessIds
  Needs <- MCNeeds
  MaxMemory = 6
SPECIFICATION Spec
INVARIANT BlocksWellFormed
PROPERTY OthersKeepTheirBlock
PROPERTY ImplementsAddressSpace
