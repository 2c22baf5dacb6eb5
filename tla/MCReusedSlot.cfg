SPECIFICATION ObservedSpec
CONSTANTS
  Addr <- MCAddr
  Data <- MCData
  Junk = "junk"
  Tids = {1, 2, 3, 4}
  FifoDepth = 2
  Workloads <- MCWorkloads
  CpuMayOvertake = FALSE
INVARIANTS
  ResultsExact
  WriteBehindRead
PROPERTIES
  ActsInOrder
  Termination
