SPECIFICATION ObservedSpec
CONSTANTS
  Addr <- MCAddr
  Data <- MCData
  Junk = "junk"
  Tids = {1, 2, 3, 4}
  FifoDepth = 3
  Workloads <- MCWorkloads
  CpuMayOvertake = TRUE
INVARIANTS
  TypeOK
  NoLostStart
  DoneIsFresh
  ReportsTrue
  ResultsExact
PROPERTIES
  ActsInOrder
  DescriptorStable
  Termination
