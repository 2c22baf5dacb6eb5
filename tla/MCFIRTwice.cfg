SPECIFICATION Spec
CONSTANTS
  Addr <- MCAddr
  Data <- MCData
  Junk = "junk"
  Tids = {1, 2, 3, 4}
  FifoDepth = 2
  Workloads <- MCFIRTwice
  CpuMayOvertake = TRUE
INVARIANTS
  ReportsTrue
