SPECIFICATION AbortedSpec
CONSTANTS
  Addr <- MCAddr
  Data <- MCData
  Junk = "junk"
  Tids = {1, 2, 3, 4}
  FifoDepth = 2
  Workloads <- MCWorkloads
  CpuMayOvertake = TRUE
INVARIANTS
  QuietSlotSuffices
  QuietSlotHandshakes
PROPERTIES
  QuietSlotTerminates
CHECK_DEADLOCK FALSE
