SPECIFICATION KernelSpec
CONSTANTS
  Addr <- MCAddr
  Data <- MCData
  Junk = "junk"
  Tids = {1, 2, 3, 4}
  FifoDepth = 2
  Cells <- MCCells
  MaxCells = 5
INVARIANTS
  CellResultsExact
  OtherSlotPassive
PROPERTIES
  CellsEnd
