SPECIFICATION Spec
CONSTANTS
  MaxFd = 8
  Places <- MCPlaces
  MaxInits <- MCMaxInits
  NULL = NULL
  MAP_FAILED = MAP_FAILED
INVARIANTS
  TypeOK
  TransfersReachTheirSlot
  StartReachesItsSlot
  StdioKept
  FilesOfOpenSlots
  ClosedSlotUnmapped
