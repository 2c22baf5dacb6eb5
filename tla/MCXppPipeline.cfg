SPECIFICATION Spec
CONSTANTS
  Pool = {o1, o2, o3}
  MaxFrames = 5
  None = None
INVARIANTS
  TypeOK
  FramesWhole
  ParamsLive
PROPERTIES
  StartReturns
CHECK_DEADLOCK FALSE
