SPECIFICATION Spec
CONSTANTS
  LabelLen <- MCLabelLen
  ProbLen = 3
  MAX_LABEL_LEN = 16
  IndexRange = 8
  Configs <- MCConfigs
  Frames <- MCFrames
  MAX_ALLOWED_CLASS = 3
  Absent = Absent
  NULL = NULL
  MaxFrames = 4
  MaxTime = 3
INVARIANTS
  TypeOK
  LabelsComplete
  LabelTextExact
  OffsetOfThisFrame
  FpsIsMean
CHECK_DEADLOCK FALSE
