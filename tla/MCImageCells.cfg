SPECIFICATION Spec
CONSTANTS
  Images <- MCImages
  BUFFSIZE = 32
  BufBytes = 48
  None = None
INVARIANTS
  TypeOK
  NothingInTheClear
PROPERTIES
  DecryptRestores
