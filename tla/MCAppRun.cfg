SPECIFICATION Spec
CONSTANTS
  Lengths <- MCLengths
  Programs <- MCPrograms
INVARIANTS
  TypeOK
  InputStaysInBuffer
  UnusableInputKeepsOutput
  PacketsIntact
