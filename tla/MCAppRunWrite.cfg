SPECIFICATION Spec
CONSTANTS
  Lengths <- MCLengths
  Programs <- MCPrograms
INVARIANTS
  SuccessMeansWritten
