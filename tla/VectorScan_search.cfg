CONSTANTS
  VectorBytes = 2
  MaxBytes = 6
SPECIFICATION FairSpec
INVARIANTS
  EndsAtEnd
PROPERTIES
  ImplementsByteScan
  Terminates
CHECK_DEADLOCK FALSE
