CONSTANTS
  a = a
  Delim = Delim
  Cr = Cr
  Lf = Lf
  Quote = Quote
  Junk = Junk
  Byte <- QuoteBytes
  Size = 3
  MaxCols = 2
  MaxRows = 3
  SizeMod = 64
  Apis = {"more", "bytes"}
  MaxInput = 7
  MaxInputs = 1
  HasBom = FALSE
  AbortPoints = {"cell", "row", "idle"}
SPECIFICATION Spec
INVARIANTS
  TypeOK
  SafetyInv
  RowSoFar
  OneCallPerPlainRow
PROPERTIES
  CancelledIsFinal
CHECK_DEADLOCK FALSE
