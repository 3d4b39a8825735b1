CONSTANTS
  a = a
  Delim = Delim
  Cr = Cr
  Lf = Lf
  Quote = Quote
  Junk = Junk
  Byte <- QuoteBytes
  Size = 4
  MaxCols = 2
  MaxRows = 0
  SizeMod = 64
  Apis = {"more"}
  MaxInput = 3
  MaxInputs = 1
  HasBom = FALSE
  AbortPoints = {}
SPECIFICATION Spec
INVARIANTS
  CellsHaveContents
CHECK_DEADLOCK FALSE
