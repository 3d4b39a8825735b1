CONSTANTS
  a = a
  Delim = Delim
  Cr = Cr
  Lf = Lf
  Quote = Quote
  Junk = Junk
  Byte <- AllBytes
  Size = 4
  MaxCols = 2
  MaxRows = 0
  SizeMod = 64
  Apis = {"more"}
  MaxInput = 5
  MaxInputs = 1
  HasBom = TRUE
  AbortPoints = {}
SPECIFICATION Spec
INVARIANTS
  QuotedWhenNeeded
PROPERTIES
  ImplementsCsvRows
CHECK_DEADLOCK FALSE
