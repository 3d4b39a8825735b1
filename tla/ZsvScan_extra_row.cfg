CONSTANTS
  a = a
  Delim = Delim
  Cr = Cr
  Lf = Lf
  Quote = Quote
  Junk = Junk
  Byte <- PlainBytes
  Size = 4
  MaxCols = 2
  MaxRows = 0
  SizeMod = 64
  Apis = {"bytes"}
  MaxInput = 3
  MaxInputs = 1
  HasBom = FALSE
  AbortPoints = {}
SPECIFICATION Spec
INVARIANTS
  OneCallPerRow
CHECK_DEADLOCK FALSE
