CONSTANTS
  a = a
  Comma = Comma
  Cr = Cr
  Lf = Lf
  Quote = Quote
  Nul = Nul
  Bom = Bom
  Lead = Lead
  Byte <- AllBytes
  Size = 4
  Cells <- Values
  Prepends <- PrependedTexts
  MaxCells = 3
SPECIFICATION Spec
INVARIANTS
  ReadsBack
PROPERTIES
  ImplementsCsvOutput
CHECK_DEADLOCK FALSE
