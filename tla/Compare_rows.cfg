CONSTANTS
  id = id
  v = v
  a = a
  a2 = a2
  b = b
  B = B
  none = none
  MaxRows = 3
  InputCount = 3
  Text <- AllTexts
  Blank = none
  Same <- SameText
  Close <- CloseTexts
  KeyOrder <- OrderOfKey
  SqlOrder <- SqlOrderOfKey
  Headers <- AllHeaders
  Unended <- FirstOrNone
  Keys <- AllKeys
  AddedColumns <- AddedV
  Rows <- AllRows
  Sorting = {TRUE, FALSE}
SPECIFICATION FairSpec
INVARIANTS
  ReportsRows
PROPERTIES
  ImplementsRowMatch
  Terminates
CHECK_DEADLOCK FALSE
