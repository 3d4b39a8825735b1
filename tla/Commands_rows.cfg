CONSTANTS
  Commands = {"select", "select-pull", "select --fixed", "echo --overwrite", "flatten", "pretty", "stack", "paste", "desc", "echo", "serialize", "2tsv", "2json", "2tsv --malformed-utf8-encoding", "2db"}
  MaxCols = 3
  SelectOptions <- AllSelectOptions
  SelectInputs <- AllSelectInputs
  MaxOutputCols = 2
  FlattenOptions <- AllFlattenOptions
  FlattenInputs <- AllFlattenInputs
  PrettyOptions <- AllPrettyOptions
  PrettyInputs <- AllPrettyInputs
  StackOptions <- AllStackOptions
  StackInputs <- AllStackInputs
  PasteInputs <- AllPasteInputs
  DescMaxCols = 3
  MaxEnum = 1
  MaxExamples = 2
  DescOptions <- AllDescOptions
  DescInputs <- AllDescInputs
  EchoOptions <- AllEchoOptions
  EchoInputs <- AllEchoInputs
  SerializeOptions <- AllSerializeOptions
  SerializeInputs <- AllSerializeInputs
  TsvBuffSize = 3
  TsvInputs <- AllTsvInputs
  MaxNesting = 8
  JsonBuffSize = 3
  LongTexts = {"long"}
  JsonOptions <- AllJsonOptions
  JsonInputs <- AllJsonInputs
  VectorBytes = 3
  BuffSize = 7
  FixedOptions <- AllFixedOptions
  FixedInputs <- AllFixedInputs
  OverwritesInputs <- AllOverwritesInputs
  Utf8Inputs <- AllUtf8Inputs
  BatchSize = 2
  ToDbInputs <- AllToDbInputs
SPECIFICATION Spec
INVARIANTS
  SelectWritesColumns
  SelectWritesRows
  FixedRows
  OverwrittenWhereListed
  FlattenRowPerBlock
  PrettyAligned
  StackUnderItsName
  PasteSideBySide
  DescDescribes
  EchoOverwritten
  SerializeRebuilds
  TsvReadsBack
  JsonWritesTable
  Utf8KeepsCharacters
  DbOldOrWhole
CHECK_DEADLOCK FALSE
