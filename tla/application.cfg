\* Every operation but query on samples of up to two records.
CONSTANTS
  Plans <- NoInputs
  Inputs <- NoInputs
  Values <- NoInputs
  Errors <- MCErrors
  Fault <- FaultOf
  ApplyRecord <- ApplyRecordOp
  Holds <- PredicateHolds
  Items <- ExplodeOne
  Precedes <- ComesBefore
  ShapeError <- ValidateOp
  Numerals <- MCNumerals
  Padded <- MCPadded
  Collation <- MCCollation
  Uppercase <- MCUppercase
  KeyOrder <- MCKeyOrder
  Names <- MCNames
  Identifiers <- MCNames
  Dotted <- MCDotted
  Words <- MCWords
  AmbiguityThreshold = 8000
  AutoAcceptThreshold = 9499
  Calls <- MCCalls
  MaxRows = 3
  MaxDepth = 6
  MaxOutput = 2
SPECIFICATION Spec
CHECK_DEADLOCK FALSE
INVARIANTS
  SchemaAccepts
  PlannedRunsClean
  CarriesWhatItExplains
  ValidUnlessCoerced
PROPERTY Terminates
