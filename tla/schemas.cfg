\* JSON Schema documents with two definitions, and samples of up to three records.
CONSTANTS
  Names <- MCNames
  Identifiers <- MCNames
  Dotted <- MCDotted
  Types <- MCTypes
  Samples <- MCSamples
  MaxStack = 8
  KeyOrder <- MCKeyOrder
  TestValues <- MCTestValues
  Requests <- MCRequests
SPECIFICATION SchemasSpec
CHECK_DEADLOCK FALSE
INVARIANTS
  TypeOK
  SchemaIsEvidence
  ConflictsFound
  ConformingAccepted
  OnlyNullsSlip
  OnlyTheDeepOverflow
  PrintedAdmitsRecords
  
