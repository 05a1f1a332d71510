\* The same documents; is the subset imported as JSON Schema means it?
CONSTANTS
  Names <- MCNames
  Identifiers <- MCNames
  Dotted <- MCDotted
  Types <- MCTypes
  Samples <- MCSamples
  MaxStack = 8
  KeyOrder <- MCKeyOrder
  TestValues <- MCTestValues
  Requests <- MCRequests
SPECIFICATION SchemasSpec
CHECK_DEADLOCK FALSE
INVARIANT SubsetSupported
