\* A cast under "try" that rejects a record.
CONSTANTS
  Plans <- MCPlans
  Inputs <- MCInputs
  Values <- MCValues
  Errors <- MCErrors
  Fault <- FaultOf
  ApplyRecord <- ApplyRecordOp
  Holds <- PredicateHolds
  Items <- ExplodeOne
  Precedes <- ComesBefore
  ShapeError <- ValidateOp
  Numerals <- MCNumerals
  Padded <- MCPadded
  Collation <- MCCollation
  Uppercase <- MCUppercase
SPECIFICATION Spec
CHECK_DEADLOCK FALSE
INVARIANT TryNeverRejects
