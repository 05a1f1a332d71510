\* Scalars, nested records, and lists of records of lists, both modes.
CONSTANTS
  Names <- MCNames
  Identifiers <- MCIdentifiers
  Dotted <- MCDotted
  Words <- MCWords
  Types <- PlannerTypes
  Inputs <- PlannerCalls
  AmbiguityThreshold = 8000
  AutoAcceptThreshold = 9499
SPECIFICATION Spec
CHECK_DEADLOCK FALSE
INVARIANTS
  TypeOK
  RivalsSpentEarlier
  OmissionForced
  SourceUsedOnce
  ExplanationMatchesPlan
  ListAllOrNothing
  EveryTargetSettled
  ErrorsHaveCauses
