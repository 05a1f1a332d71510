\* Queries over two or three tables of up to four rows.
CONSTANTS
  Queries <- MCQueries
  TableSets <- MCTableSets
  Columns <- MCColumns
  Values <- MCValues
  OnHolds <- JoinHolds
  Selects <- WhereHolds
  GroupKey <- KeyOf
  ProjectRow <- ProjectOne
  ProjectGroup <- ProjectAll
  Precedes <- ComesBefore
  Collation <- MCCollation
  Numerals <- MCNumerals
  Spelling <- MCSpelling
SPECIFICATION Spec
CHECK_DEADLOCK FALSE
INVARIANTS
  TypeOK
  KeptAsJoined
  GroupsDivide
  AnswersInOrder
  StatementsAsSql
