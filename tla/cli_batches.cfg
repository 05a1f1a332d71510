\* More rows than one Arrow batch holds are written to a Parquet file.
CONSTANTS
  Integral <- MCIntegral
  Pointed <- MCPointed
  ZeroLed = {"007"}
  TextOf <- MCTextOf
  WithComma = {"a,b"}
  WithColon = {"k:v"}
  AllKeys <- MCKeys
  InOrder <- MCInOrder
  BatchSize = 2
  SerializedParts <- JsonOf
  TextsIn <- TextsOf
  HasKey <- HoldsKey
  NestingDepth <- Depth
  Cwd <- MCCwd
  Defaults <- MCDefaults
  OutputDirectory = ".shapeport"
  Resolved <- MCResolved
  Sessions <- MCSessions
  Extension <- MCExtension
  Results <- MCResults
  Missing = Missing
  Stdin = Stdin
SPECIFICATION Spec
\* A session ends.
CHECK_DEADLOCK FALSE
INVARIANT
  ParquetHoldsAll
