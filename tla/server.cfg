\* Two parallel calls of the tools over one store, which the server may leave.
CONSTANTS
  c1 = c1
  c2 = c2
  Absent = Absent
  Calls <- MCCalls
  Contents <- MCContents
  Fitting <- MCFitting
  Parts = 2
  Ttl = 2
  MaxTime = 3
  Integral <- MCIntegral
  Pointed <- MCPointed
  ZeroLed = {}
  TextOf <- MCTextOf
  WithComma = {}
  WithColon = {"k:v"}
  AllKeys <- MCKeys
  InOrder <- MCInOrder
  BatchSize = 2
  SerializedParts <- JsonOf
  TextsIn <- TextsOf
  HasKey <- HoldsKey
  Servers <- MCServers
  Requests <- MCRequests
  Results <- MCResults
  Bulky = {}
  Excessive <- MCExcessive
  InlineMaxRows = 2
  MaxRows = 3
SPECIFICATION ServerSpec
SYMMETRY Symm
\* A server that may not start does nothing.
CHECK_DEADLOCK FALSE
INVARIANTS
  TypeOK
  PromiseKept
  WholeUnlessWritten
  ArtifactsReadBack
PROPERTY
  UsesTheStore
