SPECIFICATION Spec
CONSTANTS
  Code = "topic"
  MaxCalls = 6
  Names <- MCNames
  Underscores <- MCUnderscores
  Within <- MCWithin
  AtEnd <- MCAtEnd
  Samples <- MCSamples
  Rows <- MCRows
INVARIANTS
  FactorsCoverData
  AidsFindParents
CHECK_DEADLOCK FALSE
