CONSTANTS
  NodeCount = 2
  MaxRows = 8
  TimeOf <- PairTimes
  FailedRows = {3}
  Sinces = {0, 2, 3}
  PageLimit = 2
  MaxPages = 3
  Attempts = 3
  MaxSkew = 2
  EmptyPastEnd = FALSE

SPECIFICATION SearchSpec

INVARIANT
  NoPartialAnswer
