CONSTANTS
  a = a
  e1 = e1
  e2 = e2
  f1 = f1
  Validators = {a}
  Redelegations = {e1, e2}
  FailedTxs = {f1}
  SourceOf <- OneSource
  AmountOf <- OneUnit
  Pools = {2, 4}
  RatioNum = 1
  RatioDen = 2
  Window = 2
  Overlap = 1
  Lag = 1
  MaxTime = 5

SYMMETRY Interchangeable

SPECIFICATION Spec

INVARIANTS
  TypeOK
  WindowExact
  PublishedOutflowBracketed

PROPERTIES
  CrossingDoesNotRefresh
  RiseIsDated
