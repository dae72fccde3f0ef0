CONSTANTS
  Endpoints = {e1, e2}
  ValidatorCount = 3
  perPage = 1
  managedRecentCommitCount = 2
  MaxHeight = 3

SPECIFICATION Spec

INVARIANTS
  TypeOK
  SamplesAreExact
  CurrentSetWasSeated
