CONSTANTS
  Endpoints = {e1, e2}
  LastAccount = 2
  LastOperator = 2
  LastPlace = 2
  Destination <- MCDestination
  Delegations <- MCDelegations
  Entries <- MCEntries
  PageLimit = 1
  MaxMoves = 1
  MaxScans = 2

SPECIFICATION Spec

INVARIANTS
  TypeOK
  LockedStakeIsPublishedLocked
  OnlyOwnEntriesLock

PROPERTIES
  RosterIsWhole
  ScanIsReported
