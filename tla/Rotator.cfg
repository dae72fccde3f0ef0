CONSTANTS
  a = a
  b = b
  c = c
  d = d
  Endpoints = {a, b, c, d}
  NoBase = NoBase
  Lists <- MCLists
  maxAttempts = 3
  MaxChanges = 4

SPECIFICATION Spec

INVARIANTS
  TypeOK
  SelectionInList
  AttemptsAreDistinct

PROPERTIES
  SelectionIsSticky
  WorkingEndpointIsFound
