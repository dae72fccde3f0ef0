CONSTANTS
  e1 = e1
  e2 = e2
  Endpoints = {e1, e2}
  LastProposal = 5
  proposalPageSize = 2
  proposalWalkLimit = 3
  proposalProbeMisses = 2
  MaxUndecodable = 1
  MaxQuiet = 0
  MaxMoves = 1

SYMMETRY Interchangeable

SPECIFICATION Spec

INVARIANTS
  TypeOK
  NoVoteIsHidden
  StillScanAnswersAsAssumed
