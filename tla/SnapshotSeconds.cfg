CONSTANT
  LastProposal = 2

SPECIFICATION Spec

INVARIANT
  LiveSetIsWhole
