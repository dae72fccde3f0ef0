CONSTANT
  LastProposal = 2

SPECIFICATION Spec

INVARIANTS
  TypeOK
  GateIsBacked
  LiveSeriesAreCurrent
  SuccessSeesEveryVote


PROPERTY
  SeenClosedIsIgnored
