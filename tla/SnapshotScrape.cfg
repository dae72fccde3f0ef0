CONSTANTS
  LastProposal = 1
  MaxSpan = 1

SPECIFICATION ScrapeSpec

INVARIANT
  ScrapeJoinsOneCycle

PROPERTY
  CollectorRecovers
