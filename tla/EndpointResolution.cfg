CONSTANTS
  RegistryREST = {r1, r2}
  RegistryRPC = {c1}
  FallbackREST = {r1}
  FallbackRPC = {g1}
  Pinned = p1
  NoEndpoint = none
  registryTTL = 2

SPECIFICATION Spec

INVARIANTS
  TypeOK
  ScannersHaveEndpoints
  CandidatesAreTheLatest
  ListsAreOfOneResolution

PROPERTY
  ScannersStart
