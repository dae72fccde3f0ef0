CONSTANTS
  v1 = v1
  v2 = v2
  v3 = v3
  v4 = v4
  w = w
  x = x
  y = y
  z = z
  Validators = {v1, v2, v3, v4}
  Entities = {w, x, y, z}
  EntityMaps <- MCEntityMaps
  TokenMaps <- MCTokenMaps
  MissedCounts = {1, 7}
  MaxMissing = 1
  MaxMissedBlocks = {5, 9}
  VetoDen = 3

SPECIFICATION Spec

INVARIANTS
  TypeOK
  RiskIsOfOneCycle
  CoefficientsAreMinimal
  VetoMeansHalt
