SPECIFICATION FairSpec
CONSTANTS
  Jobs = {j1, j2, j3, j4}
  Workers = {w1, w2, w3}
  PoolSize = 2
  SpawnMayThrow = TRUE
  NoJob = NoJob
INVARIANTS
  TypeOK
  JobsAccounted
  WorkConserving
  NoThreadLeaks
PROPERTIES
  PoolKeepsSize
  ServiceSpec
  JobsSettle
