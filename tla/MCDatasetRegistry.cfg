SPECIFICATION FairSpec
CONSTANTS
  a = a
  b = b
  Ids = {a, b}
  MaxBuilds <- MCMaxBuilds
  Readers = {r1}
  Closers = {c1}
  MaxDatasets = 1
  NoHandle = NoHandle
INVARIANTS
  TypeOK
  RemovalIsExclusive
  CachedHandlesSound
  ReturnedMeansTornDown
  NoResurrection
PROPERTIES
  TrackNeverReplaces
  LeaseSpec
  WaitsEnd
CHECK_DEADLOCK FALSE
