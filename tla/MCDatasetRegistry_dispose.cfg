SPECIFICATION SpecWithDispose
CONSTANTS
  a = a
  b = b
  Ids = {a, b}
  MaxBuilds <- MCMaxBuilds
  Readers = {r1}
  Closers = {}
  MaxDatasets = 1
  NoHandle = NoHandle
INVARIANT RemovalIsExclusive
CHECK_DEADLOCK FALSE
