SPECIFICATION FairSpec
CONSTANTS
  r1 = r1
  r2 = r2
  Reads = {r1, r2}
  Chunks <- MCChunks
  Ranged <- MCRanged
  Cost <- MCCost
  Capacity = 3
  Concurrency = 2
  Strict = TRUE
  NoTask = NoTask
INVARIANTS
  TypeOK
  BudgetExact
  WaitersAreBlocked
  SettledDrained
PROPERTIES
  NothingAfterFailure
  BudgetSpec
  CallSettlesEventually
CHECK_DEADLOCK FALSE
