SPECIFICATION Spec
CONSTANTS
  Jobs = {j1, j2}
  Workers = {w1, w2}
  PoolSize = 1
  SpawnMayThrow = TRUE
  NoJob = NoJob
INVARIANT QueuedJobsHaveThreads
