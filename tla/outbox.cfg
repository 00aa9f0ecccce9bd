SPECIFICATION FairSpec
CONSTANTS
  Jobs = {j1, j2}
  Workers = {w1, w2}
  MaxAttempts = 2
  LeaseSeconds = 2
  BatchSize = 2
  BackoffBase = 1
  BackoffMax = 1
  MaxLate = 1
  MaxMishaps = 2
  NoResult = NoResult
INVARIANTS
  IndInv
  HistoryExplainsState
  AttemptHasOneExecutor
PROPERTIES
  AttemptsFinalizeOnce
  EveryJobSettles
  ImplementsQueue
