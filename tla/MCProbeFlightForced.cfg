CONSTANTS
  Runs = {r1, r2, r3}
  ForcedRuns = {r1, r2}
  MaxTargets = 1
  Concurrency = 1
  BulkItems = 0
  MayStale = TRUE
  NoRun = NoRun
SPECIFICATION FairSpec
CHECK_DEADLOCK FALSE
INVARIANTS
  LockHasOwner
PROPERTIES
  EveryCallReturns
