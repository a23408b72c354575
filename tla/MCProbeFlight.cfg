CONSTANTS
  Runs = {r1, r2, r3}
  ForcedRuns = {}
  MaxTargets = 3
  Concurrency = 2
  BulkItems = 2
  MayStale = FALSE
  NoRun = NoRun
SPECIFICATION Spec
SYMMETRY Symmetry
CHECK_DEADLOCK FALSE
INVARIANTS
  TypeOK
  OnlyOneFullProbe
  JobIsOneRuns
PROPERTIES
  BulkWaitsForProbe
