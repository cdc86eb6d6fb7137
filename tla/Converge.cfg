\* Imports cut by --max-pages, a failure, then the daemon and the operator go on.
SPECIFICATION OffsetFairSpec
CONSTANTS
  p1 = p1
  Procs = {p1}
  NumKeys = 2
  InitTime = 1
  MaxTime = 3
  MaxBatch = 2
  PageSize = 1
  Slips = FALSE
  Since = 0
  MaxPages = 1
  ChunkSize = 1
  PurgeChunk = 1
  IncludeMissing = FALSE
  MaxFaults = 1
INVARIANTS
  CutImportGoesOn
  ReconcileClean
PROPERTIES
  RunsAreSummarized
  Converges
\* Commands are run by an operator, the feed rests at MaxTime: the system may stop.
CHECK_DEADLOCK FALSE
