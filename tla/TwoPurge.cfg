\* A reconcile beside a sync or a backfill.
SPECIFICATION OffsetSpec
CONSTANTS
  p1 = p1
  p2 = p2
  Procs = {p1, p2}
  NumKeys = 1
  InitTime = 1
  MaxTime = 3
  MaxBatch = 1
  PageSize = 1
  Slips = FALSE
  Since = 0
  MaxPages = 0
  ChunkSize = 1
  PurgeChunk = 1
  IncludeMissing = FALSE
  MaxFaults = 0
PROPERTIES
  PurgesOnlyWithdrawn
SYMMETRY ProcSymmetry
\* Commands are run by an operator, the feed rests at MaxTime: the system may stop.
CHECK_DEADLOCK FALSE
