\* Revocations while an import runs.
SPECIFICATION OffsetSpec
CONSTANTS
  p1 = p1
  Procs = {p1}
  NumKeys = 3
  InitTime = 1
  MaxTime = 3
  MaxBatch = 2
  PageSize = 1
  Slips = FALSE
  Since = 0
  MaxPages = 0
  ChunkSize = 1
  PurgeChunk = 1
  IncludeMissing = FALSE
  MaxFaults = 0
INVARIANTS
  NoRevokedBehindCursor
\* Commands are run by an operator, the feed rests at MaxTime: the system may stop.
CHECK_DEADLOCK FALSE
