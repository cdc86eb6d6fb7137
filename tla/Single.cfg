\* One process, a failed run or a 400 at any point, revoked records that slip through.
SPECIFICATION OffsetSpec
CONSTANTS
  p1 = p1
  Procs = {p1}
  NumKeys = 2
  InitTime = 1
  MaxTime = 3
  MaxBatch = 2
  PageSize = 1
  Slips = TRUE
  Since = 0
  MaxPages = 0
  ChunkSize = 1
  PurgeChunk = 1
  IncludeMissing = FALSE
  MaxFaults = 1
INVARIANTS
  TypeOK
  CursorWellFormed
  NoGap
  RevokedGone
  ResumeLosesNothing
PROPERTIES
  PurgesOnlyWithdrawn
  CursorFollowsLifecycle
\* Commands are run by an operator, the feed rests at MaxTime: the system may stop.
CHECK_DEADLOCK FALSE
