\* As many records under one timestamp as a query returns.
SPECIFICATION DeepFairSpec
CONSTANTS
  p1 = p1
  Procs = {p1}
  NumKeys = 4
  InitTime = 2
  MaxTime = 3
  MaxBatch = 1
  PageSize = 1
  Slips = FALSE
  Since = 0
  MaxPages = 0
  ChunkSize = 1
  PurgeChunk = 1
  IncludeMissing = FALSE
  MaxFaults = 0
  MaxSkip = 2
  Crowd = 3
INVARIANTS
  WholeFeedImported
PROPERTIES
  ImportPassesWall
\* Commands are run by an operator, the feed rests at MaxTime: the system may stop.
CHECK_DEADLOCK FALSE
