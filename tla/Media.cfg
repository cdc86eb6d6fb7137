\* One feed process beside one download that is repeated, two files at a time.
SPECIFICATION MediaFairSpec
CONSTANTS
  e1 = e1
  d1 = d1
  Feeders = {e1}
  Downloaders = {d1}
  NumMedia = 3
  PoolSize = 2
  ClaimBatch = 2
  MaxFiles = 3
  MaxFailures = 2
  MaxChanges = 3
  MaxFaults = 1
INVARIANTS
  MediaTypeOK
  DownloadedHasFile
  BudgetKept
PROPERTIES
  OncePerPass
  DownloadedForGood
  QueueDrains
\* Changes and faults are bounded: the system may stop.
CHECK_DEADLOCK FALSE
