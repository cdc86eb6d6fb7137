\* Two downloads at once.
SPECIFICATION MediaSpec
CONSTANTS
  e1 = e1
  d1 = d1
  d2 = d2
  Feeders = {e1}
  Downloaders = {d1, d2}
  NumMedia = 1
  PoolSize = 1
  ClaimBatch = 2
  MaxFiles = 0
  MaxFailures = 2
  MaxChanges = 3
  MaxFaults = 0
PROPERTIES
  DownloadedForGood
\* Changes and faults are bounded: the system may stop.
CHECK_DEADLOCK FALSE
