\* Files of a deleted listing.
SPECIFICATION MediaSpec
CONSTANTS
  e1 = e1
  d1 = d1
  Feeders = {e1}
  Downloaders = {d1}
  NumMedia = 2
  PoolSize = 2
  ClaimBatch = 2
  MaxFiles = 0
  MaxFailures = 2
  MaxChanges = 3
  MaxFaults = 0
INVARIANTS
  NoOrphans
\* Changes and faults are bounded: the system may stop.
CHECK_DEADLOCK FALSE
