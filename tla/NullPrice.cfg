\* A record whose ListPrice is null, fetched again at the boundary.
SPECIFICATION CaptureSpec
CONSTANTS
  l1 = l1
  l2 = l2
  w1 = w1
  Listings = {l1}
  Writers = {w1}
  Versions <- NullVersions
  ScopesUsed = {"full"}
  MaxTime = 3
  MaxEvents = 6
PROPERTIES
  ReplayHarmless
\* The feed rests at MaxTime and the log at MaxEvents: the system may stop.
CHECK_DEADLOCK FALSE
