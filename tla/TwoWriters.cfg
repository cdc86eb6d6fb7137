\* Two writers of one listing: a sync and a reconcile, or two commands.
SPECIFICATION CaptureSpec
CONSTANTS
  l1 = l1
  l2 = l2
  w1 = w1
  w2 = w2
  Listings = {l1}
  Writers = {w1, w2}
  Versions <- CaptureVersions
  ScopesUsed = {"full"}
  MaxTime = 3
  MaxEvents = 6
PROPERTIES
  VersionsAdvance
\* The feed rests at MaxTime and the log at MaxEvents: the system may stop.
CHECK_DEADLOCK FALSE
