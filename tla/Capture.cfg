\* One writer: pages, purges and rollbacks over a changing feed, two scopes.
SPECIFICATION CaptureSpec
CONSTANTS
  l1 = l1
  l2 = l2
  w1 = w1
  Listings = {l1, l2}
  Writers = {w1}
  Versions <- CaptureVersions
  ScopesUsed = {"minimal", "full"}
  MaxTime = 3
  MaxEvents = 6
INVARIANTS
  CaptureTypeOK
  LogReplays
  HistoryLinked
  ColumnsComplete
  ChildrenCurrent
PROPERTIES
  ReplaySilent
  ChildrenSurvive
\* The feed rests at MaxTime and the log at MaxEvents: the system may stop.
CHECK_DEADLOCK FALSE
