\* A feed process or a media download at a time, which fail, crash and are started
\* again, over one rate_budget table.
SPECIFICATION BudgetSpec
CONSTANTS
  e1 = e1
  d1 = d1
  Engines = {e1}
  Downloaders = {d1}
  Hourly = 1
  Daily = 2
  BytesHourly = 1
  Threshold = 2
  HoursPerDay = 2
  MediaWorkers = 2
  Batch = 2
  Max5xx = 0
  MaxBytes = 1
  MaxHour = 3
  MaxServed = 4
  MaxFaults = 1
  Abrupt = TRUE
  OneAtATime = TRUE
INVARIANTS
  BudgetTypeOK
  WindowsHonoured
  SuspensionRespected
  ServerHonoured
\* The clock stops at MaxHour: the system may stop.
CHECK_DEADLOCK FALSE
