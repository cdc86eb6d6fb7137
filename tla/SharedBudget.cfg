\* A feed process beside a media download.
SPECIFICATION BudgetSpec
CONSTANTS
  e1 = e1
  d1 = d1
  Engines = {e1}
  Downloaders = {d1}
  Hourly = 2
  Daily = 3
  BytesHourly = 2
  Threshold = 2
  HoursPerDay = 2
  MediaWorkers = 1
  Batch = 3
  Max5xx = 0
  MaxBytes = 0
  MaxHour = 1
  MaxServed = 6
  MaxFaults = 0
  Abrupt = FALSE
  OneAtATime = FALSE
INVARIANTS
  NothingLaundered
\* The clock stops at MaxHour: the system may stop.
CHECK_DEADLOCK FALSE
