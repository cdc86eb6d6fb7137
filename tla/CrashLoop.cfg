\* A download that is killed and started again.
SPECIFICATION BudgetSpec
CONSTANTS
  d1 = d1
  Engines = {}
  Downloaders = {d1}
  Hourly = 2
  Daily = 3
  BytesHourly = 2
  Threshold = 2
  HoursPerDay = 2
  MediaWorkers = 2
  Batch = 2
  Max5xx = 1
  MaxBytes = 1
  MaxHour = 3
  MaxServed = 6
  MaxFaults = 3
  Abrupt = TRUE
  OneAtATime = TRUE
INVARIANTS
  NothingLaundered
\* The clock stops at MaxHour: the system may stop.
CHECK_DEADLOCK FALSE
