\* A daemon whose requests fail.
SPECIFICATION BudgetSpec
CONSTANTS
  e1 = e1
  Engines = {e1}
  Downloaders = {}
  Hourly = 2
  Daily = 3
  BytesHourly = 2
  Threshold = 2
  HoursPerDay = 2
  MediaWorkers = 2
  Batch = 2
  Max5xx = 1
  MaxBytes = 1
  MaxHour = 3
  MaxServed = 6
  MaxFaults = 0
  Abrupt = FALSE
  OneAtATime = TRUE
INVARIANTS
  NothingLaundered
\* The clock stops at MaxHour: the system may stop.
CHECK_DEADLOCK FALSE
