\* Two processes of three builds; two statements fail or processes die.
SPECIFICATION MigrateFairSpec
CONSTANTS
  m1 = m1
  m2 = m2
  Migrators = {m1, m2}
  Builds <- MCBuilds
  MaxFaults = 2
INVARIANTS
  MigrateTypeOK
  InitNeverFails
  InitDelivers
PROPERTIES
  MigratesInOrder
  InitEnds
\* init-db runs when an operator runs it: the system may stop.
CHECK_DEADLOCK FALSE
