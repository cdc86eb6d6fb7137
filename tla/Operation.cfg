\* A daemon and an operator, two resources, failures of every kind.
SPECIFICATION CommandsFairSpec
CONSTANTS
  u1 = u1
  o1 = o1
  f1 = f1
  f2 = f2
  Units = {u1}
  Operators = {o1}
  Profiles = {f1}
  NumResources = 2
  Every = 1
  MaxFaults = 2
INVARIANTS
  CommandsTypeOK
  HealthTellsOutcome
PROPERTIES
  BackfillTellsTruth
  DaemonServes
