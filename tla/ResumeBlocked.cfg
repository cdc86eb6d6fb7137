\* The import of the second resource is interrupted.
SPECIFICATION CommandsFairSpec
CONSTANTS
  u1 = u1
  o1 = o1
  f1 = f1
  f2 = f2
  Units = {}
  Operators = {o1}
  Profiles = {f1}
  NumResources = 2
  Every = 1
  MaxFaults = 1
INVARIANTS
  ResumeReached
