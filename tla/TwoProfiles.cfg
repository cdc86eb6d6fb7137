\* Two profiles in one database.
SPECIFICATION CommandsFairSpec
CONSTANTS
  u1 = u1
  o1 = o1
  f1 = f1
  f2 = f2
  Units = {}
  Operators = {o1}
  Profiles = {f1, f2}
  NumResources = 1
  Every = 1
  MaxFaults = 1
PROPERTIES
  ProfilesApart
