CONSTANTS
  Commands = {c1, c2}
  Owners = {a, b}
  None = None
  Plans <- EndPlans
  Surfaces = 1
  MaxOutside = 0
  MaxMishaps = 1
SPECIFICATION FairSpec
PROPERTIES
  CommandsEnd
