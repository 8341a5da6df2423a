CONSTANTS
  Commands = {c1, c2}
  Owners = {a, b}
  None = None
  Plans <- StatePlans
  Surfaces = 2
  MaxOutside = 1
  MaxMishaps = 1
SPECIFICATION Spec
SYMMETRY SessionSymmetry
INVARIANTS
  SurfacesAgree
PROPERTIES
  SyncLosesNoToken
  ChoiceStays
  FailureRestores
