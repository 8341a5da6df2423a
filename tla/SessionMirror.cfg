CONSTANTS
  Commands = {c1}
  Owners = {a, b}
  None = None
  Plans <- LoginPlans
  Surfaces = 2
  MaxOutside = 0
  MaxMishaps = 0
SPECIFICATION Spec
SYMMETRY SessionSymmetry
INVARIANTS
  FailedLoginKeepsMirror
