CONSTANTS
  Proc = {c1, c2, c3}
  Roles = {"add", "remove", "read"}
  MaxMishaps = 0
SPECIFICATION MCSpec
SYMMETRY ProcSymmetry
INVARIANTS
  SavedTokenKept
