CONSTANTS
  Proc = {c1, c2, c3}
  Roles = {"add", "refresh", "harvest", "migrate", "import", "read", "remove"}
  MaxMishaps = 2
SPECIFICATION MCSpec
SYMMETRY ProcSymmetry
INVARIANTS
  SavedTokenReadable
  ReadersFindToken
  LastSavedTokenWins
PROPERTIES
  ReferredEntryStays
  RemovedStaysRemoved
