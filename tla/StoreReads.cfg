CONSTANTS
  e1 = e1
  e2 = e2
  w1 = w1
  i1 = i1
  Editors = {e1}
  SettingsWriters = {}
  Importers = {i1}
  Casts <- MCCasts
  Absent = Absent
  NoOne = NoOne
  MaxClock = 2
  MaxMishaps = 1
SPECIFICATION Spec
INVARIANTS
  RecoversBeforeRead
