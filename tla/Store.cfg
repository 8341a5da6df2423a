CONSTANTS
  e1 = e1
  e2 = e2
  w1 = w1
  i1 = i1
  Editors = {e1, e2}
  SettingsWriters = {w1}
  Importers = {i1}
  Casts <- MCCasts
  Absent = Absent
  NoOne = NoOne
  MaxClock = 1
  MaxMishaps = 2
SPECIFICATION MCSpec
INVARIANTS
  ImportHoldsLocks
  NoLostEdit
  NoUncommittedTrace
PROPERTIES
  RecoveryIsComplete
  TakesEffectAtOnce
  SaveKeepsPrevious
  CommandsEnd
