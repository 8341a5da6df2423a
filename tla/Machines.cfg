SPECIFICATION MCSpec
CONSTANTS
  u1 = u1
  u2 = u2
  g1 = g1
  i1 = i1
  w1 = w1
  w2 = w2
  c1 = c1
  Updaters = {u1, u2}
  UpdatePlans <- MCUpdatePlans
  MaxVersion = 2
  MaxFaults = 2
  Guards = {g1}
  Installers = {i1}
  InstallPlans <- MCInstallPlans
  MaxInstallFaults = 2
  MaxSelfUpdates = 1
  MaxSwitches = 4
  MaxRestarts = 3
  Writers = {w1, w2}
  Clearers = {c1}
  KeptLines = 1
  Retention = 1
  MaxTime = 2
  Watchers = {w1}
  WatchPlans <- MCWatchPlans
  Groups <- MCGroups
  Cooldown = 2
  MaxClock = 4
  Emails = {"a@example", "b@example"}
  Models = {"pro", "flash"}
  Requests = {1, 2}
  Window = 7
  MaxLines = 5
  MaxFiles = 2
INVARIANTS
  ExecutableKept
  AgyFound
  HubFresh
  CacheIsCurrent
  EvidenceIsTrue
PROPERTIES
  UpdatedIsLatest
  EventsKept
  ToldInTime
CHECK_DEADLOCK FALSE
