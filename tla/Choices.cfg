SPECIFICATION MCSpec
CONSTANTS
  Accounts = {1, 2}
  TerminalPlans <- MCTerminalPlans
  SettingsPlans <- MCSettingsPlans
  ChoicePlans <- MCChoicePlans
  ViewPlans <- MCViewPlans
  QueueRoom = 2
INVARIANTS
  RemovedStaysHidden
  OneReader
  NextGoesOn
  ChosenIsShown
  SelectionInSight
PROPERTIES
  ShownCatchesUp
  WorkEnds
  OtherEditsStay
  SavedReadsBack
  FailedReadsNeverChosen
  SearchRestores
CHECK_DEADLOCK FALSE
