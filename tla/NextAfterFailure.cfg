SPECIFICATION MCSpec
CONSTANTS
  Accounts = {1, 2}
  TerminalPlans <- MCTerminalPlans
  SettingsPlans <- MCSettingsPlans
  ChoicePlans <- MCChoicePlans
  ViewPlans <- MCViewPlans
  QueueRoom = 2
PROPERTIES
  NextNeedsReading
CHECK_DEADLOCK FALSE
