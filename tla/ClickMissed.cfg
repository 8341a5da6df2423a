SPECIFICATION MCSpec
CONSTANTS
  Accounts = {1, 2}
  TerminalPlans <- MCTerminalPlans
  SettingsPlans <- MCSettingsPlans
  ChoicePlans <- MCChoicePlans
  ViewPlans <- MCViewPlans
  QueueRoom = 2
PROPERTIES
  ClickedIsChosen
CHECK_DEADLOCK FALSE
