SPECIFICATION Spec
CONSTANTS
  ui = ui
  cli = cli
  r1 = r1
  r2 = r2
  Programs = {ui, cli}
  Refreshes = {r1, r2}
  Accounts <- MCAccounts
  Plans <- MCPlans
  MaxWorkers = 2
  MaxMoment = 2
INVARIANTS AllAnswersTaken QuotaInv
PROPERTIES QuotasInOrder RefusalStays
