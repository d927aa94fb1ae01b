CONSTANTS
  Accounts = {alice, bob}
  Registry = registry
  JobIds = {j1}
  Payloads = {p1}
  Amounts = {1}
  SlashAmounts = {1, 2}
  Cooldowns = {1}
  DeadlineSpans = {2}
  PoolCredits = {0}
  InitialBalance = 2
  MaxLedger = 4
  MaxSlashed = 2
SPECIFICATION Spec
CHECK_DEADLOCK FALSE
PROPERTIES ReporterGetsSlashedAmount
