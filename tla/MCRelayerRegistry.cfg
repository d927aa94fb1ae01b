CONSTANTS
  Accounts = {alice, bob}
  Registry = registry
  JobIds = {j1}
  Payloads = {p1}
  Amounts = {1}
  SlashAmounts = {0, 2}
  Cooldowns = {1}
  DeadlineSpans = {1}
  PoolCredits = {1}
  InitialBalance = 2
  MaxLedger = 3
  MaxSlashed = 2
SPECIFICATION FairSpec
CHECK_DEADLOCK FALSE
INVARIANTS TypeOK Solvent  RecordsAgree
PROPERTIES JobsAreFinal JobsSettle
