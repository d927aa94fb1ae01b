SPECIFICATION Spec
CONSTANTS
  Jobs = {j1}
  Handlers = {h1, h2}
  Deadline = 2
  deadlineMarginLedgers = 1
  maxAttempts = 1
  SaveWorks = FALSE
  MaxLedger = 3
  MaxDeliveries = 2
  MaxFaults = 1
  MaxBlind = 1
  MaxCrashes = 1
INVARIANTS
  BondIsOnDisk
CHECK_DEADLOCK FALSE
