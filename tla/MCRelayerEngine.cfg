SPECIFICATION FairSpec
CONSTANTS
  Jobs = {j1}
  Handlers = {h1}
  Deadline = 2
  deadlineMarginLedgers = 1
  maxAttempts = 2
  SaveWorks = TRUE
  MaxLedger = 3
  MaxDeliveries = 2
  MaxFaults = 1
  MaxBlind = 1
  MaxCrashes = 1
INVARIANTS
  BondIsOnDisk
  CompletedIsSubmitted
PROPERTIES
  
  AcceptedFinishes
CHECK_DEADLOCK FALSE
