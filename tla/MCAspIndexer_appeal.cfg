CONSTANTS
  Verdicts <- Screening
  Confirmations = 2
  MaxSets = 2
  Appeals = {1}
  MaxEvents = 2
  MaxLedger = 5
  MaxFailures = 2
  MaxTxs = 20
SPECIFICATION FairSpec
CHECK_DEADLOCK FALSE
INVARIANTS NoDepositForgotten DecidedOnce
PROPERTIES ApprovedReachesChain
