CONSTANTS
  Verdicts <- AnyVerdict
  Confirmations = 1
  MaxSets = 2
  Appeals = {}
  MaxEvents = 2
  MaxLedger = 4
  MaxFailures = 0
  MaxTxs = 20
SPECIFICATION Spec
CHECK_DEADLOCK FALSE
INVARIANTS NoDepositForgotten
