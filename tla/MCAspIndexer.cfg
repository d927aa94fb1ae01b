CONSTANTS
  Verdicts <- ApproveAll
  Confirmations = 1
  MaxSets = 2
  Appeals = {}
  MaxEvents = 3
  MaxLedger = 5
  MaxFailures = 1
  MaxTxs = 20
SPECIFICATION Spec
CHECK_DEADLOCK FALSE
INVARIANTS StateRootsAreReal RootOnChainIsServed
PROPERTIES AspRootGrows
