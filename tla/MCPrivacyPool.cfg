CONSTANTS
  Accounts = {alice}
  Pool = pool
  Commitments = {c1}
  Nullifiers = {n1, n2}
  Roots = {r1, r2}
  Amounts = {1}
  Expiries = {0}
  InitialBalance = 5
  MaxLedger = 2
  MAX_COMMITMENTS = 5
  MAX_ROOT_HISTORY = 1
  MAX_MINIMUM = 1
  WITHDRAWAL_PAUSE_TIMELOCK_LEDGERS = 1
  DEFAULT_ROOT_EXPIRY_LEDGERS = 1
  verify_proof_v3 <- AnyProof
SYMMETRY PoolSymmetry
SPECIFICATION Spec
CHECK_DEADLOCK FALSE
INVARIANTS Custody  NullifierSpentOnce  
PROPERTIES PublishedRootsStayFresh PauseIsTimelocked
