CONSTANTS
  alice = alice
  bob = bob
  n1 = n1
  n2 = n2
  c1 = c1
  r1 = r1
  Accounts = {alice, bob}
  Pool = pool
  Users = {bob}
  Operators = {alice}
  Deployer = bob
  Registry = registry
  Commitments = {c1}
  Nullifiers = {n1, n2}
  Roots = {r1}
  JobIds = {j1, j2}
  Payloads <- TwoWithdrawals
  Amounts = {0, 1}
  InitialBalance = 2
  MaxLedger = 3
  MAX_COMMITMENTS = 2
  MAX_ROOT_HISTORY = 1
  WITHDRAWAL_PAUSE_TIMELOCK_LEDGERS = 1
  DEFAULT_ROOT_EXPIRY_LEDGERS = 1
  UnstakeCooldown = 1
  MaxDeadline = 2
  verify_proof_v3 <- AnyProof
SPECIFICATION Spec
CHECK_DEADLOCK FALSE
INVARIANTS  OneFeePerNote
PROPERTIES SubmittedMeansWithdrawn
