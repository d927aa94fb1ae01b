CONSTANTS
  Accounts = {a, b}
  Handlers = {h1}
  Plans <- Users
  MaxSecrets = 2
  MaxTxs = 3
  MaxLeaves = 3
  MaxReloads = 1
SPECIFICATION Spec
SYMMETRY AccountSymmetry
CHECK_DEADLOCK FALSE
INVARIANTS NotesAreReal  DepositsAreBackedUp  ConfirmedIsKept
