CONSTANTS
  Commitments <- TwoCommitments
  Expires <- SecondExpires
  MaxInbox = 2
  root_expiry_ledgers = 1
  MaxLedger = 2
  MaxSubmissions = 2
  MaxFailures = 1
  MaxBlind = 1
SPECIFICATION FairSpec
CHECK_DEADLOCK FALSE
INVARIANTS UsableRootHasManifest
PROPERTIES LeavesKeepOrder AckedIsVerifiable EndedStopsVerifying RootIsRenewed
