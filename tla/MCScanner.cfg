SPECIFICATION Spec
CONSTANTS
    Scans = {s1, s2}
    startBlock = 1
    batchSize = 0
    concurrency = 2
    Histories <- SilentThird
    FirstHead = 3
    MaxHead = 4
    MaxOldest = 2
    MaxStarts = 2
    MaxFailures = 1
    MaxReloads = 1
SYMMETRY ScanSymmetry
CHECK_DEADLOCK FALSE
INVARIANTS   NoPageIsOrphaned
 
