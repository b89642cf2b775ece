CONSTANTS
    NumLevels = 3
    MaxMemCompactLevel = 1
    L0_CompactionTrigger = 2
    MaxEntriesForLevel = 2
    TargetFileSize = 2
    MaxGrandParentOverlap = 1
    ExpandedSizeLimit = 5
    MaxSequenceNumber = 20
    Null = Null
    Threads = {w1, w2}
    Readers = {}
    Batches <- RecoveryBatches
    SyncModes = {FALSE, TRUE}
    WriteBufferSize = 0
    MaxGroupSize = 2
    L0_StopWritesTrigger = 2
    MaxKey = 2
    Faults = TRUE
    Compactor = "c"
    MaxWrites = 3
    MaxRestarts = 2
    MaxRanges = 0
    MaxReads = 0
SYMMETRY AnyThread
SPECIFICATION Spec
INVARIANTS NothingMissing ProcessCrashLosesNothing
PROPERTIES ImplementsKVStore
CHECK_DEADLOCK FALSE
