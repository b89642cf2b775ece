CONSTANTS
    NumLevels = 3
    MaxMemCompactLevel = 1
    L0_CompactionTrigger = 1
    MaxEntriesForLevel = 2
    TargetFileSize = 2
    MaxGrandParentOverlap = 1
    ExpandedSizeLimit = 5
    MaxSequenceNumber = 20
    Null = Null
    Threads = {"w"}
    Readers = {"r"}
    Batches <- RecoveryBatches
    SyncModes = {FALSE}
    WriteBufferSize = 0
    MaxGroupSize = 2
    L0_StopWritesTrigger = 2
    MaxKey = 2
    Faults = FALSE
    Compactor = "c"
    MaxWrites = 4
    MaxRestarts = 0
    MaxRanges = 0
    MaxReads = 1
SPECIFICATION Spec
INVARIANTS LevelsDisjoint ReadsCorrect PinnedReads
CHECK_DEADLOCK FALSE
