CONSTANTS
    NumLevels = 3
    MaxMemCompactLevel = 1
    L0_CompactionTrigger = 2
    MaxEntriesForLevel = 2
    TargetFileSize = 1
    MaxGrandParentOverlap = 1
    ExpandedSizeLimit = 5
    MaxSequenceNumber = 20
    Null = Null
    Threads = {"w1", "w2"}
    Readers = {}
    Batches <- TwoKeys
    SyncModes = {TRUE}
    WriteBufferSize = 0
    MaxGroupSize = 2
    L0_StopWritesTrigger = 2
    MaxKey = 2
    Faults = TRUE
    Compactor = "c"
    MaxWrites = 3
    MaxRestarts = 1
    MaxRanges = 1
    MaxReads = 0
SPECIFICATION FairSpec
INVARIANTS ReadsCorrect
PROPERTIES WritesReturn RangesEnd CloseEnds
CHECK_DEADLOCK FALSE
