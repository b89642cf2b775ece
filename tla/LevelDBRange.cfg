CONSTANTS
    NumLevels = 3
    MaxMemCompactLevel = 1
    L0_CompactionTrigger = 3
    MaxEntriesForLevel = 2
    TargetFileSize = 2
    MaxGrandParentOverlap = 1
    ExpandedSizeLimit = 5
    MaxSequenceNumber = 20
    Null = Null
    Threads = {"w"}
    Readers = {}
    Batches <- SinglePuts
    SyncModes = {FALSE}
    WriteBufferSize = 0
    MaxGroupSize = 2
    L0_StopWritesTrigger = 3
    MaxKey = 3
    Faults = FALSE
    Compactor = "c"
    MaxWrites = 4
    MaxRestarts = 1
    MaxRanges = 1
    MaxReads = 0
SPECIFICATION Spec
INVARIANTS LevelsDisjoint
CHECK_DEADLOCK FALSE
