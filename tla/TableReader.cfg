SPECIFICATION Spec
CONSTANTS
    MaxByte = 3
    MaxSequenceNumber = 4
    RestartInterval = 2
    BlockSize = 9
    FilterBase = 8
    Null = Null
    Readers = {"a", "b", "c"}
    Uncached = {"c"}
    Targets <- MCTargets
    Scenes <- MCScenes
    TableCapacity = 1
    BlockCapacity = 14
INVARIANTS RefsAreHolders CachesAreCharged DeletedFilesAreClosed ReadsAreRight
CHECK_DEADLOCK FALSE
