CONSTANTS
    BlockSize = 5
    HeaderSize = 2
    Null = Null
    Raw = Raw
    Keys = {1, 2}
    Batches <- MCBatches
    RecordSize <- MCRecordSize
    Tables <- MCTables
    MaxHeight = 2
    Bounds <- MCBounds
SPECIFICATION Spec
INVARIANTS SearchesAreRight IteratorIsCursor
PROPERTIES TornTailIsDropped NothingInvented
CHECK_DEADLOCK FALSE
