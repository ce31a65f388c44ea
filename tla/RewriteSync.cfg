\* A writeback error during a buffered run.
SPECIFICATION Spec
CONSTANTS
    WorkLists <- Lists
    BlockSizes = {2}
    Align = 2
    MaxCells = 2
PROPERTY SyncedMeansWritten
CHECK_DEADLOCK FALSE
