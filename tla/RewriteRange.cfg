\* Cells of one block, of two, and shared by ranges; a short last block; partitions with
\* a gap; extents out of order.
SPECIFICATION Spec
CONSTANTS
    WorkLists <- Lists
    BlockSizes = {1, 2}
    Align = 2
    MaxCells = 3
INVARIANTS
    TypeOK
    ColoursAreTrue
    Accounting
    ProgressIsExact
PROPERTIES
    MapMovesForward
    RangesEnd
\* The run ends.
CHECK_DEADLOCK FALSE
