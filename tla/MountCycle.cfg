\* Every kind of table; the desktop may mount the target too.
SPECIFICATION Spec
CONSTANTS
    Devices <- Parts
    Tables <- AllTables
    Length <- PathLength
    Below <- Nested
    TempMount <- Temp
    Foreign <- Desktop
INVARIANTS
    TypeOK
    UnmountedForRewrite
    IdleUnmountsPlainly
    HashedReadOnly
    RestoredUnlessFailed
\* The run ends.
CHECK_DEADLOCK FALSE
