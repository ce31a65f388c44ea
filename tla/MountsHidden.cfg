\* Nested mounts after a run.
SPECIFICATION Spec
CONSTANTS
    Devices <- Parts
    Tables <- AllTables
    Length <- PathLength
    Below <- Nested
    TempMount <- Temp
    Foreign <- Desktop
INVARIANT NoneHidden
CHECK_DEADLOCK FALSE
