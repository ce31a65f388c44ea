\* Every kind of volume, whole and damaged, alone and in partitions.
SPECIFICATION Spec
CONSTANTS
    ClusterUnits = 2
    SectorBytes = 256
    EntryBytes = 128
    Word = 4096
    Fat12Max = 6
    Fat16Max = 40
    DirectBlocks = 1
    TreeDepth = 1
    MaxDepth = 5
    Devices <- ScanDevices
INVARIANTS
    TypeOK
    FilesAreCovered
    FreeSpaceSkipped
    PlannedOnce
    WalkEnds
\* The plan is made.
CHECK_DEADLOCK FALSE
