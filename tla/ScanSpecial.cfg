\* Healthy ext volumes, some with a symbolic link or a device file.
SPECIFICATION Spec
CONSTANTS
    ClusterUnits = 2
    SectorBytes = 256
    EntryBytes = 128
    Word = 4096
    Fat12Max = 6
    Fat16Max = 40
    DirectBlocks = 1
    TreeDepth = 1
    MaxDepth = 4
    Devices <- Ext4Devices
INVARIANT HealthyScanSucceeds
CHECK_DEADLOCK FALSE
