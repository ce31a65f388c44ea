\* A file with two extents, in recursive mode.
SPECIFICATION Spec
CONSTANTS
    Files <- OneFile
    Special <- OneSpecial
    Work <- TwoExtents
    Digests = {"a"}
    MaxRuns = 1
    MaxCalls = 0
    MaxDepth = 3
    MaxFaults = 0
    StaleIds = {0, 1}
INVARIANT BadExtentsRecorded
CHECK_DEADLOCK FALSE
