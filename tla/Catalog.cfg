\* A run and the browser at once, with failing statements and a crash.
SPECIFICATION Spec
CONSTANTS
    Files <- OneFile
    Special <- OneSpecial
    Work <- BootAndFile
    Digests = {"a"}
    MaxRuns = 1
    MaxCalls = 1
    MaxDepth = 3
    MaxFaults = 1
    StaleIds = {0, 1}
INVARIANTS
    TypeOK
    TreeIsWhole
    TablesAreAMap
    CompletedCallsLeaveNoOrphans
PROPERTY DigestIsKept
\* The calls are bounded.
CHECK_DEADLOCK FALSE
