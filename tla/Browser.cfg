\* Two folders, a Sync, a change: every crossing of listings and verdicts.
SPECIFICATION Spec
CONSTANTS
    Folders = {"a", "b"}
    Root = "a"
    Content <- OneEach
    Digests = {"x", "y"}
    Recorded = "x"
    MaxEvents = 2
INVARIANTS
    TypeOK
    StatusOnRightRow
PROPERTIES
    RunSettles
    PickedFolderIsListed
    CloseEnds
\* The window may be closed, and listings are bounded.
CHECK_DEADLOCK FALSE
