\* A conflict that the user chose to keep.
SPECIFICATION Spec
CONSTANTS
    Folders = {"a"}
    Root = "a"
    Content <- OneFile
    Digests = {"x", "y"}
    Recorded = "x"
    MaxEvents = 1
INVARIANT ConflictIsKept
CHECK_DEADLOCK FALSE
