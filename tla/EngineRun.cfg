\* Both front ends: the window with pause, stop, target change, quit and close
\* at any moment, and the headless loop.
SPECIFICATION Spec
CONSTANTS
    Blocks = 2
    Files = 1
INVARIANTS
    TypeOK
    StartOfferedMeansNoWorker
    PauseViewsAgree
    BoundaryHolds
    SuccessMeansEveryBlock
    SyncIsBracketed
    OutcomeIsReal
PROPERTIES
    LifecycleSpec
    RunEnds
    ExitHappens
\* The program ends.
CHECK_DEADLOCK FALSE
