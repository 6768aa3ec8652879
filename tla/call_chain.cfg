SPECIFICATION FairSpec
CONSTANTS
    Packages <- MCPackages
INVARIANTS
    LockedBeforeClosed
    OnlyRemovableLocked
    ClosedMeansAllClosed
    NothingReachesDeleted
    RunTellsTheTruth
PROPERTIES
    ImplementsAppClosing
    ChainEnds
CHECK_DEADLOCK FALSE
