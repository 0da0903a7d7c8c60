SPECIFICATION FairSpec
CONSTANTS
    r1 = r1
    r2 = r2
    r3 = r3
    Runs <- ThreeRunSet
    NoFile = NoFile
    MaxKills = 1
    DiskMayFill = TRUE
INVARIANTS
    TypeOK
    TakeoverHasEvidence
    HolderOwnsFile
PROPERTIES
    ImplementsMutex
    StaleLockReplaced
CHECK_DEADLOCK FALSE
