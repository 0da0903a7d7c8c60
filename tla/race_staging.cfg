SPECIFICATION FairSpec
CONSTANTS
    Absent = Absent
    Gone = Gone
    SafeToLose <- Safe
    FatalOtherWriter <- Fatal
    MaxAttempts = 3
    MaxFaults = 2
INVARIANTS
    TypeOK
    OkOnlyAfterRace
PROPERTIES
    OnlyMissesRepeatOrFail
    TestEnds
CHECK_DEADLOCK FALSE
