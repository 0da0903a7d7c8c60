SPECIFICATION Spec
CONSTANTS
    r1 = r1
    r2 = r2
    r3 = r3
    Runs <- ThreeRunSet
    NoFile = NoFile
    MaxKills = 0
    DiskMayFill = FALSE
INVARIANTS
    MutualExclusion
CHECK_DEADLOCK FALSE
