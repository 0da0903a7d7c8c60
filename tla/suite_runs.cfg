SPECIFICATION SuiteSpec
CONSTANTS
    r1 = r1
    r2 = r2
    Runs <- TwoRunSet
    NoFile = NoFile
    NoRun = NoRun
    MaxKills = 1
    DiskMayFill = FALSE
    Checkout <- CheckoutOf
    Cwd <- CwdOf
    Stacks <- AllStacks
    Unknown = Unknown
    Unlabelled = Unknown
    AllowForeign = {}
    MaxSwaps = 1
    MaxCliFaults = 2
INVARIANTS
    SuiteTypeOK
    NothingLeftBehind
    LossHasCause
    FreezerHoldsLock
PROPERTIES
    NoForeignThaw
    FreezesOwnStack
    FreezeEnds
    NextRunRecovers
CHECK_DEADLOCK FALSE
