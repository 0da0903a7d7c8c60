SPECIFICATION LogSpec
CONSTANTS
    After = 1
    MaxShown = 2
    MaxLines = 6
INVARIANTS
    DumpsAreNotShown
    NamingLinesAreShown
CHECK_DEADLOCK FALSE
