SPECIFICATION Spec
CONSTANTS
    q1 = q1
    q2 = q2
    p1 = p1
    p2 = p2
    Requests <- RequestSet
    Probes <- ProbeSet
    Absent = Absent
    Gone = Gone
    SafeToLose <- Safe
    FatalOtherWriter <- Fatal
INVARIANTS
    TypeOK
    NoWriteIsLostUnseen
    ReadersSurvive
PROPERTIES
    LoginStaysGone
    AnswerIsForThisLogin
    ImplementsAtomic
CHECK_DEADLOCK FALSE
