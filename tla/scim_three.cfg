SPECIFICATION Spec
CONSTANTS
    a1 = a1
    a2 = a2
    a3 = a3
    d1 = d1
    anna = anna
    bo = bo
    Runs <- ThreeAndDelete
    People <- PeopleSet
    Person <- Who
    Creators <- Three
    Deleters = {d1}
    None = None
    MaxFaults = 1
INVARIANTS
    TypeOK
    UndisturbedRunAdds
PROPERTIES
    NoMemberLost
CHECK_DEADLOCK FALSE
