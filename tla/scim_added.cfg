SPECIFICATION Spec
CONSTANTS
    a1 = a1
    a2 = a2
    a3 = a3
    d1 = d1
    anna = anna
    bo = bo
    Runs <- Two
    People <- PeopleSet
    Person <- WhoTwo
    Creators <- Two
    Deleters = {}
    None = None
    MaxFaults = 0
INVARIANTS
    AddedMeansMember
CHECK_DEADLOCK FALSE
