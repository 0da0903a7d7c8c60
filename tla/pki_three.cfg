SPECIFICATION Spec
CONSTANTS
    ServiceNames <- ThreeNames
    MaxInterrupts = 2
INVARIANTS
    TypeOK
    CompleteUnlessInterrupted
    BundleMatchesKey
