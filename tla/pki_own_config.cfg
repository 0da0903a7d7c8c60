SPECIFICATION Spec
CONSTANTS
    ServiceNames <- TwoNames
    MaxInterrupts = 0
PROPERTIES
    OwnConfigsStay
