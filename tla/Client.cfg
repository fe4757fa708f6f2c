CONSTANTS
    TokenMax = 15
    LenMax = 255
    MaxMessage = 180
    ReadSizes = {3, 64}
    Sessions <- MCSessions
SPECIFICATION Spec
INVARIANTS DeliversInOrder WebItemsDecode
PROPERTIES HostReadsInputs EndReachesClient
CHECK_DEADLOCK FALSE
