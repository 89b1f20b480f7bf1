CONSTANTS
    MaxEvents = 12
    Size <- RotatedSizes
    BufCap = 3
    ChanCap = 3
    MaxLog = 4
    Generations = 2
    Faults <- NoFaults
    MaxStops = 0
SPECIFICATION Spec
INVARIANTS LoggedIntact
PROPERTIES LogIsReliable
CHECK_DEADLOCK FALSE
