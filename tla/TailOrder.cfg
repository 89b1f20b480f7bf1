CONSTANTS
    MaxEvents = 5
    Size <- TailSizes
    BufCap = 2
    ChanCap = 1
    MaxLog = 5
    Generations = 1
    Faults <- FileFaults
    MaxStops = 2
    MaxChunk = 4
    MaxDashStops = 1
SPECIFICATION TailSpec
INVARIANTS SeenOnceInOrder SeenWasWritten
 
CHECK_DEADLOCK FALSE
