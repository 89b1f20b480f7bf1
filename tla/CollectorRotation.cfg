CONSTANTS
    MaxEvents = 7
    Size <- ShortSizes
    BufCap = 2
    ChanCap = 1
    MaxLog = 5
    Generations = 2
    Faults <- WriteFaults
    MaxStops = 1
SPECIFICATION Spec
INVARIANTS RetainedUnbroken LogBounded
PROPERTIES OnlyOldestDropped
CHECK_DEADLOCK FALSE
