CONSTANTS
    MaxCommandLen = 1
    MaxEscapeLen = 2
    MaxFetches = 1
    CastCap = 5
    Bytes <- SomeBytes
    MaxShells = 1
    MaxInput = 4
    MaxPacket = 2
SPECIFICATION Spec
INVARIANTS LinesAsTyped TypingIsDurable  EventsWellFormed
CHECK_DEADLOCK FALSE
