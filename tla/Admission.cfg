SPECIFICATION Spec
CONSTANTS
    Conns = {c1, c2}
    Addrs <- SomeAddrs
    MaxSessions = 1
    MaxPerIp = 1
    MaxPerMinute = 2
    MaxTracked = 2
    Window = 1
    MaxTime = 3
SYMMETRY ConnSymmetry
INVARIANTS
    SlotAccounting
    PermitAccounting
    SourceCap
    TableBound
    RateBound
PROPERTIES
    ForgetsOnlyDrained
    NoSpuriousRefusal
