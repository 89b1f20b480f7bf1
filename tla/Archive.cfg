CONSTANTS
    s1 = s1
    s2 = s2
    a1 = a1
    a2 = a2
    w1 = w1
    w2 = w2
    Ids <- TwoIds
    Addr <- TwoAddrs
    Words <- TwoWords
    Placeless <- OneAddr
    RecentCap = 1
    ArchiveCap = 1
    CounterCap = 1
    KnownCap = 1
    HourlyWindow = 0
    MaxHour = 1
    MaxShells = 2
    MaxCommands = 1
    MaxPayloads = 1
    PipeCap = 2
    MaxSent = 5
SPECIFICATION Spec
INVARIANTS ArchiveConsistent RecordsExact  HourlyExact 
CHECK_DEADLOCK FALSE
