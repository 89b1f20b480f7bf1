CONSTANTS
    s1 = s1
    s2 = s2
    s3 = s3
    a1 = a1
    w1 = w1
    Ids <- SomeIds
    Addr <- OneAddr
    Words <- OneWord
    Placeless <- None
    RecentCap = 2
    ArchiveCap = 2
    CounterCap = 2
    KnownCap = 1
    HourlyWindow = 1
    MaxHour = 0
    Fed <- FedKinds
    MaxLines = 3
    BroadcastCap = 2
    FeedCap = 3
    FeedLimit = 2
    PageLimit = 1
    MaxRequests = 2
    MaxMishaps = 1
SPECIFICATION BrowserSpec
SYMMETRY Renamings
INVARIANTS FeedOnceInOrder AnswersCoverFeed BacklogNotNew PagesMissNothing
CHECK_DEADLOCK FALSE
