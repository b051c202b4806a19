SPECIFICATION MCSpec
SYMMETRY Symmetry
CONSTANTS
    SessionID = {s1, s2, s3}
    MaxSessionSize = 2
    Config = {c1, c2}
    Request = {q1, q2}
    Interval = 1
    MinInterval = 1
    CreateTimeout = 1
    CommandTimeout = 2
    Timeout = 0
    MaxTime = 3
    InfinitePast = InfinitePast
    Process = {"p1", "p2", "p3"}
    Holder = {"h1", "h2", "h3", "h4"}
    Home <- MCHome
    Inode = {"i1", "i2", "i3", "i4"}
    DataRequest = {"r1", "r2", "r3"}
    Priority <- MCPriority
    HighPriority = 10
    Entry = {"e1", "e2"}
    Value = {"v1"}
    ContextClass = {"empty", "japanese_only"}
    Reason = {"accepted", "hard_reject"}
    Tsv <- MCTsv
    MaxRecords = 3
    MaxLines = 5
    MaxEdits = 2
    MaxTears = 1
    Window = {"w1", "w2"}
    MaxErrorTimes = 1
    MaxVersionMismatchNums = 2
INVARIANTS
    ListMatchesTable
    SessionsShareSettings
    EmptyTimeMatchesTable
    ExclusionUnlessStolen
    DataIsCurrent
    ResponseNotShared
    PendingHasLoader
    HistoryIsOnDisk
    StoreMatchesHistory
    RemovedStaysRemoved
    TearLosesTwoAtMost
    LastUpdateIsShown
PROPERTIES
    SessionLossHasReason
\* A server that was shut down evaluates nothing: it may stop.
CHECK_DEADLOCK FALSE
