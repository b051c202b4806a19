SPECIFICATION DogSpec
CONSTANTS
    SessionID = {s1}
    MaxSessionSize = 2
    Config = {c1}
    Request = {r1}
    Interval = 1
    MinInterval = 0
    CreateTimeout = 3
    CommandTimeout = 4
    Timeout = 0
    MaxTime = 6
    InfinitePast = InfinitePast
    Samples = 2
    Load = {0, 50}
    PingTrial = 2
    None = None
PROPERTIES
    SleepIsNotIdleness
    WatchDogEnds
\* The thread and the server end.
CHECK_DEADLOCK FALSE
