SPECIFICATION DogSpec
CONSTANTS
    SessionID = {s1}
    MaxSessionSize = 2
    Config = {c1}
    Request = {r1}
    Interval = 1
    MinInterval = 0
    CreateTimeout = 3
    CommandTimeout = 4
    Timeout = 0
    MaxTime = 2
    InfinitePast = InfinitePast
    Samples = 12
    Load = {12}
    PingTrial = 2
    None = None
INVARIANTS
    SendsUnderAcceptableLoad
\* The thread and the server end.
CHECK_DEADLOCK FALSE
