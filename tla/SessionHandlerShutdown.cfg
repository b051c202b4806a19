SPECIFICATION Spec
CONSTANTS
    SessionID = {s1}
    MaxSessionSize = 2
    Config = {c1}
    Request = {r1}
    Interval = 1
    MinInterval = 1
    CreateTimeout = 1
    CommandTimeout = 2
    Timeout = 1
    MaxTime = 3
    InfinitePast = InfinitePast
PROPERTIES
    ShutdownOnlyWhenEmpty
\* A server that was shut down evaluates nothing: it may stop.
CHECK_DEADLOCK FALSE
