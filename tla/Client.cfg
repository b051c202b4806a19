SPECIFICATION ClientSpec
CONSTANTS
    Proc = {p1, p2}
    Version = {"same", "older_product", "older_protocol", "newer_protocol"}
    SessionId = {s1, s2, s3}
    Kind <- MCKind
    MaxPlayBackSize = 2
    MaxTrial = 1
    Bounds <- MCBounds
INVARIANTS
    SavedServerIsFound
    ShownIsInOrder
    CommittedStaysCommitted
    SessionOnCurrentVersion
CHECK_DEADLOCK FALSE
PROPERTIES
    EveryCallReturns
