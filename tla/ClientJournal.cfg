SPECIFICATION ClientSpec
CONSTANTS
    Proc = {p1, p2}
    Version = {"same", "older_product", "older_protocol", "newer_protocol"}
    SessionId = {s1, s2, s3}
    Kind <- MCKind
    MaxPlayBackSize = 3
    MaxTrial = 1
    Bounds <- JournalBounds
PROPERTIES
    ReplayRestores
CHECK_DEADLOCK FALSE
