SPECIFICATION ScorerSpec
CONSTANTS
    Scorer = {s1, s2}
    Caller = {c1}
    Backlog = 1
    MaxRetry = 2
    Thread = {1, 2, 3}
    ScorerBounds <- MCScorerBounds
INVARIANTS
    ServingIsReachable
    ProbingHasThread
PROPERTIES
    ConvertReturns
