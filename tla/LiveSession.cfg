SPECIFICATION Spec
CONSTANTS
    Settings <- Safe
    Char = {a, b}
    Punctuation = punct
    Best = {"m1", "m2"}
    HeldBack = {b}
    ZenzMinKeyLength = 2
    MaxPoll = 2
    MaxLength = 2
    None = None
INVARIANTS
    LiveConversionIsCurrent
    PendingConversionIsCurrent
    CorrectionIsCurrent
    LearningIsDecided
PROPERTIES
    FeedbackIsRecordedOrDiscarded
    CallbackKeepsPreedit
    NoTextLostWhenCurrent
    OffStaysOff
\* A user who does not type, a silent timer and an idle corrector are a state
\* the program may rest in.
CHECK_DEADLOCK FALSE
