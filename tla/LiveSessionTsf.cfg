SPECIFICATION Spec
CONSTANTS
    Settings <- Tsf
    Char = {a}
    Punctuation = punct
    Best = {"m1"}
    HeldBack = {}
    ZenzMinKeyLength = 1
    MaxPoll = 2
    MaxLength = 2
    None = None
PROPERTIES
    DebouncedConversionHappens
    CorrectionSettles
\* A user who does not type, a silent timer and an idle corrector are a state
\* the program may rest in.
CHECK_DEADLOCK FALSE
