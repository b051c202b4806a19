SPECIFICATION Spec
CONSTANTS
    Settings <- Fcitx
    Char = {a, b}
    Punctuation = punct
    Best = {"m1"}
    HeldBack = {b}
    ZenzMinKeyLength = 2
    MaxPoll = 2
    MaxLength = 2
    None = None
PROPERTIES
    NoTextLost
\* A user who does not type, a silent timer and an idle corrector are a state
\* the program may rest in.
CHECK_DEADLOCK FALSE
