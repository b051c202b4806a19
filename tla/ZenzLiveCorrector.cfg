SPECIFICATION Spec
CONSTANTS
    Key = {k1, k2}
    Outcome = {ok, timeout}
    MaxGeneration = 4
    None = None
INVARIANTS
    NoLostWakeup
    ThreadMatchesFlag
PROPERTIES
    DeliversOnlyTheLatest
    ConvertsOnlyTheLatest
    StopReturns
    SubmissionIsAnswered
    MailboxSpec
\* The owner need not call again, and a stopped corrector has no thread.
CHECK_DEADLOCK FALSE
