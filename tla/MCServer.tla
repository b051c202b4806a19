------------------------------ MODULE MCServer ------------------------------
\* The parts of the server and its helpers whose state is their own, for TLC: a
\* behaviour picks one part and leaves the others in their first state, so that
\* the parts are explored one after the other and not in every combination.
EXTENDS SessionHandler, ProcessMutex, DataLoader, UserHistoryStorage, FeedbackStore,
        RendererClient

VARIABLE part

\* Ids, configs and requests are only ever compared, and the run checks no
\* liveness, so their permutations are symmetries.
Symmetry ==
    Permutations(SessionID) \cup Permutations(Config) \cup Permutations(Request)

\* Two objects of the name in one process, one in another.
MCHome == [h \in Holder |-> IF h = "h3" THEN "p2" ELSE IF h = "h4" THEN "p3" ELSE "p1"]
\* One request of high priority, two of the same low one.
MCPriority == [r \in DataRequest |-> IF r = "r1" THEN 5 ELSE 20]
\* Nothing to import, or two decisions about one value.
MCRecord(id, c, why) == [id |-> id, value |-> "v1", class |-> c, reason |-> why]
MCTsv == {<< >>, <<MCRecord(11, "empty", "accepted"), MCRecord(12, "japanese_only", "hard_reject")>>}

MCInit ==
    /\ part \in {"handler", "mutex", "loader", "history", "feedback", "renderer"}
    /\ Init /\ MutexInit /\ LoaderInit /\ HistoryInit /\ FeedbackInit /\ RendererInit
    /\ part = "history" \/ disk = {}
    /\ part = "feedback" \/ exported = << >>
    /\ part = "renderer" \/ (renderer = "none" /\ build = "same")

MCNext ==
    \/ /\ part = "handler" /\ Next
       /\ UNCHANGED <<part, mutexVars, loaderVars, historyVars, feedbackVars, rendererVars>>
    \/ /\ part = "mutex" /\ MutexNext
       /\ UNCHANGED <<part, vars, loaderVars, historyVars, feedbackVars, rendererVars>>
    \/ /\ part = "loader" /\ LoaderNext
       /\ UNCHANGED <<part, vars, mutexVars, historyVars, feedbackVars, rendererVars>>
    \/ /\ part = "history" /\ HistoryNext
       /\ UNCHANGED <<part, vars, mutexVars, loaderVars, feedbackVars, rendererVars>>
    \/ /\ part = "feedback" /\ FeedbackNext
       /\ UNCHANGED <<part, vars, mutexVars, loaderVars, historyVars, rendererVars>>
    \/ /\ part = "renderer" /\ RendererNext
       /\ UNCHANGED <<part, vars, mutexVars, loaderVars, historyVars, feedbackVars>>

MCSpec ==
    MCInit /\ [][MCNext]_<<part, vars, mutexVars, loaderVars, historyVars, feedbackVars,
                           rendererVars>>
=============================================================================
