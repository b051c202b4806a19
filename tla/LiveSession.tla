----------------------------- MODULE LiveSession -----------------------------
(***************************************************************************)
(* session/session.cc: live conversion, the Zenz correction on top of it   *)
(* and the feedback and learning that a commit leaves pending, for one     *)
(* session, its client's callback timer and the corrector thread.          *)
(*                                                                         *)
(* A command (SendKey, SendCommand) runs under the server's lock: it is    *)
(* one step.  The step is computed on a record c with the session's        *)
(* members in c.s and the reply in the other fields; the operators below   *)
(* are the methods of Session, each from such a record to the next.        *)
(*                                                                         *)
(* A generation is only ever compared for equality, so "++generation" is   *)
(* the choice of a number nothing refers to any more.                      *)
(***************************************************************************)
EXTENDS Naturals, Sequences, SequencesExt

CONSTANTS
    Char,              \* ordinary characters
    Punctuation,       \* the character that commits directly
    Best,              \* what the converter may rank first for a key
    HeldBack,          \* characters after which a key is not yet converted
    ZenzMinKeyLength,  \* zenz_live_correction_min_key_length
    MaxPoll,           \* polls until zenz_async_poll_exhausted
    Settings,          \* the users' configurations and clients
    MaxLength,         \* bound: characters of a composition
    None

ASSUME LengthAssumption ==
    /\ ZenzMinKeyLength \in Nat \ {0}
    /\ MaxLength \in Nat \ {0}
ASSUME PollAssumption == MaxPoll \in Nat \ {0}
ASSUME SettingsAssumption ==
    Settings \subseteq [live_delayed : BOOLEAN, zenz_delayed : BOOLEAN,
                        timer_reset : BOOLEAN, min_key_length : Nat \ {0},
                        best : SUBSET Best]

VARIABLES
    setting,           \* the configuration of this session and its client
    session,           \* the members of Session
    screen,            \* the preedit of the last reply
    result,            \* the text this step commits, None if none
    recorded,          \* what this step writes to zenz_feedback_store_
    timer,             \* the client's pending callback
    latest_request,    \* the corrector's queue,
    running,           \*   its conversion
    latest_result      \*   and its answer

\* Six things hold a generation, two pendings, the timer and the mailbox: one of
\* seven numbers is free.
Generation == 1 .. 7
Key == UNION {[1 .. n -> Char] : n \in 0 .. MaxLength}
Job == [key : Key, mozc : Best]
Outcome == {"ok", "failed"}

Mail == INSTANCE ZenzMailbox WITH Key <- Job

vars == <<setting, session, screen, result, recorded, timer,
          latest_request, running, latest_result>>

-----------------------------------------------------------------------------
\* A text: what the converter (or Zenz, or nobody: "raw") made of key, and
\* then characters as they were typed.
Text(by, key, tail) == [by |-> by, key |-> key, tail |-> tail]
Raw(characters) == Text("raw", <<>>, characters)

\* live_conversion_min_key_length; live_conversion_delay_msec > 0 and
\* zenz_live_correction_delay_msec > 0; and whether the client drops its timer
\* on every key (fcitx5) or keeps it (TSF). setting.best bounds how many values
\* the converter has for a key.
MinKeyLength == setting.min_key_length
LiveDelayed == setting.live_delayed
ZenzDelayed == setting.zenz_delayed
TimerResetByKey == setting.timer_reset

Init ==
    /\ setting \in Settings
    /\ session = [state |-> "PRECOMPOSITION", composition |-> <<>>, cursor |-> 0,
                  converter |-> None,
                  active |-> FALSE, live_key |-> <<>>, live_value |-> None,
                  pending_live |-> None, pending_zenz |-> None, zenz |-> None,
                  feedback |-> None, learning |-> FALSE]
    /\ screen = Raw(<<>>) /\ result = None /\ recorded = None
    /\ timer = None
    /\ Mail!Init

\* The command being executed.
Begin == [s |-> session, out |-> Raw(<<>>), callback |-> None,
          call |-> [op |-> "none"], result |-> None, recorded |-> None]

\* ++live_conversion_generation_, ++zenz_live_generation_
Holds(x, g) == x # None /\ x.generation = g
HeldGenerations ==
    {g \in Generation :
        \/ Holds(session.pending_live, g) \/ Holds(session.pending_zenz, g)
        \/ Holds(timer, g)
        \/ Holds(latest_request, g) \/ Holds(running, g) \/ Holds(latest_result, g)}
FreshGeneration == CHOOSE g \in Generation : g \notin HeldGenerations

-----------------------------------------------------------------------------
\* External: engine/engine_converter.cc as the session uses it.  converter is
\* None in its COMPOSITION state; otherwise a list made for key with the value
\* in focus.
Suggestion(key) == [kind |-> "suggestion", key |-> key, value |-> "suggested"]
Conversion(key, value) == [kind |-> "conversion", key |-> key, value |-> value]

Converting(s) == s.converter # None /\ s.converter.kind = "conversion"
PopOutput(s) ==
    IF Converting(s) THEN Text(s.converter.value, s.converter.key, <<>>)
                     ELSE Raw(s.composition)

Output(c) == [c EXCEPT !.out = PopOutput(c.s)]
OutputComposition(c) == [c EXCEPT !.out = Raw(c.s.composition)]
OutputFromState(c) == IF c.s.state = "DIRECT" THEN c ELSE Output(c)

\* Suggest starts from nothing; Predict reuses the suggestions there are.
Suggest(c, found) ==
    OutputComposition([c EXCEPT !.s.converter =
                          IF found THEN Suggestion(c.s.composition) ELSE None])
Predicted(s) ==
    Conversion(IF s.converter = None THEN s.composition ELSE s.converter.key,
               "suggested")

\* SetSessionState: leaving the text empties the composer.
SetSessionState(c, state) ==
    IF state \in {"DIRECT", "PRECOMPOSITION"}
    THEN [c EXCEPT !.s.state = state, !.s.composition = <<>>, !.s.cursor = 0]
    ELSE [c EXCEPT !.s.state = state]
SetStateToPrecompositionAndCancel(c) ==
    [SetSessionState(c, "PRECOMPOSITION") EXCEPT !.s.converter = None]

\* External: the composer's editing at its cursor.
InsertCharacterKeyEvent(c, ch) ==
    [c EXCEPT !.s.composition = InsertAt(@, c.s.cursor + 1, ch), !.s.cursor = @ + 1]
BackspaceComposer(c) ==
    IF c.s.cursor = 0 THEN c
    ELSE [c EXCEPT !.s.composition = RemoveAt(@, c.s.cursor), !.s.cursor = @ - 1]

-----------------------------------------------------------------------------
\* Live conversion and Zenz correction
CancelPendingZenzLiveCorrection(c) ==
    [c EXCEPT !.s.pending_zenz = None, !.call = [op |-> "cancel"]]
ClearZenzLiveCorrectionState(c) ==
    [CancelPendingZenzLiveCorrection(c) EXCEPT !.s.zenz = None]
CancelPendingLiveConversion(c) ==
    [CancelPendingZenzLiveCorrection(c) EXCEPT !.s.pending_live = None]
ForgetLiveConversion(c) ==
    [ClearZenzLiveCorrectionState(c) EXCEPT !.s.live_key = <<>>, !.s.live_value = None]
ClearLiveConversionState(c) ==
    [ForgetLiveConversion(c) EXCEPT !.s.active = FALSE, !.s.pending_live = None]

\* Faults: an edit leaves the live conversion it cancels; an edit of a text
\* that is not converted leaves the conversion pending.
EditInsideLiveConversion(c) == ClearZenzLiveCorrectionState(CancelPendingLiveConversion(c))
EditKeepsPendingLiveConversion(c) ==
    IF ~c.s.active THEN c
    ELSE [SetSessionState(ClearLiveConversionState(c), "COMPOSITION") EXCEPT
             !.s.converter = None]

CancelLiveConversionForEditing(c) ==
    LET d == ClearZenzLiveCorrectionState(CancelPendingLiveConversion(c))
    IN  IF ~c.s.active THEN d
        ELSE [SetSessionState(d, "COMPOSITION") EXCEPT !.s.active = FALSE,
                                                       !.s.converter = None]

\* Short keys, and longer ones that end in a symbol or look unfinished.
ShouldSkip(key) == Len(key) < MinKeyLength \/ Last(key) \in HeldBack
AtEnd(s) == s.cursor = Len(s.composition)
CanStart(s) == s.state = "COMPOSITION" /\ ~ShouldSkip(s.composition) /\ AtEnd(s)

HasVisibleZenzLiveCorrection(s) ==
    /\ s.zenz # None
    /\ s.active
    /\ s.state = "CONVERSION"
    /\ s.live_key = s.zenz.key
    /\ s.live_value = s.zenz.mozc

\* Fault: the reply asks for no callback.
CallbackForNobody(pending) == None

CallbackFor(pending) ==
    [type |-> "zenz", generation |-> pending.generation, key |-> pending.key]

\* The first Advance of a pending correction submits it.
SubmitZenz(c) ==
    LET pending == [c.s.pending_zenz EXCEPT !.submitted = TRUE, !.polls = 0]
    IN  [c EXCEPT !.s.pending_zenz = pending,
                  !.call = [op |-> "submit",
                            request |-> [generation |-> pending.generation,
                                         key |-> [key |-> pending.key,
                                                  mozc |-> pending.mozc]]],
                  !.callback = CallbackFor(pending)]

MaybeScheduleZenzLiveCorrection(c) ==
    LET pending == [generation |-> FreshGeneration, key |-> c.s.live_key,
                    mozc |-> c.s.live_value, submitted |-> FALSE, polls |-> 0]
        d == [c EXCEPT !.s.pending_zenz = pending]
    IN  IF Len(c.s.live_key) < ZenzMinKeyLength THEN c
        ELSE IF ZenzDelayed THEN [d EXCEPT !.callback = CallbackFor(pending)]
        ELSE SubmitZenz(d)

\* A correction is put in front of the Mozc value; answers names the request
\* it answers.
ShowZenz(c, answers) ==
    [c EXCEPT !.s.zenz = [key |-> c.s.live_key, mozc |-> c.s.live_value,
                          answers |-> answers],
              !.s.pending_zenz = None,
              !.out = Text("zenz", c.s.live_key, <<>>)]

\* Answers of the converter and the feedback store: whether there is a
\* conversion and which comes first, whether accepted feedback is replayed at
\* once, and whether there are suggestions (asked for only without conversion).
Answer ==
    {answer \in [start : {"fails", "converts", "replays"}, value : setting.best,
                 suggests : BOOLEAN] :
        answer.suggests => answer.start = "fails"}

\* MaybeStartLiveConversion once its guards (CanStart) hold.
StartLiveConversion(c, answer) ==
    LET d == [c EXCEPT !.s.pending_live = None]
        converted == [SetSessionState(d, "CONVERSION") EXCEPT
                         !.s.converter = Conversion(c.s.composition, answer.value),
                         !.s.active = TRUE,
                         !.s.live_key = c.s.composition,
                         !.s.live_value = answer.value]
        e == ClearZenzLiveCorrectionState(Output(converted))
    IN  IF answer.start = "fails" THEN OutputComposition(d)
        ELSE IF answer.start = "replays" /\ Len(c.s.composition) >= ZenzMinKeyLength
        THEN ShowZenz(e, [key |-> c.s.composition, mozc |-> answer.value])
        ELSE MaybeScheduleZenzLiveCorrection(e)

\* The pending display: the last conversion, then what was typed since.
HasStableLiveConversion(s) == s.live_key # <<>>
CanOutputPending(s) == HasStableLiveConversion(s) => IsPrefix(s.live_key, s.composition)
\* Fault: what was typed since the last conversion is left out.
PendingPrefix(s) == IF HasStableLiveConversion(s) THEN Text(s.live_value, s.live_key, <<>>)
                                                  ELSE Raw(s.composition)
PendingText(s) ==
    IF HasStableLiveConversion(s)
    THEN Text(s.live_value, s.live_key,
              SubSeq(s.composition, Len(s.live_key) + 1, Len(s.composition)))
    ELSE Raw(s.composition)
OutputPendingLiveConversion(c) ==
    IF CanOutputPending(c.s) THEN [c EXCEPT !.out = PendingText(c.s)] ELSE c

\* In COMPOSITION: schedule, or cancel and fall back to suggestions.
ScheduleLiveConversionOrSuggest(c, answer) ==
    LET pending == [generation |-> FreshGeneration, key |-> c.s.composition]
        d == [c EXCEPT !.s.pending_live = pending]
    IN  IF ~CanStart(c.s) THEN Suggest(CancelPendingLiveConversion(c), answer.suggests)
        ELSE IF ~LiveDelayed THEN StartLiveConversion(c, answer)
        ELSE IF CanOutputPending(c.s)
        THEN [OutputPendingLiveConversion(d) EXCEPT
                 !.callback = [type |-> "live", generation |-> pending.generation,
                               key |-> pending.key]]
        ELSE StartLiveConversion(d, answer)

\* The conversion is made for the commit alone: its reply is thrown away.
FlushPendingLiveConversion(c, answer) ==
    LET p == c.s.pending_live
    IN  IF p = None THEN c
        ELSE IF \/ c.s.state # "COMPOSITION"
                \/ c.s.composition # p.key
                \/ ShouldSkip(c.s.composition)
        THEN CancelPendingLiveConversion(c)
        ELSE IF ~CanStart(c.s) THEN c
        ELSE [StartLiveConversion(c, answer) EXCEPT !.out = c.out, !.callback = None]

-----------------------------------------------------------------------------
\* Callbacks
\* Fault: a stale callback is answered with an empty Output.
AnswerStaleWithNothing(c) == c
\* Fault: a stale callback starts the session afresh.
ResetAtStaleCallback(c) == Output(SetStateToPrecompositionAndCancel(c))

IgnoreStaleDelayedLiveConversion(c) ==
    IF c.s.pending_live # None THEN OutputPendingLiveConversion(c)
    ELSE OutputFromState(c)

ApplyDelayedLiveConversion(c, callback, answer) ==
    LET p == c.s.pending_live
    IN  IF \/ p = None
           \/ callback.generation # p.generation
           \/ callback.key # p.key
           \/ c.s.state # "COMPOSITION"
           \/ c.s.composition # p.key
        THEN IgnoreStaleDelayedLiveConversion(c)
        ELSE IF ~CanStart(c.s) THEN OutputFromState(CancelPendingLiveConversion(c))
        ELSE StartLiveConversion(c, answer)

IsCurrentZenzLiveCorrectionCallback(s, callback) ==
    LET p == s.pending_zenz
    IN  /\ p # None
        /\ callback.generation = p.generation
        /\ callback.key = p.key
        /\ s.state = "CONVERSION"
        /\ s.active
        /\ s.live_key = p.key
        /\ s.live_value = p.mozc

\* A response that is not ok, fails validation or is refused by privacy rules
\* or feedback (judged is FALSE) leaves the Mozc value.
ApplyZenzLiveCorrectionResult(c, response, judged) ==
    IF response.outcome = "ok" /\ judged
    THEN ShowZenz(c, response.key)
    ELSE Output(CancelPendingZenzLiveCorrection(c))

ZenzAsyncPollExhausted(polls) == polls >= MaxPoll

\* Submit first; then poll until there is a result or the wait is over.
AdvancePendingZenzLiveCorrection(c, judged) ==
    LET p == c.s.pending_zenz
        response == Mail!Taken(p.generation)
        taken == [c EXCEPT !.call = [op |-> "take", generation |-> p.generation]]
        polled == [p EXCEPT !.polls = @ + 1]
    IN  IF ~p.submitted THEN Output(SubmitZenz(c))
        ELSE IF response # None THEN ApplyZenzLiveCorrectionResult(taken, response, judged)
        ELSE IF ZenzAsyncPollExhausted(polled.polls) \/ ~judged
        THEN Output(CancelPendingZenzLiveCorrection(taken))
        ELSE Output([taken EXCEPT !.s.pending_zenz = polled,
                                  !.callback = CallbackFor(p)])

ApplyZenzLiveCorrection(c, callback, judged) ==
    IF IsCurrentZenzLiveCorrectionCallback(c.s, callback)
    THEN AdvancePendingZenzLiveCorrection(c, judged)
    ELSE IgnoreStaleDelayedLiveConversion(c)

-----------------------------------------------------------------------------
\* Feedback and learning
SetPendingZenzFeedbackAccepted(c, zenz) ==
    [c EXCEPT !.s.feedback = [action |-> "accepted", key |-> zenz.key]]
SetPendingZenzFeedbackRejected(c) ==
    IF HasVisibleZenzLiveCorrection(c.s)
    THEN [c EXCEPT !.s.feedback = [action |-> "rejected", key |-> c.s.zenz.key]]
    ELSE c
ConfirmPendingZenzFeedback(c) ==
    IF c.s.feedback = None THEN c
    ELSE [c EXCEPT !.recorded = c.s.feedback, !.s.feedback = None]

\* Fault: a correcting operation writes the feedback it should discard.
DiscardPendingRecords(c) ==
    [ConfirmPendingZenzFeedback(c) EXCEPT !.s.learning = FALSE]

\* Both pendings, discarded together by every correcting operation.
DiscardPending(c) == [c EXCEPT !.s.feedback = None, !.s.learning = FALSE]

\* Fault: the direct commit's learning is not confirmed.
ConfirmFeedbackOnly(c) == ConfirmPendingZenzFeedback(c)

\* ConfirmPendingDirectCommitLearning and the feedback's confirmation.
ConfirmPending(c) == ConfirmPendingZenzFeedback([c EXCEPT !.s.learning = FALSE])

-----------------------------------------------------------------------------
\* Commits
DoNothing(c) ==
    IF c.s.state \in {"COMPOSITION", "CONVERSION"} THEN Output(c) ELSE c

\* The text is appended to a result the command already has.
CommitStringDirectly(c, text) ==
    LET d == SetSessionState([c EXCEPT !.s.converter = None], "PRECOMPOSITION")
    IN  Output([d EXCEPT !.result =
                   IF c.result = None THEN text
                   ELSE Text(c.result.by, c.result.key, c.result.tail \o text.tail)])
CommitCompositionDirectly(c) == CommitStringDirectly(c, Raw(c.s.composition))

CommitInternal(c) ==
    IF c.s.state \notin {"COMPOSITION", "CONVERSION"} THEN DoNothing(c)
    ELSE LET text == IF c.s.state = "COMPOSITION" THEN Raw(c.s.composition)
                                                  ELSE PopOutput(c.s)
             d == [c EXCEPT !.result = text, !.s.converter = None]
         IN  ClearLiveConversionState(Output(SetSessionState(d, "PRECOMPOSITION")))

CommitZenzLiveCorrectionResult(c) ==
    CommitStringDirectly(
        ClearLiveConversionState(SetPendingZenzFeedbackAccepted(c, c.s.zenz)),
        Text("zenz", c.s.zenz.key, <<>>))

Commit(c, answer) ==
    IF HasVisibleZenzLiveCorrection(c.s) THEN CommitZenzLiveCorrectionResult(c)
    ELSE CommitInternal(FlushPendingLiveConversion(c, answer))

CommitPendingLiveConversionDisplayDirectly(c) ==
    CommitStringDirectly(ClearLiveConversionState(c),
                         IF CanOutputPending(c.s) THEN PendingText(c.s)
                                                  ELSE Raw(c.s.composition))

\* Live conversion has been cancelled, its value still stands in live_value.
CommitLiveConversionResult(c) ==
    IF c.s.live_value = None THEN CommitCompositionDirectly(c)
    ELSE CommitStringDirectly(ClearLiveConversionState(c),
                              Text(c.s.live_value, c.s.live_key,
                                   <<Last(c.s.composition)>>))

-----------------------------------------------------------------------------
\* Keys
InsertCharacter(c, ch, answer) ==
    LET a == IF c.s.state = "CONVERSION" THEN [c EXCEPT !.s.learning = FALSE]
                                         ELSE ConfirmPending(c)
        visible == HasVisibleZenzLiveCorrection(a.s)
        b == CancelLiveConversionForEditing(a)
        should_commit == b.s.state = "CONVERSION"
        d == IF should_commit THEN ConfirmPendingZenzFeedback(CommitInternal(b)) ELSE b
        e == InsertCharacterKeyEvent(d, ch)
        f == IF ~a.s.active /\ Len(e.s.composition) = 1 THEN ForgetLiveConversion(e) ELSE e
    IN  IF /\ ch = Punctuation
           /\ a.s.pending_live # None /\ a.s.state = "COMPOSITION" /\ AtEnd(a.s)
        THEN CommitPendingLiveConversionDisplayDirectly(InsertCharacterKeyEvent(a, ch))
        ELSE IF ch # Punctuation \/ ~AtEnd(f.s)
        THEN ScheduleLiveConversionOrSuggest(SetSessionState(f, "COMPOSITION"), answer)
        ELSE IF visible
        THEN CommitStringDirectly(
                 ClearLiveConversionState(SetPendingZenzFeedbackAccepted(f, a.s.zenz)),
                 Text("zenz", a.s.zenz.key, <<ch>>))
        ELSE IF a.s.active THEN CommitLiveConversionResult(f)
        ELSE CommitCompositionDirectly([f EXCEPT !.s.learning = should_commit])

Backspace(c, answer) ==
    LET d == BackspaceComposer(CancelLiveConversionForEditing(DiscardPending(c)))
    IN  IF d.s.composition = <<>> THEN Output(SetStateToPrecompositionAndCancel(d))
        ELSE IF CanStart(d.s) THEN StartLiveConversion(d, answer)
        ELSE Suggest(d, answer.suggests)

EditCancel(c) ==
    Output(ClearLiveConversionState(SetStateToPrecompositionAndCancel(DiscardPending(c))))

ConvertCancel(c, answer) ==
    LET d == SetSessionState(ClearLiveConversionState(DiscardPending(c)), "COMPOSITION")
    IN  Suggest([d EXCEPT !.s.converter = None], answer.suggests)

ConvertNext(c) == Output([c EXCEPT !.s.converter.value = "other"])

\* Fault: the refused correction stays the visible one.
PromoteKeepsZenz(c) ==
    IF ~c.s.active THEN c
    ELSE [SetPendingZenzFeedbackRejected(c) EXCEPT !.s.active = FALSE]

\* An explicit conversion operation ends live conversion, refusing Zenz.
Promote(c) ==
    IF ~c.s.active THEN c
    ELSE [ClearZenzLiveCorrectionState(SetPendingZenzFeedbackRejected(c))
             EXCEPT !.s.active = FALSE]

RevertZenzLiveCorrectionToNormalConversion(c) ==
    [ClearLiveConversionState(SetPendingZenzFeedbackRejected(c))
        EXCEPT !.out = Text(c.s.live_value, c.s.live_key, <<>>)]

Convert(c, answer) ==
    LET d == CancelPendingLiveConversion(c)
    IN  IF answer.start = "fails" THEN OutputComposition(d)
        ELSE Output([SetSessionState(d, "CONVERSION") EXCEPT
                        !.s.converter = Conversion(d.s.composition, answer.value)])

\* PredictAndConvert and, from a live conversion, PredictAndConvertFromLive...
Predict(c, answer) ==
    IF c.s.converter = None /\ answer.start = "fails" THEN OutputComposition(c)
    ELSE Output([SetSessionState(c, "CONVERSION") EXCEPT !.s.converter = Predicted(c.s)])
PredictAndConvert(c, answer) ==
    LET d == CancelPendingLiveConversion(c)
        e == SetSessionState(ClearLiveConversionState(SetPendingZenzFeedbackRejected(d)),
                             "COMPOSITION")
    IN  IF c.s.state = "COMPOSITION" THEN Predict(d, answer)
        ELSE IF c.s.active THEN Predict([e EXCEPT !.s.converter = None], answer)
        ELSE ConvertNext(d)

CommitFirstSuggestion(c) ==
    LET d == [c EXCEPT !.result = Text(c.s.converter.value, c.s.converter.key, <<>>),
                       !.s.converter = None]
    IN  Output(SetSessionState(d, "PRECOMPOSITION"))

IMEOff(c, answer) ==
    LET d == Commit(ConfirmPending(c), answer)
    IN  [SetSessionState([d EXCEPT !.s.converter = None], "DIRECT") EXCEPT !.out = Raw(<<>>)]

-----------------------------------------------------------------------------
\* The end of SendKey and SendCommand, and the corrector's part of it.
LeaveConversion(c) ==
    IF c.s.state = "CONVERSION" THEN c
    ELSE [ClearZenzLiveCorrectionState(c) EXCEPT !.s.active = FALSE]

CallCorrector(call) ==
    CASE call.op = "none"   -> UNCHANGED <<latest_request, running, latest_result>>
      [] call.op = "cancel" -> Mail!CancelPending
      [] call.op = "take"   -> Mail!TakeResult(call.generation)
      [] call.op = "submit" -> Mail!Submit(call.request)

Finish(c) ==
    /\ session' = c.s
    /\ screen' = c.out
    /\ result' = c.result
    /\ recorded' = c.recorded
    /\ CallCorrector(c.call)
    /\ UNCHANGED setting

\* Fault: the timer is dropped with every key and nothing arms it again.
SendKeyDropsTimer(c) ==
    LET d == LeaveConversion(c)
    IN  Finish(d) /\ timer' = d.callback

\* fcitx5 resets its timer before it sends a key, and with the reply to a click or a
\* SUBMIT; the TSF client keeps it until a reply brings another callback.
SendKey(c) ==
    LET d == LeaveConversion(c)
    IN  /\ Finish(d)
        /\ timer' = IF TimerResetByKey \/ d.callback # None THEN d.callback ELSE timer
\* Neither drops it for the other commands.
SendCommand(c) ==
    LET d == LeaveConversion(c)
    IN  /\ Finish(d)
        /\ timer' = IF d.callback # None THEN d.callback ELSE timer

InState(states) == session.state \in states

\* Before the end of the text the punctuation is one more character of Char.
CharacterKey(ch) ==
    /\ ~InState({"DIRECT"})
    /\ IF ch = Punctuation THEN AtEnd(session)
                           ELSE Len(session.composition) < MaxLength
    /\ \E answer \in Answer : SendKey(InsertCharacter(Begin, ch, answer))

BackspaceKey ==
    \E answer \in Answer :
        SendKey(IF InState({"DIRECT", "PRECOMPOSITION"}) THEN DiscardPending(Begin)
                ELSE IF InState({"CONVERSION"}) /\ ~session.active
                THEN ConvertCancel(Begin, answer)
                ELSE Backspace(Begin, answer))

EscapeKey ==
    \E answer \in Answer :
        SendKey(IF InState({"DIRECT", "PRECOMPOSITION"}) THEN DiscardPending(Begin)
                ELSE IF InState({"CONVERSION"}) THEN ConvertCancel(Begin, answer)
                ELSE EditCancel(Begin))

\* A visible correction is committed before anything else; otherwise Enter
\* leaves live conversion first.
EnterKey ==
    /\ InState({"COMPOSITION", "CONVERSION"})
    /\ \E answer \in Answer :
          SendKey(Commit([Begin EXCEPT !.s.active =
                             HasVisibleZenzLiveCorrection(session)], answer))

SpaceKey ==
    /\ InState({"COMPOSITION", "CONVERSION"})
    /\ \E answer \in Answer :
          SendKey(IF InState({"COMPOSITION"}) THEN Convert(Begin, answer)
                  ELSE IF HasVisibleZenzLiveCorrection(session)
                  THEN RevertZenzLiveCorrectionToNormalConversion(Begin)
                  ELSE ConvertNext(Promote(Begin)))

TabKey ==
    /\ InState({"COMPOSITION", "CONVERSION"})
    /\ \E answer \in Answer : SendKey(PredictAndConvert(Begin, answer))

\* Left and right: the cursor in a composition, the segment in a conversion.
ArrowKey ==
    \/ /\ InState({"COMPOSITION"})
       /\ \E n \in 0 .. Len(session.composition), found \in BOOLEAN :
             /\ n \in {session.cursor - 1, session.cursor + 1}
             /\ SendKey(Suggest([Begin EXCEPT !.s.cursor = n], found))
    \/ /\ InState({"CONVERSION"})
       /\ SendKey(Output(Promote(Begin)))

ShiftEnterKey ==
    /\ InState({"COMPOSITION"})
    /\ session.converter # None
    /\ SendKey(CommitFirstSuggestion(Begin))

ImeOffKey ==
    /\ ~InState({"DIRECT"})
    /\ \E answer \in Answer : SendKey(IMEOff(Promote(Begin), answer))

ImeOnKey ==
    /\ InState({"DIRECT"})
    /\ SendKey(SetSessionState(Begin, "PRECOMPOSITION"))

\* A key without a binding, in a composition or a conversion.
UnboundKey ==
    /\ InState({"COMPOSITION", "CONVERSION"})
    /\ SendKey(DoNothing(Begin))

-----------------------------------------------------------------------------
\* Commands of the client
SelectCandidate ==
    /\ ~InState({"DIRECT"})
    /\ session.converter # None
    /\ LET c == IF Converting(session) THEN Begin
                ELSE [Begin EXCEPT !.s.converter = Predicted(session)]
       IN  SendKey(ConvertNext(SetSessionState(c, "CONVERSION")))

Submit == \E answer \in Answer : SendKey(Commit(Begin, answer))

\* REVERT; fcitx5 sends it on reset and focus out and drops its timer.
Revert ==
    LET c == LeaveConversion(
                 IF InState({"COMPOSITION", "CONVERSION"}) THEN EditCancel(Begin)
                 ELSE DiscardPending(Begin))
    IN  /\ Finish(c)
        /\ timer' = IF TimerResetByKey THEN None ELSE timer

\* RESET_CONTEXT ends in PRECOMPOSITION from DIRECT too.
ResetContext ==
    SendCommand(IF InState({"PRECOMPOSITION"}) THEN DiscardPending(Begin) ELSE EditCancel(Begin))

TurnOffIme ==
    \E answer \in Answer :
        SendCommand(IF InState({"DIRECT"}) THEN ConfirmPending(Begin)
                    ELSE IMEOff(Begin, answer))

\* The timer fires: APPLY_LIVE_CONVERSION or APPLY_ZENZ_LIVE_CORRECTION.
SendCallback(c) ==
    LET d == LeaveConversion(c)
    IN  Finish(d) /\ timer' = d.callback

LiveCallback ==
    /\ timer # None /\ timer.type = "live"
    /\ \E answer \in Answer : SendCallback(ApplyDelayedLiveConversion(Begin, timer, answer))

ZenzCallback ==
    /\ timer # None /\ timer.type = "zenz"
    /\ \E judged \in BOOLEAN : SendCallback(ApplyZenzLiveCorrection(Begin, timer, judged))

Corrector ==
    /\ Mail!Convert
    /\ result' = None /\ recorded' = None
    /\ UNCHANGED <<setting, session, screen, timer>>

Next ==
    \/ \E ch \in Char \cup {Punctuation} : CharacterKey(ch)
    \/ BackspaceKey \/ EscapeKey \/ EnterKey \/ SpaceKey \/ TabKey \/ ArrowKey
    \/ ShiftEnterKey \/ ImeOffKey \/ ImeOnKey \/ UnboundKey
    \/ SelectCandidate \/ Submit \/ Revert \/ ResetContext \/ TurnOffIme
    \/ LiveCallback \/ ZenzCallback
    \/ Corrector

\* A timer that is left alone fires and the corrector's thread is scheduled;
\* the user owes nothing.
Fairness == WF_vars(LiveCallback \/ ZenzCallback) /\ WF_vars(Corrector)

Spec == Init /\ [][Next]_vars /\ Fairness

-----------------------------------------------------------------------------
\* The types. A text is a sequence of letters; how long it gets does not matter.
Words == Seq(Char \cup {Punctuation})
MozcValue == Best \cup {None}
Pending == [generation : Generation, key : Words]
PendingZenz == [generation : Generation, key : Words, mozc : MozcValue,
                submitted : BOOLEAN, polls : Nat]
Converter == [kind : {"suggestion", "conversion"}, key : Words,
              value : Best \cup {"suggested", "other"}]
Question == [key : Words, mozc : MozcValue]
Correction == [key : Words, mozc : MozcValue, answers : Question]
Feedback == [action : {"accepted", "rejected"}, key : Words]
Members == [state : {"DIRECT", "PRECOMPOSITION", "COMPOSITION", "CONVERSION"},
            composition : Words, cursor : Nat, converter : Converter \cup {None},
            active : BOOLEAN, live_key : Words, live_value : MozcValue,
            pending_live : Pending \cup {None}, pending_zenz : PendingZenz \cup {None},
            zenz : Correction \cup {None}, feedback : Feedback \cup {None},
            learning : BOOLEAN]

Speaker == MozcValue \cup {"raw", "zenz", "suggested", "other"}
Texts == [by : Speaker, key : Words, tail : Words]

\* None is the empty std::optional, and a text that nobody converted no value of
\* the converter.
ASSUME NoneAssumption ==
    None \notin Pending \cup PendingZenz \cup Converter \cup Correction \cup Feedback
                \cup Texts
ASSUME BestAssumption == "raw" \notin Best

TypeOK == session \in Members /\ session.cursor <= Len(session.composition)

\* A live conversion is of the text that is being composed: no edit, callback
\* or click leaves an active live conversion, or its stored key and value, that
\* belongs to an earlier text.
LiveConversionIsCurrent ==
    session.active =>
        /\ session.state = "CONVERSION"
        /\ session.live_key = session.composition
        /\ session.converter.key = session.composition
        /\ session.pending_live = None

\* A pending conversion of a composition is of its present text, so that the
\* callback which matches it never converts something older.
PendingConversionIsCurrent ==
    session.pending_live # None /\ session.state = "COMPOSITION" =>
        session.pending_live.key = session.composition

\* A correction, asked for or taken as visible, belongs to the live conversion
\* on hand; and the visible one is the answer to the request made for exactly
\* this text and this Mozc value, however late answers come in.
CorrectionIsCurrent ==
    /\ session.pending_zenz # None =>
          /\ session.active
          /\ session.pending_zenz.key = session.composition
          /\ session.pending_zenz.mozc = session.live_value
    /\ session.zenz # None =>
          /\ HasVisibleZenzLiveCorrection(session)
          /\ session.zenz.answers = [key |-> session.composition,
                                     mozc |-> session.live_value]

\* Learning that a commit left pending is decided before the next text: neither
\* an accepted correction nor a direct commit is still pending while the user
\* composes again.
LearningIsDecided ==
    \/ session.learning
    \/ session.feedback # None /\ session.feedback.action = "accepted"
    => session.composition = <<>>

Correcting == BackspaceKey \/ EscapeKey \/ Revert \/ ResetContext

\* Pending feedback is never silently replaced or dropped: it stays, is written
\* to the store, or is discarded by a correcting operation, which writes
\* nothing.
FeedbackIsRecordedOrDiscarded ==
    [][LET f == session.feedback IN
       /\ \/ f = None
          \/ session'.feedback = f /\ recorded' = None
          \/ recorded' = f
          \/ Correcting
       /\ \/ session'.feedback = None /\ recorded' = None
          \/ ~Correcting]_vars

\* "A stale delayed callback must not return an empty Output": a callback, stale
\* or not, never wipes the preedit of a text that is still being composed.
CallbackKeepsPreedit ==
    [][session'.composition # <<>> /\ screen' = Raw(<<>>) =>
          ~(LiveCallback \/ ZenzCallback)]_vars

\* The characters a committed text stands for.
Reading(text) == IF text = None THEN 0 ELSE Len(text.key) + Len(text.tail)

\* What the user typed is committed or still in the composition, unless the
\* step takes it back.
TextIsKept ==
    Reading(result') + Len(session'.composition) >= Len(session.composition)
NoTextLost == [][TextIsKept \/ Correcting]_vars

\* The same, as long as the converter's list was made for the present text.
NoTextLostWhenCurrent ==
    [][\/ TextIsKept
       \/ session.converter # None /\ session.converter.key # session.composition
       \/ Correcting]_vars

\* "Applies live conversion after a short debounce delay": a conversion that is
\* pending in a composition is carried out or given up; it does not wait for
\* another key.  Unless the client drops its timer with every key.
WaitsForCallback ==
    session.pending_live # None /\ session.state = "COMPOSITION" /\ AtEnd(session)
DebouncedConversionHappens ==
    WaitsForCallback /\ ~TimerResetByKey ~> ~WaitsForCallback

\* A correction that was asked for is shown, refused, timed out or cancelled:
\* the client does not poll for ever for one text.  Unless it drops its timer
\* with every key.
WaitsForCorrection(k) == session.pending_zenz # None /\ session.pending_zenz.key = k
CorrectionSettles ==
    \A k \in Key : WaitsForCorrection(k) /\ ~TimerResetByKey ~> ~WaitsForCorrection(k)

\* A session that is turned off is not turned on by what was asked for before, the
\* callbacks of a text that is gone, nor by a command that ends a composition.
OffStaysOff ==
    [][session.state = "DIRECT"
       /\ (LiveCallback \/ ZenzCallback \/ Submit \/ Revert \/ TurnOffIme \/ BackspaceKey
           \/ EscapeKey)
          => session'.state = "DIRECT"]_vars
=============================================================================
