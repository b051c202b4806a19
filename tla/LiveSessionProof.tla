-------------------------- MODULE LiveSessionProof --------------------------
(***************************************************************************)
(* Proofs about LiveSession for every alphabet, converter, configuration,  *)
(* client and length of text: the live conversion, what is pending and the *)
(* Zenz correction belong to the text on hand, and pending learning and    *)
(* feedback are decided before the next text.                              *)
(*                                                                         *)
(* A command is a chain of operators from Begin to Finish.  The first part *)
(* says of each operator which members it writes; Sound is what holds of a *)
(* command at every joint of the chain.  The second part walks through the *)
(* handlers: each keeps or records the pending feedback and loses no text  *)
(* (Handled), or discards what is pending (Corrected).  The third part     *)
(* takes the handlers to the steps and the steps to the theorems.          *)
(***************************************************************************)
EXTENDS LiveSession, SequenceTheorems, TLAPS

-----------------------------------------------------------------------------
\* The parts of the invariant, of the members s of a session.
TextMatchesState(s) ==
    /\ s.cursor <= Len(s.composition)
    /\ s.state \in {"COMPOSITION", "CONVERSION"} <=> s.composition # <<>>
    /\ s.state = "CONVERSION" <=> Converting(s)
    /\ s.converter # None => s.composition # <<>>

LiveMatchesText(s) ==
    s.state = "CONVERSION" /\ s.active =>
        /\ s.live_key = s.composition
        /\ s.converter.key = s.composition
        /\ s.pending_live = None

PendingMatchesText(s) ==
    s.pending_live # None /\ s.composition # <<>> =>
        s.pending_live.key = s.composition /\ CanOutputPending(s)

\* What is asked for and what is shown is about the live conversion.
ZenzMatchesLive(s) ==
    s.state = "CONVERSION" =>
        /\ s.pending_zenz # None =>
              /\ s.active
              /\ s.pending_zenz.key = s.live_key
              /\ s.pending_zenz.mozc = s.live_value
        /\ s.zenz # None =>
              /\ s.active
              /\ s.zenz.key = s.live_key
              /\ s.zenz.mozc = s.live_value
              /\ s.zenz.answers = [key |-> s.live_key, mozc |-> s.live_value]

Decided(s) ==
    \/ s.learning
    \/ s.feedback # None /\ s.feedback.action = "accepted"
    => s.composition = <<>>

\* Feedback that waits in a text refuses a correction that is gone.
FeedbackIsAlone(s) ==
    s.feedback # None /\ s.composition # <<>> => ~s.active /\ s.pending_live = None

\* Before LeaveConversion, and after it.
Consistent(s) ==
    /\ s \in Members
    /\ TextMatchesState(s)
    /\ LiveMatchesText(s)
    /\ PendingMatchesText(s)
    /\ ZenzMatchesLive(s)
    /\ Decided(s)
    /\ FeedbackIsAlone(s)
Settled(s) ==
    Consistent(s) /\ (s.state # "CONVERSION" =>
                          ~s.active /\ s.pending_zenz = None /\ s.zenz = None)

\* Whatever the mailbox holds for the pending correction is about its text: a
\* generation is not given away twice while anybody still refers to it.
IsAbout(pending, mail) ==
    pending # None /\ mail # None /\ mail.generation = pending.generation =>
        mail.key = [key |-> pending.key, mozc |-> pending.mozc]
MailMatches ==
    /\ IsAbout(session.pending_zenz, latest_request)
    /\ IsAbout(session.pending_zenz, running)
    /\ IsAbout(session.pending_zenz, latest_result)

IInv == setting \in Settings /\ Settled(session) /\ MailMatches

-----------------------------------------------------------------------------
\* A command, with the members in c.s.
IsCommand(c) ==
    /\ c = [s |-> c.s, out |-> c.out, callback |-> c.callback, call |-> c.call,
            result |-> c.result, recorded |-> c.recorded]
    /\ c.s \in Members

Names == {"state", "composition", "cursor", "converter", "active", "live_key",
          "live_value", "pending_live", "pending_zenz", "zenz", "feedback", "learning"}

\* d is a command that has the members of c, but for some.
Writes(c, d, names) ==
    IsCommand(d) /\ \A name \in Names \ names : d.s[name] = c.s[name]
SameReply(c, d) ==
    d.out = c.out /\ d.callback = c.callback /\ d.result = c.result /\ d.recorded = c.recorded

\* The empty text and "no value" are values of their members.
LEMMA EmptyTypes == <<>> \in Words /\ None \in MozcValue
  BY DEF Words, MozcValue

\* The command a handler starts with.
LEMMA BeginIsCommand ==
    ASSUME session \in Members
    PROVE  IsCommand(Begin) /\ Begin.s = session /\ Begin.call.op = "none"
           /\ Begin.result = None /\ Begin.recorded = None
  BY DEF Begin, IsCommand

\* What the methods that cancel write.
ZenzCancelled(c, d) ==
    /\ Writes(c, d, {"pending_zenz"}) /\ d.s.pending_zenz = None
    /\ SameReply(c, d) /\ d.call.op = "cancel"
ZenzCleared(c, d) ==
    /\ Writes(c, d, {"pending_zenz", "zenz"})
    /\ d.s.pending_zenz = None /\ d.s.zenz = None
    /\ SameReply(c, d) /\ d.call.op = "cancel"
LiveCancelled(c, d) ==
    /\ Writes(c, d, {"pending_zenz", "pending_live"})
    /\ d.s.pending_zenz = None /\ d.s.pending_live = None
    /\ SameReply(c, d) /\ d.call.op = "cancel"
LiveForgotten(c, d) ==
    /\ Writes(c, d, {"pending_zenz", "zenz", "live_key", "live_value"})
    /\ d.s.pending_zenz = None /\ d.s.zenz = None
    /\ d.s.live_key = <<>> /\ d.s.live_value = None
    /\ SameReply(c, d) /\ d.call.op = "cancel"
LiveCleared(c, d) ==
    /\ Writes(c, d, {"pending_zenz", "zenz", "live_key", "live_value", "active", "pending_live"})
    /\ d.s.pending_zenz = None /\ d.s.zenz = None
    /\ d.s.live_key = <<>> /\ d.s.live_value = None
    /\ ~d.s.active /\ d.s.pending_live = None
    /\ SameReply(c, d) /\ d.call.op = "cancel"

\* CancelPendingZenzLiveCorrection writes the pending correction alone and cancels it
\* at the corrector.
LEMMA CancelPendingZenzWrites ==
    ASSUME NEW c, IsCommand(c)
    PROVE  ZenzCancelled(c, CancelPendingZenzLiveCorrection(c))
<1> DEFINE d == CancelPendingZenzLiveCorrection(c)
<1>1. d = [c EXCEPT !.s.pending_zenz = None, !.call = [op |-> "cancel"]]
  BY DEF CancelPendingZenzLiveCorrection
<1> HIDE DEF d
<1>2. ZenzCancelled(c, d)
  BY <1>1 DEF IsCommand, Members, ZenzCancelled, Writes, SameReply, Names
<1> QED
  BY <1>2 DEF d

\* ClearZenzLiveCorrectionState writes the correction, pending and shown, alone.
LEMMA ClearZenzWrites ==
    ASSUME NEW c, IsCommand(c)
    PROVE  ZenzCleared(c, ClearZenzLiveCorrectionState(c))
<1> DEFINE e == CancelPendingZenzLiveCorrection(c)
           d == ClearZenzLiveCorrectionState(c)
<1>1. ZenzCancelled(c, e)
  BY CancelPendingZenzWrites
<1>2. d = [e EXCEPT !.s.zenz = None]
  BY DEF ClearZenzLiveCorrectionState
<1> HIDE DEF d, e
<1>3. ZenzCleared(c, d)
  BY <1>1, <1>2 DEF IsCommand, Members, ZenzCancelled, ZenzCleared, Writes, SameReply, Names
<1> QED
  BY <1>3 DEF d

\* CancelPendingLiveConversion writes the two pendings alone.
LEMMA CancelPendingLiveWrites ==
    ASSUME NEW c, IsCommand(c)
    PROVE  LiveCancelled(c, CancelPendingLiveConversion(c))
<1> DEFINE e == CancelPendingZenzLiveCorrection(c)
           d == CancelPendingLiveConversion(c)
<1>1. ZenzCancelled(c, e)
  BY CancelPendingZenzWrites
<1>2. d = [e EXCEPT !.s.pending_live = None]
  BY DEF CancelPendingLiveConversion
<1> HIDE DEF d, e
<1>3. LiveCancelled(c, d)
  BY <1>1, <1>2 DEF IsCommand, Members, ZenzCancelled, LiveCancelled, Writes, SameReply, Names
<1> QED
  BY <1>3 DEF d

\* Forgetting a live conversion writes its key, its value and its correction alone.
LEMMA ForgetWrites ==
    ASSUME NEW c, IsCommand(c)
    PROVE  LiveForgotten(c, ForgetLiveConversion(c))
<1> DEFINE e == ClearZenzLiveCorrectionState(c)
           d == ForgetLiveConversion(c)
<1>1. ZenzCleared(c, e)
  BY ClearZenzWrites
<1>2. d = [e EXCEPT !.s.live_key = <<>>, !.s.live_value = None]
  BY DEF ForgetLiveConversion
<1> HIDE DEF d, e
<1>3. LiveForgotten(c, d)
  BY <1>1, <1>2, EmptyTypes
     DEF IsCommand, Members, ZenzCleared, LiveForgotten, Writes, SameReply, Names
<1> QED
  BY <1>3 DEF d

\* ClearLiveConversionState writes the six members of live conversion alone, and
\* empties each.
LEMMA ClearLiveWrites ==
    ASSUME NEW c, IsCommand(c)
    PROVE  LiveCleared(c, ClearLiveConversionState(c))
<1> DEFINE e == ForgetLiveConversion(c)
           d == ClearLiveConversionState(c)
<1>1. LiveForgotten(c, e)
  BY ForgetWrites
<1>2. d = [e EXCEPT !.s.active = FALSE, !.s.pending_live = None]
  BY DEF ClearLiveConversionState
<1> HIDE DEF d, e
<1>3. LiveCleared(c, d)
  BY <1>1, <1>2 DEF IsCommand, Members, LiveForgotten, LiveCleared, Writes, SameReply, Names
<1> QED
  BY <1>3 DEF d

\* Leaving the text empties it.
StateSet(c, d, state) ==
    /\ Writes(c, d, {"state", "composition", "cursor"}) /\ d.s.state = state
    /\ IF state \in {"DIRECT", "PRECOMPOSITION"}
       THEN d.s.composition = <<>> /\ d.s.cursor = 0
       ELSE d.s.composition = c.s.composition /\ d.s.cursor = c.s.cursor
    /\ SameReply(c, d) /\ d.call = c.call

\* SetSessionState writes the state and, when it leaves the text, the composer.
LEMMA SetSessionStateWrites ==
    ASSUME NEW c, IsCommand(c),
           NEW state \in {"DIRECT", "PRECOMPOSITION", "COMPOSITION", "CONVERSION"}
    PROVE  StateSet(c, SetSessionState(c, state), state)
<1> DEFINE d == SetSessionState(c, state)
<1>1. d = IF state \in {"DIRECT", "PRECOMPOSITION"}
          THEN [c EXCEPT !.s.state = state, !.s.composition = <<>>, !.s.cursor = 0]
          ELSE [c EXCEPT !.s.state = state]
  BY DEF SetSessionState
<1> HIDE DEF d
<1>2. StateSet(c, d, state)
  BY <1>1, EmptyTypes DEF IsCommand, Members, StateSet, Writes, SameReply, Names
<1> QED
  BY <1>2 DEF d

\* Only the preedit of the reply.
OutSet(c, d, out) ==
    /\ IsCommand(d) /\ d.s = c.s /\ d.out = out
    /\ d.callback = c.callback /\ d.call = c.call
    /\ d.result = c.result /\ d.recorded = c.recorded

\* Setting the preedit of the reply leaves every member.
LEMMA SettingOutWrites ==
    ASSUME NEW c, IsCommand(c), NEW out
    PROVE  OutSet(c, [c EXCEPT !.out = out], out)
  BY DEF IsCommand, OutSet

\* The converter's list, and the preedit shown with it.
LEMMA SuggestWrites ==
    ASSUME NEW c, IsCommand(c), NEW found
    PROVE  /\ Writes(c, Suggest(c, found), {"converter"})
           /\ Suggest(c, found).s.converter =
                  IF found THEN Suggestion(c.s.composition) ELSE None
           /\ Suggest(c, found).out = Raw(c.s.composition)
           /\ Suggest(c, found).call = c.call
           /\ Suggest(c, found).result = c.result
           /\ Suggest(c, found).recorded = c.recorded
<1> DEFINE list == IF found THEN Suggestion(c.s.composition) ELSE None
           e == [c EXCEPT !.s.converter = list]
           d == Suggest(c, found)
<1>1. list \in Converter \cup {None}
  BY DEF Suggestion, Converter, IsCommand, Members
<1>2. e = [c EXCEPT !.s.converter = list]
  OBVIOUS
<1>3. d = [e EXCEPT !.out = Raw(e.s.composition)]
  BY DEF Suggest, OutputComposition
<1> HIDE DEF list, e, d
<1>4. /\ Writes(c, d, {"converter"}) /\ d.s.converter = list
      /\ d.out = Raw(c.s.composition) /\ d.call = c.call
      /\ d.result = c.result /\ d.recorded = c.recorded
  BY <1>1, <1>2, <1>3 DEF IsCommand, Members, Writes, Names
<1> QED
  BY <1>4 DEF d, list

-----------------------------------------------------------------------------
\* What a command asks of the corrector is about what it leaves pending: a
\* correction the session was waiting for, or a new one under a number that
\* nobody refers to.
SameRequest(p, q) ==
    p.generation = q.generation /\ p.key = q.key /\ p.mozc = q.mozc
Asks(c) ==
    /\ \/ c.s.pending_zenz = None
       \/ /\ session.pending_zenz # None
          /\ SameRequest(c.s.pending_zenz, session.pending_zenz)
       \/ c.s.pending_zenz.generation \notin HeldGenerations
    /\ \/ c.call.op \in {"none", "cancel", "take"}
       \/ /\ c.call.op = "submit"
          /\ c.s.pending_zenz # None
          /\ c.call.request =
                [generation |-> c.s.pending_zenz.generation,
                 key |-> [key |-> c.s.pending_zenz.key, mozc |-> c.s.pending_zenz.mozc]]

\* What holds at every joint of a command; and, in between, before the live
\* conversion is brought in line with the text.
Sound(c) == IsCommand(c) /\ Consistent(c.s) /\ Asks(c)
Loose(c) ==
    /\ IsCommand(c) /\ TextMatchesState(c.s) /\ Decided(c.s) /\ FeedbackIsAlone(c.s)
    /\ Asks(c)

\* Six holders leave one of seven numbers free.
LEMMA SixOfSeven ==
    ASSUME NEW a, NEW b, NEW c, NEW d, NEW e, NEW f
    PROVE  \E g \in 1 .. 7 : g # a /\ g # b /\ g # c /\ g # d /\ g # e /\ g # f
  OBVIOUS

\* A new generation is nobody's.
LEMMA FreshIsFree == FreshGeneration \in Generation /\ FreshGeneration \notin HeldGenerations
<1>1. PICK g \in 1 .. 7 :
         /\ g # session.pending_live.generation /\ g # session.pending_zenz.generation
         /\ g # timer.generation /\ g # latest_request.generation
         /\ g # running.generation /\ g # latest_result.generation
  BY SixOfSeven
<1>2. g \in Generation /\ g \notin HeldGenerations
  BY <1>1 DEF Generation, HeldGenerations, Holds
<1> QED
  BY <1>2 DEF FreshGeneration

\* Without a text there is nothing to be in line with.
LEMMA EmptyIsConsistent ==
    ASSUME NEW s \in Members, s.state \in {"DIRECT", "PRECOMPOSITION"},
           s.composition = <<>>, s.cursor = 0, s.converter = None
    PROVE  Consistent(s)
<1>1. Len(<<>>) = 0
  BY DEF Words
<1>2. TextMatchesState(s)
  BY <1>1 DEF TextMatchesState, Converting
<1> QED
  BY <1>2 DEF Consistent, LiveMatchesText, PendingMatchesText, ZenzMatchesLive, Decided,
             FeedbackIsAlone

\* What LeaveConversion leaves is settled.
Left(c, d) ==
    /\ IsCommand(d) /\ Settled(d.s) /\ Asks(d)
    /\ d.s.state = c.s.state /\ d.s.composition = c.s.composition
    /\ d.s.feedback = c.s.feedback /\ SameReply(c, d)

\* LeaveConversion settles a command that is sound.
LEMMA LeaveConversionSettles ==
    ASSUME NEW c, Sound(c)
    PROVE  Left(c, LeaveConversion(c))
<1> DEFINE e == ClearZenzLiveCorrectionState(c)
           d == LeaveConversion(c)
<1>1. CASE c.s.state = "CONVERSION"
  BY <1>1 DEF LeaveConversion, Left, SameReply, Sound, Settled
<1>2. CASE c.s.state # "CONVERSION"
  <2>1. ZenzCleared(c, e)
    BY ClearZenzWrites DEF Sound
  <2>2. d = [e EXCEPT !.s.active = FALSE]
    BY <1>2 DEF LeaveConversion
  <2> HIDE DEF d, e
  <2>3. /\ Writes(c, d, {"active", "pending_zenz", "zenz"})
        /\ ~d.s.active /\ d.s.pending_zenz = None /\ d.s.zenz = None
        /\ d.call.op = "cancel" /\ SameReply(c, d)
    BY <2>1, <2>2 DEF IsCommand, Members, ZenzCleared, Writes, Names, SameReply
  <2>4. Asks(d)
    BY <2>3 DEF Asks
  <2>5. /\ d.s.state = c.s.state /\ d.s.composition = c.s.composition
        /\ d.s.cursor = c.s.cursor /\ d.s.converter = c.s.converter
        /\ d.s.live_key = c.s.live_key /\ d.s.pending_live = c.s.pending_live
        /\ d.s.feedback = c.s.feedback /\ d.s.learning = c.s.learning
    BY <2>3 DEF Writes, Names
  <2>6. Consistent(d.s)
    BY <1>2, <2>3, <2>5
       DEF Sound, Consistent, TextMatchesState, LiveMatchesText, PendingMatchesText,
           ZenzMatchesLive, Decided, FeedbackIsAlone, Converting, CanOutputPending,
           HasStableLiveConversion, Writes, IsCommand
  <2>7. IsCommand(d) /\ Settled(d.s)
    BY <1>2, <2>3, <2>5, <2>6 DEF Settled, Writes
  <2> QED
    BY <2>3, <2>4, <2>5, <2>7 DEF Left, d
<1> QED
  BY <1>1, <1>2

\* The corrector's answers keep being about what is pending when a command asks
\* for no other thing than it leaves pending.
LEMMA FinishKeepsMailMatches ==
    ASSUME MailMatches, NEW c, IsCommand(c), Asks(c), Finish(c)
    PROVE  MailMatches'
<1>1. session'.pending_zenz = c.s.pending_zenz
  BY DEF Finish
<1>2. CASE c.s.pending_zenz = None
  BY <1>1, <1>2 DEF MailMatches, IsAbout
<1>3. CASE c.s.pending_zenz # None
  <2> DEFINE p == c.s.pending_zenz
  <2>1. IsAbout(p, latest_request) /\ IsAbout(p, running) /\ IsAbout(p, latest_result)
    <3>1. CASE session.pending_zenz # None /\ SameRequest(p, session.pending_zenz)
      BY <3>1 DEF MailMatches, IsAbout, SameRequest
    <3>2. CASE p.generation \notin HeldGenerations /\ p.generation \in Generation
      BY <3>2 DEF HeldGenerations, Holds, IsAbout
    <3>3. p.generation \in Generation
      BY <1>3 DEF IsCommand, Members, PendingZenz
    <3> QED
      BY <1>3, <3>1, <3>2, <3>3 DEF Asks
  <2>2. \/ latest_request' = latest_request
        \/ latest_request' = None
        \/ latest_request'.generation = p.generation
           /\ latest_request'.key = [key |-> p.key, mozc |-> p.mozc]
    <3>1. CallCorrector(c.call)
      BY DEF Finish
    <3>2. CASE c.call.op \in {"none", "cancel", "take"}
      BY <3>1, <3>2 DEF CallCorrector, Mail!CancelPending, Mail!TakeResult
    <3>3. CASE c.call.op = "submit"
      <4>1. latest_request' = c.call.request
        BY <3>1, <3>3 DEF CallCorrector, Mail!Submit
      <4> QED
        BY <3>3, <4>1 DEF Asks
    <3> QED
      BY <3>2, <3>3 DEF Asks
  <2>3. /\ running' = running
        /\ latest_result' \in {latest_result, None}
    BY DEF Finish, CallCorrector, Asks, Mail!CancelPending, Mail!TakeResult, Mail!Submit
  <2> QED
    BY <1>1, <2>1, <2>2, <2>3 DEF MailMatches, IsAbout
<1> QED
  BY <1>2, <1>3

-----------------------------------------------------------------------------
\* Live conversion and its correction.

\* d leaves the text, what a commit left pending and what is committed alone.
KeepsText(c, d) ==
    /\ d.s.composition = c.s.composition /\ d.s.cursor = c.s.cursor
    /\ d.s.feedback = c.s.feedback /\ d.s.learning = c.s.learning
    /\ d.result = c.result /\ d.recorded = c.recorded

\* A pending correction that is submitted keeps its number, key and value.
LEMMA SubmitZenzAsks ==
    ASSUME NEW c, IsCommand(c), c.s.pending_zenz # None
    PROVE  LET d == SubmitZenz(c) IN
           /\ Writes(c, d, {"pending_zenz"})
           /\ d.s.pending_zenz # None
           /\ SameRequest(d.s.pending_zenz, c.s.pending_zenz)
           /\ d.call = [op |-> "submit",
                        request |-> [generation |-> d.s.pending_zenz.generation,
                                     key |-> [key |-> d.s.pending_zenz.key,
                                              mozc |-> d.s.pending_zenz.mozc]]]
           /\ d.out = c.out /\ d.result = c.result /\ d.recorded = c.recorded
<1> DEFINE p == [c.s.pending_zenz EXCEPT !.submitted = TRUE, !.polls = 0]
           call == [op |-> "submit",
                    request |-> [generation |-> p.generation,
                                 key |-> [key |-> p.key, mozc |-> p.mozc]]]
           callback == CallbackFor(p)
           d == SubmitZenz(c)
<1>1. d = [c EXCEPT !.s.pending_zenz = p, !.call = call, !.callback = callback]
  BY DEF SubmitZenz
<1>2. p \in PendingZenz /\ SameRequest(p, c.s.pending_zenz)
  BY DEF IsCommand, Members, PendingZenz, SameRequest
<1> HIDE DEF p
<1>3. call = [op |-> "submit",
              request |-> [generation |-> p.generation,
                           key |-> [key |-> p.key, mozc |-> p.mozc]]]
  OBVIOUS
<1>4. p # None
  BY <1>2, NoneAssumption
<1> HIDE DEF call, callback, d
<1>5. /\ Writes(c, d, {"pending_zenz"}) /\ d.s.pending_zenz = p /\ d.call = call
      /\ d.out = c.out /\ d.result = c.result /\ d.recorded = c.recorded
  BY <1>1, <1>2 DEF IsCommand, Members, Writes, Names
<1> QED
  BY <1>2, <1>3, <1>4, <1>5 DEF d

\* A correction is asked for about the live conversion, under a new number.
ZenzAsked(c, d) ==
    /\ Writes(c, d, {"pending_zenz"})
    /\ \/ d.s.pending_zenz = None
       \/ /\ d.s.pending_zenz # None
          /\ d.s.pending_zenz.key = c.s.live_key
          /\ d.s.pending_zenz.mozc = c.s.live_value
    /\ Asks(d)
    /\ d.out = c.out /\ d.result = c.result /\ d.recorded = c.recorded

\* A correction is scheduled or submitted about the live conversion, or not at all.
LEMMA MaybeScheduleZenzAsks ==
    ASSUME NEW c, IsCommand(c), c.s.pending_zenz = None, Asks(c)
    PROVE  ZenzAsked(c, MaybeScheduleZenzLiveCorrection(c))
<1> DEFINE p == [generation |-> FreshGeneration, key |-> c.s.live_key,
                 mozc |-> c.s.live_value, submitted |-> FALSE, polls |-> 0]
           e == [c EXCEPT !.s.pending_zenz = p]
           d == MaybeScheduleZenzLiveCorrection(c)
<1>1. /\ p \in PendingZenz /\ p.generation \notin HeldGenerations
      /\ p.key = c.s.live_key /\ p.mozc = c.s.live_value
  BY FreshIsFree DEF PendingZenz, IsCommand, Members
<1>2. e = [c EXCEPT !.s.pending_zenz = p]
  OBVIOUS
<1>3. \/ Len(c.s.live_key) < ZenzMinKeyLength /\ d = c
      \/ d = [e EXCEPT !.callback = CallbackFor(p)]
      \/ d = SubmitZenz(e)
  BY DEF MaybeScheduleZenzLiveCorrection
<1>4. c.call.op \in {"none", "cancel", "take"}
  BY DEF Asks
<1> HIDE DEF p, e, d
<1>5. /\ Writes(c, e, {"pending_zenz"}) /\ e.s.pending_zenz = p
      /\ SameReply(c, e) /\ e.call = c.call
  BY <1>1, <1>2 DEF IsCommand, Members, Writes, Names, SameReply
<1>6. p # None
  BY <1>1, NoneAssumption
<1>7. CASE d = c
  BY <1>7 DEF ZenzAsked, Writes, d
<1>8. CASE d = [e EXCEPT !.callback = CallbackFor(p)]
  <2> DEFINE callback == CallbackFor(p)
  <2>1. d = [e EXCEPT !.callback = callback]
    BY <1>8
  <2> HIDE DEF callback
  <2>2. IsCommand(d) /\ d.s = e.s /\ d.out = e.out /\ d.call = e.call
        /\ d.result = e.result /\ d.recorded = e.recorded
    BY <1>5, <2>1 DEF IsCommand, Writes
  <2>3. Asks(d)
    BY <1>1, <1>4, <1>5, <2>2 DEF Asks
  <2> QED
    BY <1>1, <1>5, <1>6, <2>2, <2>3 DEF ZenzAsked, Writes, SameReply, d
<1>9. CASE d = SubmitZenz(e)
  <2>1. /\ Writes(e, d, {"pending_zenz"})
        /\ d.s.pending_zenz # None
        /\ SameRequest(d.s.pending_zenz, p)
        /\ d.call = [op |-> "submit",
                     request |-> [generation |-> d.s.pending_zenz.generation,
                                  key |-> [key |-> d.s.pending_zenz.key,
                                           mozc |-> d.s.pending_zenz.mozc]]]
        /\ d.out = e.out /\ d.result = e.result /\ d.recorded = e.recorded
    BY <1>5, <1>6, <1>9, SubmitZenzAsks DEF Writes
  <2>2. Asks(d)
    BY <1>1, <2>1 DEF Asks, SameRequest
  <2> QED
    BY <1>1, <1>5, <2>1, <2>2 DEF ZenzAsked, Writes, SameReply, SameRequest, d
<1> QED
  BY <1>3, <1>7, <1>8, <1>9 DEF d

\* A correction that is shown is about the live conversion.
ZenzShown(c, d, answers) ==
    /\ Writes(c, d, {"pending_zenz", "zenz"})
    /\ d.s.pending_zenz = None
    /\ d.s.zenz = [key |-> c.s.live_key, mozc |-> c.s.live_value, answers |-> answers]
    /\ d.out = Text("zenz", c.s.live_key, <<>>)
    /\ d.callback = c.callback /\ d.call = c.call
    /\ d.result = c.result /\ d.recorded = c.recorded

\* ShowZenz writes the correction, pending and shown, and the preedit alone.
LEMMA ShowZenzWrites ==
    ASSUME NEW c, IsCommand(c), NEW answers \in Question
    PROVE  ZenzShown(c, ShowZenz(c, answers), answers)
<1> DEFINE z == [key |-> c.s.live_key, mozc |-> c.s.live_value, answers |-> answers]
           out == Text("zenz", c.s.live_key, <<>>)
           d == ShowZenz(c, answers)
<1>1. d = [c EXCEPT !.s.zenz = z, !.s.pending_zenz = None, !.out = out]
  BY DEF ShowZenz
<1>2. z \in Correction
  BY DEF IsCommand, Members, Correction
<1> HIDE DEF z, out, d
<1>3. /\ Writes(c, d, {"pending_zenz", "zenz"}) /\ d.s.pending_zenz = None
      /\ d.s.zenz = z /\ d.out = out /\ d.callback = c.callback /\ d.call = c.call
      /\ d.result = c.result /\ d.recorded = c.recorded
  BY <1>1, <1>2 DEF IsCommand, Members, Writes, Names
<1> QED
  BY <1>3 DEF ZenzShown, d, z, out

\* A text of somebody is no text of nobody.
LEMMA ConvertedIsNotRaw ==
    ASSUME NEW by, by # "raw", NEW key, NEW tail, NEW characters
    PROVE  Text(by, key, tail) # Raw(characters)
  BY DEF Text, Raw

\* Two texts that nobody converted are the same only if their characters are.
LEMMA RawIsItsCharacters ==
    ASSUME NEW a, NEW b, Raw(a) = Raw(b)
    PROVE  a = b
  BY DEF Text, Raw

\* The converter's list was made for the present text.
ListIsCurrent(s) == s.converter # None => s.converter.key = s.composition

\* A live conversion that is started is of the text, and so is what is asked for
\* or shown about it; a text is on display.
LiveStarted(c, d) ==
    /\ Sound(d) /\ KeepsText(c, d) /\ d.out # Raw(<<>>)
    /\ ListIsCurrent(c.s) => ListIsCurrent(d.s)

\* StartLiveConversion makes a loose command sound, whatever the converter answers.
LEMMA StartLiveIsSound ==
    ASSUME NEW c, Loose(c), c.s.feedback = None, CanStart(c.s), setting \in Settings,
           NEW answer \in Answer
    PROVE  LiveStarted(c, StartLiveConversion(c, answer))
<1> DEFINE
      list == Conversion(c.s.composition, answer.value)
      a == [c EXCEPT !.s.pending_live = None]
      b == SetSessionState(a, "CONVERSION")
      converted == [b EXCEPT !.s.converter = list, !.s.active = TRUE,
                             !.s.live_key = c.s.composition, !.s.live_value = answer.value]
      shown == Output(converted)
      e == ClearZenzLiveCorrectionState(shown)
      question == [key |-> c.s.composition, mozc |-> answer.value]
      d == StartLiveConversion(c, answer)
<1>1. /\ c.s.state = "COMPOSITION" /\ c.s.composition # <<>> /\ ~Converting(c.s)
      /\ IsCommand(c) /\ TextMatchesState(c.s) /\ Decided(c.s) /\ Asks(c)
  BY DEF Loose, CanStart, TextMatchesState
<1>2. answer.value \in Best
  BY SettingsAssumption DEF Answer
<1>3. /\ list \in Converter /\ list.kind = "conversion"
      /\ list.key = c.s.composition /\ list.value = answer.value
      /\ question \in Question
  BY <1>1, <1>2 DEF Conversion, Converter, Question, MozcValue, IsCommand, Members
<1>4. a = [c EXCEPT !.s.pending_live = None]
  OBVIOUS
<1>5. converted = [b EXCEPT !.s.converter = list, !.s.active = TRUE,
                            !.s.live_key = c.s.composition, !.s.live_value = answer.value]
  OBVIOUS
<1>6. \/ answer.start = "fails" /\ d = OutputComposition(a)
      \/ d = ShowZenz(e, question)
      \/ d = MaybeScheduleZenzLiveCorrection(e)
  BY DEF StartLiveConversion
<1> HIDE DEF list, a, converted, question, d
<1>7. /\ Writes(c, a, {"pending_live"}) /\ a.s.pending_live = None
      /\ SameReply(c, a) /\ a.call = c.call
  BY <1>1, <1>4 DEF IsCommand, Members, Writes, Names, SameReply
<1>8. StateSet(a, b, "CONVERSION")
  BY <1>7, SetSessionStateWrites DEF Writes
<1> HIDE DEF b
<1>9. /\ Writes(c, converted, {"pending_live", "state", "converter", "active",
                               "live_key", "live_value"})
      /\ converted.s.pending_live = None /\ converted.s.state = "CONVERSION"
      /\ converted.s.converter = list /\ converted.s.active = TRUE
      /\ converted.s.live_key = c.s.composition /\ converted.s.live_value = answer.value
      /\ SameReply(c, converted) /\ converted.call = c.call
  <2>1. /\ Writes(c, b, {"pending_live", "state"})
        /\ b.s.pending_live = None /\ b.s.state = "CONVERSION"
        /\ SameReply(c, b) /\ b.call = c.call
    BY <1>7, <1>8 DEF Writes, Names, StateSet, SameReply
  <2>2. answer.value \in MozcValue /\ c.s.composition \in Words
    BY <1>1, <1>2 DEF MozcValue, IsCommand, Members
  <2> QED
    BY <1>3, <1>5, <2>1, <2>2 DEF IsCommand, Members, Writes, Names, SameReply
<1>10. OutSet(converted, shown, Text(answer.value, c.s.composition, <<>>))
  <2>1. Converting(converted.s)
    BY <1>3, <1>9, NoneAssumption DEF Converting
  <2>2. shown = [converted EXCEPT !.out = Text(answer.value, c.s.composition, <<>>)]
    BY <1>3, <1>9, <2>1 DEF Output, PopOutput
  <2> QED
    BY <1>9, <2>2, SettingOutWrites DEF Writes
<1> HIDE DEF shown
<1>11. ZenzCleared(shown, e)
  BY <1>10, ClearZenzWrites DEF OutSet
<1> HIDE DEF e
<1>12. /\ Writes(c, e, {"pending_live", "state", "converter", "active", "live_key",
                        "live_value", "pending_zenz", "zenz"})
       /\ e.s.pending_live = None /\ e.s.state = "CONVERSION"
       /\ e.s.converter = list /\ e.s.active = TRUE
       /\ e.s.live_key = c.s.composition /\ e.s.live_value = answer.value
       /\ e.s.pending_zenz = None /\ e.s.zenz = None
       /\ e.out = Text(answer.value, c.s.composition, <<>>)
       /\ e.call.op = "cancel" /\ Asks(e)
       /\ e.result = c.result /\ e.recorded = c.recorded
  BY <1>9, <1>10, <1>11 DEF OutSet, ZenzCleared, Writes, Names, SameReply, Asks
<1>13. CASE answer.start = "fails" /\ d = OutputComposition(a)
  <2>1. OutSet(a, d, Raw(c.s.composition))
    BY <1>7, <1>13, SettingOutWrites DEF OutputComposition, Writes, Names
  <2>2. d.out # Raw(<<>>)
    BY <1>1, <2>1, RawIsItsCharacters DEF OutSet
  <2>3. /\ d.s.state = c.s.state /\ d.s.composition = c.s.composition
        /\ d.s.cursor = c.s.cursor /\ d.s.converter = c.s.converter
        /\ d.s.feedback = c.s.feedback /\ d.s.learning = c.s.learning
        /\ d.s.pending_zenz = c.s.pending_zenz /\ d.call = c.call
        /\ d.s.pending_live = None /\ IsCommand(d)
        /\ d.result = c.result /\ d.recorded = c.recorded
    BY <1>7, <2>1 DEF OutSet, Writes, Names, SameReply
  <2>4. Asks(d)
    BY <1>1, <2>3 DEF Asks
  <2>5. Consistent(d.s)
    BY <1>1, <2>3 DEF Consistent, TextMatchesState, LiveMatchesText, PendingMatchesText,
                      ZenzMatchesLive, Decided, FeedbackIsAlone, Converting, IsCommand
  <2> QED
    BY <2>2, <2>3, <2>4, <2>5 DEF LiveStarted, ListIsCurrent, Sound, KeepsText, d
<1>14. ASSUME IsCommand(d), Asks(d), Writes(e, d, {"pending_zenz", "zenz"}),
              d.s.pending_zenz # None =>
                 /\ d.s.pending_zenz.key = e.s.live_key
                 /\ d.s.pending_zenz.mozc = e.s.live_value,
              d.s.zenz # None =>
                 d.s.zenz = [key |-> e.s.live_key, mozc |-> e.s.live_value,
                             answers |-> question],
              d.out # Raw(<<>>), d.result = e.result, d.recorded = e.recorded
       PROVE  LiveStarted(c, d)
  <2>1. /\ d.s.state = "CONVERSION" /\ d.s.composition = c.s.composition
        /\ d.s.cursor = c.s.cursor /\ d.s.converter = list /\ d.s.active = TRUE
        /\ d.s.live_key = c.s.composition /\ d.s.live_value = answer.value
        /\ d.s.pending_live = None
        /\ d.s.feedback = c.s.feedback /\ d.s.learning = c.s.learning
    BY <1>12, <1>14 DEF Writes, Names
  <2>2. TextMatchesState(d.s) /\ LiveMatchesText(d.s) /\ PendingMatchesText(d.s)
    BY <1>1, <1>3, <2>1, NoneAssumption
       DEF TextMatchesState, LiveMatchesText, PendingMatchesText, Converting
  <2>3. ZenzMatchesLive(d.s)
    BY <1>12, <1>14, <2>1 DEF ZenzMatchesLive, question
  <2>4. Decided(d.s) /\ FeedbackIsAlone(d.s)
    BY <1>1, <2>1 DEF Decided, FeedbackIsAlone
  <2> QED
    BY <1>3, <1>12, <1>14, <2>1, <2>2, <2>3, <2>4
       DEF LiveStarted, ListIsCurrent, Sound, Consistent, KeepsText, IsCommand
<1>15. CASE d = ShowZenz(e, question)
  <2>1. ZenzShown(e, d, question)
    BY <1>3, <1>12, <1>15, ShowZenzWrites DEF Writes
  <2>2. Asks(d)
    BY <1>12, <2>1 DEF ZenzShown, Asks
  <2>3. d.out # Raw(<<>>)
    BY <2>1, ConvertedIsNotRaw DEF ZenzShown
  <2>4. LiveStarted(c, d)
    BY <1>14, <2>1, <2>2, <2>3 DEF ZenzShown, Writes
  <2> QED
    BY <2>4 DEF d
<1>16. CASE d = MaybeScheduleZenzLiveCorrection(e)
  <2>1. ZenzAsked(e, d)
    BY <1>12, <1>16, MaybeScheduleZenzAsks DEF Writes
  <2>2. d.out # Raw(<<>>)
    BY <1>2, <1>12, <2>1, ConvertedIsNotRaw, BestAssumption DEF ZenzAsked
  <2>3. d.s.zenz = None /\ Writes(e, d, {"pending_zenz", "zenz"})
    BY <1>12, <2>1 DEF ZenzAsked, Writes, Names
  <2>4. LiveStarted(c, d)
    BY <1>14, <2>1, <2>2, <2>3 DEF ZenzAsked, Writes
  <2> QED
    BY <2>4 DEF d
<1> QED
  BY <1>6, <1>13, <1>15, <1>16

\* An edit leaves live conversion.
LiveLeft(c, d) ==
    /\ Writes(c, d, {"pending_zenz", "zenz", "pending_live", "state", "active", "converter"})
    /\ d.s.pending_zenz = None /\ d.s.zenz = None /\ d.s.pending_live = None
    /\ ~d.s.active
    /\ IF c.s.active THEN d.s.state = "COMPOSITION" /\ d.s.converter = None
       ELSE d.s.state = c.s.state /\ d.s.converter = c.s.converter
    /\ SameReply(c, d) /\ d.call.op = "cancel"

\* CancelLiveConversionForEditing leaves live conversion, if there is one, and
\* nothing pending in any case.
LEMMA CancelForEditingLeaves ==
    ASSUME NEW c, IsCommand(c)
    PROVE  LiveLeft(c, CancelLiveConversionForEditing(c))
<1> DEFINE a == CancelPendingLiveConversion(c)
           b == ClearZenzLiveCorrectionState(a)
           e == SetSessionState(b, "COMPOSITION")
           d == CancelLiveConversionForEditing(c)
<1>1. LiveCancelled(c, a)
  BY CancelPendingLiveWrites
<1> HIDE DEF a
<1>2. ZenzCleared(a, b)
  BY <1>1, ClearZenzWrites DEF LiveCancelled, Writes
<1>3. d = IF ~c.s.active THEN b ELSE [e EXCEPT !.s.active = FALSE, !.s.converter = None]
  BY DEF CancelLiveConversionForEditing, a
<1> HIDE DEF b, d
<1>4. /\ Writes(c, b, {"pending_zenz", "zenz", "pending_live"})
      /\ b.s.pending_zenz = None /\ b.s.zenz = None /\ b.s.pending_live = None
      /\ SameReply(c, b) /\ b.call.op = "cancel"
  BY <1>1, <1>2 DEF LiveCancelled, ZenzCleared, Writes, Names, SameReply
<1>5. StateSet(b, e, "COMPOSITION")
  BY <1>4, SetSessionStateWrites DEF Writes
<1> HIDE DEF e
<1>6. CASE ~c.s.active
  BY <1>3, <1>4, <1>6 DEF LiveLeft, Writes, Names, d
<1>7. CASE c.s.active
  <2>1. d = [e EXCEPT !.s.active = FALSE, !.s.converter = None]
    BY <1>3, <1>7
  <2>2. /\ Writes(e, d, {"active", "converter"}) /\ ~d.s.active /\ d.s.converter = None
        /\ SameReply(e, d) /\ d.call = e.call
    BY ZenonT(60), <1>5, <2>1 DEF StateSet, IsCommand, Members, Writes, Names, SameReply
  <2>3. LiveLeft(c, d)
    BY <1>4, <1>5, <1>7, <2>2 DEF LiveLeft, StateSet, Writes, Names, SameReply
  <2> QED
    BY <2>3 DEF d
<1> QED
  BY <1>6, <1>7

\* A composition is scheduled for conversion, converted or left as it is; what is
\* scheduled is its present text.
LEMMA ScheduleIsSound ==
    ASSUME NEW c, Loose(c), c.s.feedback = None, c.s.state = "COMPOSITION",
           setting \in Settings, NEW answer \in Answer
    PROVE  /\ Sound(ScheduleLiveConversionOrSuggest(c, answer))
           /\ KeepsText(c, ScheduleLiveConversionOrSuggest(c, answer))
<1> DEFINE p == [generation |-> FreshGeneration, key |-> c.s.composition]
           a == [c EXCEPT !.s.pending_live = p]
           d == ScheduleLiveConversionOrSuggest(c, answer)
<1>1. /\ IsCommand(c) /\ TextMatchesState(c.s) /\ Decided(c.s) /\ Asks(c)
      /\ FeedbackIsAlone(c.s) /\ ~Converting(c.s) /\ c.s.composition # <<>>
  BY DEF Loose, TextMatchesState
<1>2. p \in Pending /\ p.key = c.s.composition
  BY <1>1, FreshIsFree DEF Pending, IsCommand, Members
<1>3. a = [c EXCEPT !.s.pending_live = p]
  OBVIOUS
<1>4. \/ ~CanStart(c.s) /\ d = Suggest(CancelPendingLiveConversion(c), answer.suggests)
      \/ CanStart(c.s) /\ d = StartLiveConversion(c, answer)
      \/ /\ CanStart(c.s) /\ CanOutputPending(c.s)
         /\ d = [OutputPendingLiveConversion(a) EXCEPT
                   !.callback = [type |-> "live", generation |-> p.generation, key |-> p.key]]
      \/ CanStart(c.s) /\ d = StartLiveConversion(a, answer)
  BY DEF ScheduleLiveConversionOrSuggest
<1> HIDE DEF p, a, d
<1>5. /\ Writes(c, a, {"pending_live"}) /\ a.s.pending_live = p
      /\ SameReply(c, a) /\ a.call = c.call
  BY <1>1, <1>2, <1>3 DEF IsCommand, Members, Writes, Names, SameReply
<1>6. Asks(a) /\ TextMatchesState(a.s) /\ Decided(a.s) /\ FeedbackIsAlone(a.s)
  BY <1>1, <1>5 DEF Asks, TextMatchesState, Decided, FeedbackIsAlone, Converting, Writes, Names
<1>7. CASE ~CanStart(c.s) /\ d = Suggest(CancelPendingLiveConversion(c), answer.suggests)
  <2> DEFINE b == CancelPendingLiveConversion(c)
  <2>1. LiveCancelled(c, b)
    BY <1>1, CancelPendingLiveWrites
  <2> HIDE DEF b
  <2>2. /\ Writes(b, d, {"converter"}) /\ d.s.converter \in {Suggestion(b.s.composition), None}
        /\ d.call = b.call /\ d.result = b.result /\ d.recorded = b.recorded
    BY <1>7, <2>1, SuggestWrites DEF LiveCancelled, Writes, b
  <2>3. /\ d.s.state = c.s.state /\ d.s.composition = c.s.composition
        /\ d.s.cursor = c.s.cursor /\ d.s.pending_live = None /\ d.s.pending_zenz = None
        /\ d.s.feedback = c.s.feedback /\ d.s.learning = c.s.learning
        /\ d.call.op = "cancel" /\ d.result = c.result /\ d.recorded = c.recorded
    BY <2>1, <2>2 DEF LiveCancelled, Writes, Names, SameReply
  <2>4. ~Converting(d.s)
    BY <2>2 DEF Converting, Suggestion
  <2>5. Consistent(d.s)
    BY <1>1, <2>2, <2>3, <2>4
       DEF Consistent, TextMatchesState, LiveMatchesText, PendingMatchesText,
           ZenzMatchesLive, Decided, FeedbackIsAlone, Writes, IsCommand
  <2> QED
    BY <2>2, <2>3, <2>5 DEF Sound, KeepsText, Asks, Writes, d
<1>8. CASE CanStart(c.s) /\ d = StartLiveConversion(c, answer)
  BY <1>8, StartLiveIsSound DEF LiveStarted, d
<1>9. CASE /\ CanStart(c.s) /\ CanOutputPending(c.s)
           /\ d = [OutputPendingLiveConversion(a) EXCEPT
                     !.callback = [type |-> "live", generation |-> p.generation, key |-> p.key]]
  <2> DEFINE b == OutputPendingLiveConversion(a)
             callback == [type |-> "live", generation |-> p.generation, key |-> p.key]
  <2>1. CanOutputPending(a.s)
    BY <1>5, <1>9 DEF CanOutputPending, HasStableLiveConversion, Writes, Names
  <2>2. OutSet(a, b, PendingText(a.s))
    BY <1>5, <2>1, SettingOutWrites DEF OutputPendingLiveConversion, Writes
  <2> HIDE DEF b
  <2>3. d = [b EXCEPT !.callback = callback]
    BY <1>9 DEF b
  <2> HIDE DEF callback
  <2>4. /\ IsCommand(d) /\ d.s = a.s /\ d.call = a.call
        /\ d.result = a.result /\ d.recorded = a.recorded
    BY <2>2, <2>3 DEF OutSet, IsCommand
  <2>5. Consistent(d.s)
    BY <1>1, <1>2, <1>5, <1>6, <2>1, <2>4
       DEF Consistent, LiveMatchesText, PendingMatchesText, ZenzMatchesLive, Writes, Names,
           IsCommand
  <2> QED
    BY <1>5, <1>6, <2>4, <2>5 DEF Sound, KeepsText, Asks, SameReply, Writes, Names, d
<1>10. CASE CanStart(c.s) /\ d = StartLiveConversion(a, answer)
  <2>1. CanStart(a.s) /\ a.s.feedback = None
    BY <1>5, <1>10 DEF CanStart, AtEnd, Writes, Names
  <2>2. Sound(d) /\ KeepsText(a, d)
    BY <1>5, <1>6, <1>10, <2>1, StartLiveIsSound DEF Loose, Writes, LiveStarted
  <2> QED
    BY <1>5, <2>2 DEF KeepsText, Writes, Names, SameReply, d
<1> QED
  BY <1>4, <1>7, <1>8, <1>9, <1>10

\* Before a commit what is pending is converted or given up.
Flushed(c, d) ==
    /\ Loose(d) /\ KeepsText(c, d) /\ (ListIsCurrent(c.s) => ListIsCurrent(d.s))
    /\ \/ d.s.state = c.s.state
       \/ c.s.state = "COMPOSITION" /\ d.s.state = "CONVERSION"

\* FlushPendingLiveConversion keeps the text and what a commit left pending.
LEMMA FlushKeepsText ==
    ASSUME NEW c, Loose(c), setting \in Settings, NEW answer \in Answer
    PROVE  Flushed(c, FlushPendingLiveConversion(c, answer))
<1> DEFINE d == FlushPendingLiveConversion(c, answer)
<1>1. /\ IsCommand(c) /\ TextMatchesState(c.s) /\ Decided(c.s) /\ Asks(c)
      /\ FeedbackIsAlone(c.s)
  BY DEF Loose
<1>2. \/ d = c
      \/ d = CancelPendingLiveConversion(c)
      \/ /\ c.s.pending_live # None /\ CanStart(c.s)
         /\ d = [StartLiveConversion(c, answer) EXCEPT !.out = c.out, !.callback = None]
  BY DEF FlushPendingLiveConversion
<1> HIDE DEF d
<1>3. CASE d = c
  BY <1>3 DEF Flushed, KeepsText, d
<1>4. CASE d = CancelPendingLiveConversion(c)
  <2>1. LiveCancelled(c, d)
    BY <1>1, <1>4, CancelPendingLiveWrites
  <2>2. /\ KeepsText(c, d) /\ d.s.state = c.s.state /\ IsCommand(d)
        /\ ListIsCurrent(c.s) => ListIsCurrent(d.s)
    BY <2>1 DEF LiveCancelled, Writes, Names, KeepsText, SameReply, ListIsCurrent
  <2>3. TextMatchesState(d.s) /\ Decided(d.s) /\ FeedbackIsAlone(d.s) /\ Asks(d)
    BY <1>1, <2>1 DEF LiveCancelled, Writes, Names, TextMatchesState, Decided,
                      FeedbackIsAlone, Asks, Converting
  <2> QED
    BY <2>2, <2>3 DEF Flushed, Loose, d
<1>5. CASE /\ c.s.pending_live # None /\ CanStart(c.s)
           /\ d = [StartLiveConversion(c, answer) EXCEPT !.out = c.out, !.callback = None]
  <2> DEFINE b == StartLiveConversion(c, answer)
  <2>1. c.s.feedback = None /\ c.s.state = "COMPOSITION" /\ c.s.composition # <<>>
    BY <1>1, <1>5 DEF FeedbackIsAlone, CanStart, TextMatchesState
  <2>2. Sound(b) /\ KeepsText(c, b) /\ (ListIsCurrent(c.s) => ListIsCurrent(b.s))
    BY <1>5, <2>1, StartLiveIsSound DEF LiveStarted
  <2> HIDE DEF b
  <2>3. d = [b EXCEPT !.out = c.out, !.callback = None]
    BY <1>5 DEF b
  <2>4. /\ IsCommand(d) /\ d.s = b.s /\ d.call = b.call
        /\ d.result = b.result /\ d.recorded = b.recorded
    BY <2>2, <2>3 DEF Sound, IsCommand
  <2>5. Loose(d)
    BY <2>2, <2>4 DEF Sound, Loose, Consistent, Asks
  <2>6. d.s.state \in {"COMPOSITION", "CONVERSION"}
    BY <2>1, <2>2, <2>4 DEF KeepsText, Sound, Consistent, TextMatchesState
  <2> QED
    BY <2>1, <2>2, <2>4, <2>5, <2>6 DEF Flushed, KeepsText, d
<1> QED
  BY <1>2, <1>3, <1>4, <1>5 DEF d

-----------------------------------------------------------------------------
\* Feedback, learning and commits.

\* Only what a commit left pending.
PendingSet(c, d, feedback, learning, written) ==
    /\ Writes(c, d, {"feedback", "learning"})
    /\ d.s.feedback = feedback /\ d.s.learning = learning /\ d.recorded = written
    /\ d.out = c.out /\ d.callback = c.callback /\ d.call = c.call /\ d.result = c.result

\* Accepting a correction writes the pending feedback alone.
LEMMA AcceptedWrites ==
    ASSUME NEW c, IsCommand(c), NEW zenz \in Correction
    PROVE  PendingSet(c, SetPendingZenzFeedbackAccepted(c, zenz),
                      [action |-> "accepted", key |-> zenz.key], c.s.learning, c.recorded)
<1> DEFINE f == [action |-> "accepted", key |-> zenz.key]
           d == SetPendingZenzFeedbackAccepted(c, zenz)
<1>1. d = [c EXCEPT !.s.feedback = f]
  BY DEF SetPendingZenzFeedbackAccepted
<1>2. f \in Feedback
  BY DEF Feedback, Correction
<1> HIDE DEF f, d
<1>3. PendingSet(c, d, f, c.s.learning, c.recorded)
  BY <1>1, <1>2 DEF IsCommand, Members, PendingSet, Writes, Names
<1> QED
  BY <1>3 DEF f, d

MayBeRejected(c, d) ==
    /\ PendingSet(c, d, d.s.feedback, c.s.learning, c.recorded)
    /\ \/ d.s.feedback = c.s.feedback
       \/ c.s.active /\ d.s.feedback # None /\ d.s.feedback.action = "rejected"

\* Rejecting writes the pending feedback alone, and only if a correction is visible.
LEMMA RejectedWrites ==
    ASSUME NEW c, IsCommand(c)
    PROVE  MayBeRejected(c, SetPendingZenzFeedbackRejected(c))
<1> DEFINE f == [action |-> "rejected", key |-> c.s.zenz.key]
           d == SetPendingZenzFeedbackRejected(c)
<1>1. \/ d = c
      \/ HasVisibleZenzLiveCorrection(c.s) /\ d = [c EXCEPT !.s.feedback = f]
  BY DEF SetPendingZenzFeedbackRejected
<1> HIDE DEF d
<1>2. CASE d = c
  BY <1>2 DEF MayBeRejected, PendingSet, Writes, d
<1>3. CASE HasVisibleZenzLiveCorrection(c.s) /\ d = [c EXCEPT !.s.feedback = f]
  <2>1. f \in Feedback /\ f.action = "rejected" /\ c.s.active
    BY <1>3 DEF HasVisibleZenzLiveCorrection, IsCommand, Members, Correction, Feedback
  <2> HIDE DEF f
  <2>2. PendingSet(c, d, f, c.s.learning, c.recorded)
    BY <1>3, <2>1 DEF IsCommand, Members, PendingSet, Writes, Names
  <2> QED
    BY <2>1, <2>2, NoneAssumption DEF MayBeRejected, PendingSet, d
<1> QED
  BY <1>1, <1>2, <1>3 DEF d

\* ConfirmPendingZenzFeedback records the pending feedback and leaves none.
LEMMA ConfirmFeedbackWrites ==
    ASSUME NEW c, IsCommand(c)
    PROVE  PendingSet(c, ConfirmPendingZenzFeedback(c), None, c.s.learning,
                      IF c.s.feedback = None THEN c.recorded ELSE c.s.feedback)
<1> DEFINE d == ConfirmPendingZenzFeedback(c)
<1>1. IF c.s.feedback = None THEN d = c
      ELSE d = [c EXCEPT !.recorded = c.s.feedback, !.s.feedback = None]
  BY DEF ConfirmPendingZenzFeedback
<1> HIDE DEF d
<1>2. CASE c.s.feedback = None
  BY <1>1, <1>2 DEF PendingSet, Writes, d
<1>3. CASE c.s.feedback # None
  <2>1. d = [c EXCEPT !.recorded = c.s.feedback, !.s.feedback = None]
    BY <1>1, <1>3
  <2>2. PendingSet(c, d, None, c.s.learning, c.s.feedback)
    BY <2>1 DEF IsCommand, Members, PendingSet, Writes, Names
  <2> QED
    BY <1>3, <2>2 DEF d
<1> QED
  BY <1>2, <1>3

\* Confirming both pendings records the feedback and leaves neither.
LEMMA ConfirmWrites ==
    ASSUME NEW c, IsCommand(c)
    PROVE  PendingSet(c, ConfirmPending(c), None, FALSE,
                      IF c.s.feedback = None THEN c.recorded ELSE c.s.feedback)
<1> DEFINE e == [c EXCEPT !.s.learning = FALSE]
           d == ConfirmPending(c)
<1>1. e = [c EXCEPT !.s.learning = FALSE]
  OBVIOUS
<1>2. d = ConfirmPendingZenzFeedback(e)
  BY DEF ConfirmPending
<1> HIDE DEF d, e
<1>3. PendingSet(c, e, c.s.feedback, FALSE, c.recorded)
  BY <1>1 DEF IsCommand, Members, PendingSet, Writes, Names
<1>4. PendingSet(e, d, None, FALSE, IF c.s.feedback = None THEN c.recorded ELSE c.s.feedback)
  BY <1>2, <1>3, ConfirmFeedbackWrites DEF PendingSet, Writes
<1>5. PendingSet(c, d, None, FALSE, IF c.s.feedback = None THEN c.recorded ELSE c.s.feedback)
  BY <1>3, <1>4 DEF PendingSet, Writes, Names
<1> QED
  BY <1>5 DEF d

\* Discarding both pendings records nothing and leaves neither.
LEMMA DiscardWrites ==
    ASSUME NEW c, IsCommand(c)
    PROVE  PendingSet(c, DiscardPending(c), None, FALSE, c.recorded)
<1> DEFINE d == DiscardPending(c)
<1>1. d = [c EXCEPT !.s.feedback = None, !.s.learning = FALSE]
  BY DEF DiscardPending
<1> HIDE DEF d
<1>2. PendingSet(c, d, None, FALSE, c.recorded)
  BY <1>1 DEF IsCommand, Members, PendingSet, Writes, Names
<1> QED
  BY <1>2 DEF d

\* A text that is committed directly leaves nothing to compose.
StringCommitted(c, d, text) ==
    /\ Writes(c, d, {"state", "composition", "cursor", "converter"})
    /\ d.s.state = "PRECOMPOSITION" /\ d.s.composition = <<>> /\ d.s.cursor = 0
    /\ d.s.converter = None
    /\ d.callback = c.callback /\ d.call = c.call /\ d.recorded = c.recorded
    /\ d.result = IF c.result = None THEN text
                  ELSE Text(c.result.by, c.result.key, c.result.tail \o text.tail)

\* CommitStringDirectly commits its text behind what is committed already and
\* leaves nothing to compose.
LEMMA CommitStringWrites ==
    ASSUME NEW c, IsCommand(c), NEW text
    PROVE  StringCommitted(c, CommitStringDirectly(c, text), text)
<1> DEFINE a == [c EXCEPT !.s.converter = None]
           b == SetSessionState(a, "PRECOMPOSITION")
           committed == IF c.result = None THEN text
                        ELSE Text(c.result.by, c.result.key, c.result.tail \o text.tail)
           e == [b EXCEPT !.result = committed]
           out == PopOutput(e.s)
           d == CommitStringDirectly(c, text)
<1>1. a = [c EXCEPT !.s.converter = None]
  OBVIOUS
<1> HIDE DEF a
<1>2. /\ Writes(c, a, {"converter"}) /\ a.s.converter = None
      /\ SameReply(c, a) /\ a.call = c.call
  BY <1>1 DEF IsCommand, Members, Writes, Names, SameReply
<1>3. StateSet(a, b, "PRECOMPOSITION")
  BY <1>2, SetSessionStateWrites DEF Writes
<1> HIDE DEF b
<1>4. d = [e EXCEPT !.out = out]
  BY DEF CommitStringDirectly, Output, a, b
<1>5. e = [b EXCEPT !.result = committed]
  OBVIOUS
<1> HIDE DEF e, committed, d, out
<1>6. /\ IsCommand(e) /\ e.s = b.s /\ e.result = committed
      /\ e.callback = b.callback /\ e.call = b.call /\ e.recorded = b.recorded
  BY <1>3, <1>5 DEF StateSet, Writes, IsCommand
<1>7. OutSet(e, d, out)
  BY <1>4, <1>6, SettingOutWrites
<1>8. StringCommitted(c, d, text)
  BY <1>2, <1>3, <1>6, <1>7
     DEF StringCommitted, OutSet, StateSet, Writes, Names, SameReply, committed
<1> QED
  BY <1>8 DEF d

\* Whoever commits the text directly leaves a sound session.
LEMMA CommitStringIsSound ==
    ASSUME NEW c, IsCommand(c), Asks(c), NEW text
    PROVE  Sound(CommitStringDirectly(c, text))
<1> DEFINE d == CommitStringDirectly(c, text)
<1>1. StringCommitted(c, d, text)
  BY CommitStringWrites
<1> HIDE DEF d
<1>2. Consistent(d.s)
  BY <1>1, EmptyIsConsistent DEF StringCommitted, Writes, IsCommand
<1>3. Asks(d)
  BY <1>1 DEF StringCommitted, Writes, Names, Asks
<1> QED
  BY <1>1, <1>2, <1>3 DEF Sound, StringCommitted, Writes, d

\* CommitInternal commits a text and forgets all about it, or does nothing.
TextCommitted(c, d) ==
    /\ IsCommand(d)
    /\ d.s.state = "PRECOMPOSITION" /\ d.s.composition = <<>> /\ d.s.cursor = 0
    /\ d.s.converter = None /\ ~d.s.active /\ d.s.pending_live = None
    /\ d.s.live_key = <<>> /\ d.s.live_value = None
    /\ d.s.pending_zenz = None /\ d.s.zenz = None
    /\ d.s.feedback = c.s.feedback /\ d.s.learning = c.s.learning
    /\ d.call.op = "cancel" /\ d.recorded = c.recorded
    /\ d.result = IF c.s.state = "COMPOSITION" THEN Raw(c.s.composition) ELSE PopOutput(c.s)

\* CommitInternal commits the text of a composition or a conversion and does nothing
\* in the other states.
LEMMA CommitInternalWrites ==
    ASSUME NEW c, IsCommand(c)
    PROVE  IF c.s.state \in {"COMPOSITION", "CONVERSION"}
           THEN TextCommitted(c, CommitInternal(c))
           ELSE CommitInternal(c) = c
<1>1. CASE c.s.state \in {"COMPOSITION", "CONVERSION"}
  <2> DEFINE text == IF c.s.state = "COMPOSITION" THEN Raw(c.s.composition) ELSE PopOutput(c.s)
             a == [c EXCEPT !.result = text, !.s.converter = None]
             b == SetSessionState(a, "PRECOMPOSITION")
             out == PopOutput(b.s)
             e == [b EXCEPT !.out = out]
             d == ClearLiveConversionState(e)
  <2>1. CommitInternal(c) = d
    BY <1>1 DEF CommitInternal, Output
  <2>2. a = [c EXCEPT !.result = text, !.s.converter = None]
    OBVIOUS
  <2> HIDE DEF text, a
  <2>3. /\ Writes(c, a, {"converter"}) /\ a.s.converter = None /\ a.result = text
        /\ a.recorded = c.recorded
    BY <2>2 DEF IsCommand, Members, Writes, Names
  <2>4. StateSet(a, b, "PRECOMPOSITION")
    BY <2>3, SetSessionStateWrites DEF Writes
  <2> HIDE DEF b
  <2>5. OutSet(b, e, out)
    BY <2>4, SettingOutWrites DEF StateSet, Writes
  <2> HIDE DEF out, e
  <2>6. LiveCleared(e, d)
    BY <2>5, ClearLiveWrites DEF OutSet
  <2> HIDE DEF d
  <2>7. TextCommitted(c, d)
    BY <2>3, <2>4, <2>5, <2>6
       DEF TextCommitted, Writes, Names, StateSet, OutSet, LiveCleared, SameReply, text
  <2> QED
    BY <1>1, <2>1, <2>7
<1>2. CASE c.s.state \notin {"COMPOSITION", "CONVERSION"}
  BY <1>2 DEF CommitInternal, DoNothing
<1> QED
  BY <1>1, <1>2

\* The feedback the session had pending is kept or recorded.
FeedbackKept(c) ==
    \/ session.feedback = None
    \/ c.s.feedback = session.feedback /\ c.recorded = None
    \/ c.recorded = session.feedback

\* A text is no missing text, and reads as long as its key and its tail.
LEMMA ReadingOfText ==
    ASSUME NEW by \in Speaker, NEW key \in Words, NEW tail \in Words
    PROVE  /\ Text(by, key, tail) \in Texts /\ Text(by, key, tail) # None
           /\ Reading(Text(by, key, tail)) = Len(key) + Len(tail)
           /\ Reading(Text(by, key, tail)) \in Nat
<1>1. Text(by, key, tail) \in Texts /\ Text(by, key, tail) # None
  BY NoneAssumption DEF Text, Texts
<1>2. Len(key) \in Nat /\ Len(tail) \in Nat
  BY DEF Words
<1>3. Text(by, key, tail).key = key /\ Text(by, key, tail).tail = tail
  BY DEF Text
<1> QED
  BY <1>1, <1>2, <1>3 DEF Reading

\* What the converter shows reads as its list's key, a composition as itself.
LEMMA ReadingOfOutput ==
    ASSUME NEW s \in Members, TextMatchesState(s), ListIsCurrent(s)
    PROVE  /\ Reading(PopOutput(s)) = Len(s.composition)
           /\ Reading(Raw(s.composition)) = Len(s.composition)
<1>1. Len(<<>>) = 0 /\ Len(s.composition) \in Nat /\ s.composition \in Words
  BY DEF Words, Members
<1>2. Reading(Raw(s.composition)) = Len(s.composition)
  <2>1. "raw" \in Speaker /\ <<>> \in Words
    BY EmptyTypes DEF Speaker
  <2>2. Reading(Text("raw", <<>>, s.composition)) = Len(<<>>) + Len(s.composition)
    BY <1>1, <2>1, ReadingOfText
  <2> QED
    BY <1>1, <2>2 DEF Raw
<1>3. CASE Converting(s)
  <2>1. /\ s.converter.key \in Words /\ s.converter.value \in Speaker
        /\ s.converter.key = s.composition
    BY <1>3 DEF Converting, Members, Converter, Speaker, MozcValue, ListIsCurrent
  <2> QED
    BY <1>1, <1>2, <1>3, <2>1, ReadingOfText, EmptyTypes DEF PopOutput
<1> QED
  BY <1>2, <1>3 DEF PopOutput

\* A commit leaves a sound session, keeps its feedback and loses nothing.
Committed(c, d) ==
    /\ Sound(d) /\ FeedbackKept(d) /\ d.s.composition = <<>>
    /\ c.result = None /\ ListIsCurrent(c.s) /\ LiveMatchesText(c.s) =>
          Reading(d.result) + Len(d.s.composition) >= Len(c.s.composition)

\* Commit is sound, keeps its feedback and commits the whole text, whether a
\* correction is visible, a conversion pending or neither.
LEMMA CommitIsSound ==
    ASSUME NEW c, Loose(c), FeedbackKept(c), setting \in Settings, NEW answer \in Answer
    PROVE  Committed(c, Commit(c, answer))
<1> DEFINE d == Commit(c, answer)
<1>1. /\ IsCommand(c) /\ TextMatchesState(c.s) /\ Decided(c.s) /\ Asks(c)
      /\ FeedbackIsAlone(c.s)
      /\ c.s.composition \in Words /\ Len(c.s.composition) \in Nat /\ Len(<<>>) = 0
  BY DEF Loose, IsCommand, Members, Words
<1>2. CASE HasVisibleZenzLiveCorrection(c.s)
  <2> DEFINE text == Text("zenz", c.s.zenz.key, <<>>)
             a == SetPendingZenzFeedbackAccepted(c, c.s.zenz)
             b == ClearLiveConversionState(a)
  <2>1. /\ c.s.zenz \in Correction /\ c.s.zenz.key \in Words
        /\ c.s.composition # <<>> /\ c.s.active /\ c.s.feedback = None
    BY <1>1, <1>2 DEF HasVisibleZenzLiveCorrection, IsCommand, Members, Correction,
                      TextMatchesState, FeedbackIsAlone
  <2>2. d = CommitStringDirectly(b, text)
    BY <1>2 DEF Commit, CommitZenzLiveCorrectionResult
  <2>3. PendingSet(c, a, [action |-> "accepted", key |-> c.s.zenz.key], c.s.learning,
                   c.recorded)
    BY <1>1, <2>1, AcceptedWrites
  <2> HIDE DEF a
  <2>4. LiveCleared(a, b)
    BY <2>3, ClearLiveWrites DEF PendingSet, Writes
  <2> HIDE DEF b
  <2>5. IsCommand(b) /\ Asks(b)
    BY <2>4 DEF LiveCleared, Writes, Asks
  <2> HIDE DEF text, d
  <2>6. StringCommitted(b, d, text) /\ Sound(d)
    BY <2>2, <2>5, CommitStringWrites, CommitStringIsSound
  <2>7. d.recorded = c.recorded
    BY <2>3, <2>4, <2>6 DEF StringCommitted, LiveCleared, PendingSet, SameReply
  <2>8. FeedbackKept(d)
    BY <2>1, <2>7 DEF FeedbackKept
  <2>9. c.result = None /\ LiveMatchesText(c.s) =>
           d.result = text /\ c.s.zenz.key = c.s.composition
    BY <1>2, <2>3, <2>4, <2>6
       DEF StringCommitted, LiveCleared, PendingSet, SameReply, LiveMatchesText,
           HasVisibleZenzLiveCorrection
  <2>10. Reading(text) = Len(c.s.zenz.key)
    <3>1. "zenz" \in Speaker /\ <<>> \in Words /\ Len(c.s.zenz.key) \in Nat
      BY <2>1, EmptyTypes DEF Speaker, Words
    <3>2. Reading(text) = Len(c.s.zenz.key) + Len(<<>>)
      BY <2>1, <3>1, ReadingOfText DEF text
    <3> QED
      BY <1>1, <3>1, <3>2
  <2>11. d.s.composition = <<>>
    BY <2>6 DEF StringCommitted
  <2> QED
    BY <1>1, <2>6, <2>8, <2>9, <2>10, <2>11 DEF Committed, d
<1>3. CASE ~HasVisibleZenzLiveCorrection(c.s)
  <2> DEFINE a == FlushPendingLiveConversion(c, answer)
  <2>1. d = CommitInternal(a)
    BY <1>3 DEF Commit
  <2>2. Flushed(c, a)
    BY FlushKeepsText
  <2> HIDE DEF a
  <2>3. /\ IsCommand(a) /\ TextMatchesState(a.s) /\ Decided(a.s) /\ Asks(a)
        /\ FeedbackIsAlone(a.s) /\ KeepsText(c, a)
        /\ ListIsCurrent(c.s) => ListIsCurrent(a.s)
    BY <2>2 DEF Flushed, Loose
  <2>4. a.result = c.result /\ a.recorded = c.recorded /\ a.s.feedback = c.s.feedback
        /\ a.s.composition = c.s.composition /\ FeedbackKept(a)
    BY <2>3 DEF KeepsText, FeedbackKept
  <2> HIDE DEF d
  <2>5. CASE a.s.state \in {"COMPOSITION", "CONVERSION"}
    <3>1. TextCommitted(a, d)
      BY <2>1, <2>3, <2>5, CommitInternalWrites
    <3>2. Consistent(d.s) /\ Asks(d)
      BY <3>1, EmptyIsConsistent DEF TextCommitted, IsCommand, Asks
    <3>3. FeedbackKept(d)
      BY <2>4, <3>1 DEF TextCommitted, FeedbackKept
    <3>4. ListIsCurrent(c.s) => Reading(d.result) = Len(c.s.composition)
      BY <2>3, <2>4, <3>1, ReadingOfOutput DEF TextCommitted, IsCommand
    <3>5. d.s.composition = <<>> /\ IsCommand(d)
      BY <3>1 DEF TextCommitted
    <3> QED
      BY <1>1, <3>2, <3>3, <3>4, <3>5 DEF Committed, Sound, d
  <2>6. CASE a.s.state \notin {"COMPOSITION", "CONVERSION"}
    <3>1. d = a
      BY <2>1, <2>3, <2>6, CommitInternalWrites
    <3>2. a.s \in Members /\ a.s.cursor = 0 /\ a.s.composition = <<>> /\ a.s.converter = None
      BY <2>3, <2>6 DEF TextMatchesState, IsCommand, Members, Words
    <3>3. Consistent(a.s)
      BY <2>6, <3>2, EmptyIsConsistent DEF Members
    <3>4. c.result = None => Reading(d.result) = 0
      BY <2>4, <3>1 DEF Reading
    <3> QED
      BY <1>1, <2>3, <2>4, <3>1, <3>2, <3>3, <3>4 DEF Committed, Sound, d
  <2> QED
    BY <2>5, <2>6
<1> QED
  BY <1>2, <1>3

-----------------------------------------------------------------------------
\* The composer.

LEMMA PartOfSequence ==
    ASSUME NEW S, NEW s \in Seq(S), NEW m \in Int, NEW n \in Int,
           1 <= m, n <= Len(s), m <= n + 1
    PROVE  SubSeq(s, m, n) \in Seq(S) /\ Len(SubSeq(s, m, n)) = n - m + 1
<1>1. \A i \in m .. n : s[i] \in S
  OBVIOUS
<1> QED
  BY <1>1, SubSeqProperties

\* A sequence with an element inserted is one longer.
LEMMA InsertAtProperties ==
    ASSUME NEW S, NEW s \in Seq(S), NEW n \in Nat, n <= Len(s), NEW e \in S
    PROVE  InsertAt(s, n + 1, e) \in Seq(S) /\ Len(InsertAt(s, n + 1, e)) = Len(s) + 1
<1> DEFINE a == SubSeq(s, 1, n)
           b == SubSeq(s, n + 1, Len(s))
<1>1. Len(s) \in Nat /\ n + 1 \in Int /\ (n + 1) - 1 = n
  OBVIOUS
<1>2. /\ a \in Seq(S) /\ Len(a) = n
      /\ b \in Seq(S) /\ Len(b) = Len(s) - n
  BY <1>1, PartOfSequence
<1>3. <<e>> \in Seq(S) /\ Len(<<e>>) = 1
  OBVIOUS
<1>4. InsertAt(s, n + 1, e) = a \o <<e>> \o b
  BY <1>1 DEF InsertAt
<1> HIDE DEF a, b
<1> DEFINE front == a \o <<e>>
<1>5. front \in Seq(S) /\ Len(front) = n + 1
  BY <1>2, <1>3, ConcatProperties
<1> DEFINE longer == InsertAt(s, n + 1, e)
<1>6. longer = front \o b
  BY <1>4
<1> HIDE DEF front, longer
<1>7. front \o b \in Seq(S) /\ Len(front \o b) = Len(front) + Len(b)
  BY <1>2, <1>5, ConcatProperties
<1>8. longer \in Seq(S) /\ Len(longer) = Len(s) + 1
  BY <1>1, <1>2, <1>5, <1>6, <1>7
<1> QED
  BY <1>8 DEF longer

\* A sequence with an element removed is one shorter.
LEMMA RemoveAtProperties ==
    ASSUME NEW S, NEW s \in Seq(S), NEW n \in Nat \ {0}, n <= Len(s)
    PROVE  RemoveAt(s, n) \in Seq(S) /\ Len(RemoveAt(s, n)) = Len(s) - 1
<1> DEFINE a == SubSeq(s, 1, n - 1)
           b == SubSeq(s, n + 1, Len(s))
<1>1. Len(s) \in Nat /\ n + 1 \in Int /\ n - 1 \in Int
  OBVIOUS
<1>2. /\ a \in Seq(S) /\ Len(a) = n - 1
      /\ b \in Seq(S) /\ Len(b) = Len(s) - n
  BY <1>1, PartOfSequence
<1>3. RemoveAt(s, n) = a \o b
  BY DEF RemoveAt
<1> HIDE DEF a, b
<1>4. a \o b \in Seq(S) /\ Len(a \o b) = Len(a) + Len(b)
  BY <1>2, ConcatProperties
<1> QED
  BY <1>1, <1>2, <1>3, <1>4

\* A character goes in at the cursor, which moves behind it.
CharacterInserted(c, d, ch) ==
    /\ Writes(c, d, {"composition", "cursor"})
    /\ Len(d.s.composition) = Len(c.s.composition) + 1
    /\ d.s.composition # <<>>
    /\ d.s.cursor = c.s.cursor + 1
    /\ SameReply(c, d) /\ d.call = c.call

\* InsertCharacterKeyEvent inserts a character, whatever the cursor.
LEMMA InsertCharacterWrites ==
    ASSUME NEW c, IsCommand(c), c.s.cursor <= Len(c.s.composition),
           NEW ch \in Char \cup {Punctuation}
    PROVE  CharacterInserted(c, InsertCharacterKeyEvent(c, ch), ch)
<1> DEFINE text == InsertAt(c.s.composition, c.s.cursor + 1, ch)
           n == c.s.cursor + 1
           d == InsertCharacterKeyEvent(c, ch)
<1>1. d = [c EXCEPT !.s.composition = text, !.s.cursor = n]
  BY DEF InsertCharacterKeyEvent
<1>2. c.s.composition \in Seq(Char \cup {Punctuation}) /\ c.s.cursor \in Nat
  BY DEF IsCommand, Members, Words
<1>3. text \in Seq(Char \cup {Punctuation}) /\ Len(text) = Len(c.s.composition) + 1
  BY ZenonT(60), <1>2, InsertAtProperties
<1>4. text \in Words /\ text # <<>> /\ n \in Nat /\ n = c.s.cursor + 1
  BY <1>2, <1>3 DEF Words
<1> HIDE DEF text, n, d
<1>5. /\ Writes(c, d, {"composition", "cursor"}) /\ d.s.composition = text /\ d.s.cursor = n
      /\ SameReply(c, d) /\ d.call = c.call
  BY <1>1, <1>4 DEF IsCommand, Members, Writes, Names, SameReply
<1> QED
  BY <1>3, <1>4, <1>5 DEF CharacterInserted, d

\* The character before the cursor goes, if there is one.
LEMMA BackspaceWrites ==
    ASSUME NEW c, IsCommand(c), c.s.cursor <= Len(c.s.composition)
    PROVE  LET d == BackspaceComposer(c) IN
           /\ Writes(c, d, {"composition", "cursor"})
           /\ d.s.cursor <= Len(d.s.composition)
           /\ SameReply(c, d) /\ d.call = c.call
<1> DEFINE text == RemoveAt(c.s.composition, c.s.cursor)
           n == c.s.cursor - 1
           d == BackspaceComposer(c)
<1>1. IF c.s.cursor = 0 THEN d = c ELSE d = [c EXCEPT !.s.composition = text, !.s.cursor = n]
  BY DEF BackspaceComposer
<1>2. c.s.composition \in Seq(Char \cup {Punctuation}) /\ c.s.cursor \in Nat
  BY DEF IsCommand, Members, Words
<1>3. CASE c.s.cursor = 0
  BY <1>1, <1>3 DEF Writes, SameReply
<1>4. CASE c.s.cursor # 0
  <2>1. /\ text \in Seq(Char \cup {Punctuation}) /\ Len(text) = Len(c.s.composition) - 1
        /\ n \in Nat /\ n <= Len(text)
    BY <1>2, <1>4, RemoveAtProperties
  <2>2. text \in Words
    BY <2>1 DEF Words
  <2>3. d = [c EXCEPT !.s.composition = text, !.s.cursor = n]
    BY <1>1, <1>4
  <2> HIDE DEF text, n, d
  <2>4. /\ Writes(c, d, {"composition", "cursor"}) /\ d.s.composition = text /\ d.s.cursor = n
        /\ SameReply(c, d) /\ d.call = c.call
    BY <2>1, <2>2, <2>3 DEF IsCommand, Members, Writes, Names, SameReply
  <2> QED
    BY <2>1, <2>4 DEF d
<1> QED
  BY <1>3, <1>4

-----------------------------------------------------------------------------
\* The handlers, each from Begin.  What a step does to the session is Handled
\* before LeaveConversion: it is sound, keeps or records the pending feedback and
\* loses no text.
ReadingKept(c) ==
    ListIsCurrent(session) =>
        Reading(c.result) + Len(c.s.composition) >= Len(session.composition)
Handled(c) == Sound(c) /\ FeedbackKept(c) /\ ReadingKept(c)

\* The command a handler starts with has handled nothing and lost nothing.
LEMMA BeginIsHandled ==
    ASSUME IInv
    PROVE  Handled(Begin) /\ Loose(Begin) /\ Begin.s = session /\ Begin.result = None
<1>1. /\ IsCommand(Begin) /\ Begin.s = session /\ Begin.call.op = "none"
      /\ Begin.result = None /\ Begin.recorded = None
  BY BeginIsCommand DEF IInv, Settled, Consistent
<1>2. Consistent(Begin.s)
  BY <1>1 DEF IInv, Settled
<1>3. Asks(Begin)
  BY <1>1 DEF Asks, SameRequest
<1>4. FeedbackKept(Begin)
  BY <1>1 DEF FeedbackKept
<1>5. ReadingKept(Begin)
  <2>1. Len(session.composition) \in Nat
    BY DEF IInv, Settled, Consistent, Members, Words
  <2> QED
    BY <1>1, <2>1 DEF ReadingKept, Reading
<1> QED
  BY <1>1, <1>2, <1>3, <1>4, <1>5 DEF Handled, Sound, Loose, Consistent

\* The start of InsertCharacter decides what a commit left pending, unless a
\* conversion is on display.
CharacterConfirms(c) == IF c.s.state = "CONVERSION" THEN [c EXCEPT !.s.learning = FALSE]
                                                    ELSE ConfirmPending(c)
Confirmed(a) ==
    /\ IsCommand(a) /\ Consistent(a.s) /\ Asks(a)
    /\ \A name \in Names \ {"feedback", "learning"} : a.s[name] = session[name]
    /\ ~a.s.learning /\ a.result = None
    /\ IF a.s.state = "CONVERSION" /\ ~a.s.active
       THEN a.s.feedback = session.feedback /\ a.recorded = None
       ELSE a.s.feedback = None /\ FeedbackKept(a)

\* InsertCharacter starts from a session in which what a commit left is decided.
LEMMA CharacterConfirmsFirst ==
    ASSUME IInv
    PROVE  Confirmed(CharacterConfirms(Begin))
<1> DEFINE a == CharacterConfirms(Begin)
<1>1. /\ IsCommand(Begin) /\ Begin.s = session /\ Begin.call.op = "none"
      /\ Begin.result = None /\ Begin.recorded = None
  BY BeginIsCommand DEF IInv, Settled, Consistent
<1>2. Consistent(session) /\ Asks(Begin)
  BY BeginIsHandled DEF Handled, Sound, IInv, Settled
<1>3. a = IF Begin.s.state = "CONVERSION" THEN [Begin EXCEPT !.s.learning = FALSE]
                                          ELSE ConfirmPending(Begin)
  BY DEF CharacterConfirms
<1> HIDE DEF a
<1>4. PendingSet(Begin, a,
                 IF Begin.s.state = "CONVERSION" THEN session.feedback ELSE None, FALSE,
                 IF Begin.s.state = "CONVERSION" \/ session.feedback = None THEN None
                 ELSE session.feedback)
  <2>1. CASE Begin.s.state = "CONVERSION"
    <3>1. a = [Begin EXCEPT !.s.learning = FALSE]
      BY <1>3, <2>1
    <3>2. PendingSet(Begin, a, session.feedback, FALSE, None)
      BY <1>1, <3>1 DEF IsCommand, Members, PendingSet, Writes, Names
    <3> QED
      BY <2>1, <3>2
  <2>2. CASE Begin.s.state # "CONVERSION"
    <3>1. PendingSet(Begin, a, None, FALSE,
                     IF session.feedback = None THEN None ELSE session.feedback)
      BY <1>1, <1>3, <2>2, ConfirmWrites
    <3> QED
      BY <2>2, <3>1
  <2> QED
    BY <2>1, <2>2
<1>5. /\ a.s.state = session.state /\ a.s.composition = session.composition
      /\ a.s.cursor = session.cursor /\ a.s.converter = session.converter
      /\ a.s.active = session.active /\ a.s.live_key = session.live_key
      /\ a.s.live_value = session.live_value /\ a.s.pending_live = session.pending_live
      /\ a.s.pending_zenz = session.pending_zenz /\ a.s.zenz = session.zenz
      /\ ~a.s.learning
      /\ a.s.feedback = IF session.state = "CONVERSION" THEN session.feedback ELSE None
  BY <1>1, <1>4 DEF PendingSet, Writes, Names
<1>6. TextMatchesState(a.s) /\ LiveMatchesText(a.s) /\ PendingMatchesText(a.s)
  BY <1>2, <1>5 DEF Consistent, TextMatchesState, LiveMatchesText, PendingMatchesText,
                    Converting, CanOutputPending, HasStableLiveConversion
<1>7. ZenzMatchesLive(a.s) /\ Decided(a.s) /\ FeedbackIsAlone(a.s)
  BY <1>2, <1>5 DEF Consistent, ZenzMatchesLive, Decided, FeedbackIsAlone
<1>8. IsCommand(a) /\ Consistent(a.s) /\ Asks(a)
  BY <1>1, <1>2, <1>4, <1>5, <1>6, <1>7
     DEF Consistent, PendingSet, Writes, IsCommand, Asks
<1>9. a.s.state = "CONVERSION" /\ a.s.active => session.feedback = None
  BY <1>2, <1>5 DEF Consistent, FeedbackIsAlone, TextMatchesState
<1>10. Confirmed(a)
  BY <1>1, <1>4, <1>5, <1>8, <1>9 DEF Confirmed, PendingSet, FeedbackKept, Names
<1> QED
  BY <1>10 DEF a

\* What the converter and the composer show are texts.
LEMMA OutputIsText ==
    ASSUME NEW s \in Members
    PROVE  PopOutput(s) \in Texts /\ Raw(s.composition) \in Texts
<1>1. "raw" \in Speaker /\ <<>> \in Words /\ s.composition \in Words
  BY EmptyTypes DEF Speaker, Members
<1>2. Raw(s.composition) \in Texts
  BY <1>1, ReadingOfText DEF Raw
<1>3. CASE Converting(s)
  <2>1. s.converter.key \in Words /\ s.converter.value \in Speaker
    BY <1>3 DEF Converting, Members, Converter, Speaker, MozcValue
  <2> QED
    BY <1>1, <1>2, <1>3, <2>1, ReadingOfText DEF PopOutput
<1> QED
  BY <1>2, <1>3 DEF PopOutput

\* Before the character goes in, a conversion that is not live is committed, and
\* live conversion is left.
MadeRoom(a, d) ==
    /\ IsCommand(d) /\ d.call.op = "cancel" /\ d.s.pending_zenz = None
    /\ d.s.pending_live = None /\ d.s.zenz = None
    /\ ~d.s.active /\ d.s.feedback = None /\ ~d.s.learning
    /\ ~Converting(d.s) /\ d.s.cursor <= Len(d.s.composition)
    /\ FeedbackKept(d)
    /\ d.s.live_key = IF a.s.active THEN a.s.live_key ELSE d.s.live_key
    /\ d.s.live_value = IF a.s.active THEN a.s.live_value ELSE d.s.live_value
    /\ \/ /\ ~a.s.active /\ d.s.composition = <<>> /\ d.result \in Texts
          /\ ListIsCurrent(session) => Reading(d.result) = Len(session.composition)
       \/ d.s.composition = session.composition /\ d.result = None

\* InsertCharacter makes room before the character goes in.
LEMMA RoomIsMade ==
    ASSUME NEW a, Confirmed(a),
           NEW b, b = CancelLiveConversionForEditing(a),
           NEW d, d = IF b.s.state = "CONVERSION"
                      THEN ConfirmPendingZenzFeedback(CommitInternal(b)) ELSE b
    PROVE  MadeRoom(a, d)
<1>1. /\ IsCommand(a) /\ TextMatchesState(a.s) /\ a.s \in Members
      /\ a.s.composition = session.composition /\ a.s.converter = session.converter
      /\ ~a.s.learning /\ a.result = None
  BY DEF Confirmed, Consistent, Names
<1>2. LiveLeft(a, b)
  BY <1>1, CancelForEditingLeaves
<1>3. /\ IsCommand(b) /\ b.s.composition = session.composition /\ b.s.cursor = a.s.cursor
      /\ b.s.live_key = a.s.live_key /\ b.s.live_value = a.s.live_value
      /\ b.s.feedback = a.s.feedback /\ ~b.s.learning
      /\ b.result = None /\ b.recorded = a.recorded
  BY <1>1, <1>2 DEF LiveLeft, Writes, Names, SameReply
<1>4. CASE b.s.state = "CONVERSION"
  <2> DEFINE x == CommitInternal(b)
  <2>1. ~a.s.active /\ a.s.state = "CONVERSION" /\ b.s.converter = session.converter
    BY <1>1, <1>2, <1>4 DEF LiveLeft
  <2>2. TextCommitted(b, x)
    BY <1>3, <1>4, CommitInternalWrites
  <2> HIDE DEF x
  <2>3. PendingSet(x, d, None, x.s.learning,
                   IF x.s.feedback = None THEN x.recorded ELSE x.s.feedback)
    BY <1>4, <2>2, ConfirmFeedbackWrites DEF TextCommitted, x
  <2>4. x.s.feedback = session.feedback /\ x.recorded = None
    BY <1>3, <2>1, <2>2 DEF TextCommitted, Confirmed
  <2>5. FeedbackKept(d)
    BY <2>3, <2>4 DEF PendingSet, FeedbackKept
  <2>6. d.result = PopOutput(b.s)
    BY <1>4, <2>2, <2>3 DEF TextCommitted, PendingSet
  <2>7. TextMatchesState(b.s)
    BY <1>1, <1>2, <1>3, <1>4, <2>1 DEF TextMatchesState, Converting, LiveLeft
  <2>8. /\ d.result \in Texts
        /\ ListIsCurrent(session) => Reading(d.result) = Len(session.composition)
    <3>1. ListIsCurrent(session) => ListIsCurrent(b.s)
      BY <1>3, <2>1 DEF ListIsCurrent
    <3> QED
      BY <1>3, <2>6, <2>7, <3>1, OutputIsText, ReadingOfOutput DEF IsCommand
  <2>9. /\ d.s.composition = <<>> /\ d.s.cursor = 0 /\ d.s.converter = None
        /\ d.s.pending_zenz = None /\ d.s.pending_live = None /\ d.s.zenz = None
        /\ ~d.s.active /\ d.s.feedback = None /\ ~d.s.learning /\ d.call.op = "cancel"
        /\ IsCommand(d)
    BY <1>3, <2>2, <2>3 DEF TextCommitted, PendingSet, Writes, Names
  <2>10. Len(d.s.composition) = 0
    BY <2>9
  <2> QED
    BY <2>1, <2>5, <2>8, <2>9, <2>10 DEF MadeRoom, Converting
<1>5. CASE b.s.state # "CONVERSION"
  <2>1. d = b
    BY <1>5
  <2>2. a.s.state = "CONVERSION" => a.s.active
    BY <1>2, <1>5 DEF LiveLeft
  <2>3. a.s.feedback = None /\ FeedbackKept(a)
    BY <2>2 DEF Confirmed
  <2>4. FeedbackKept(d)
    BY <1>3, <2>1, <2>3 DEF FeedbackKept
  <2>5. ~Converting(b.s) /\ b.s.cursor <= Len(b.s.composition)
    BY <1>1, <1>2, <1>3, <2>2 DEF TextMatchesState, Converting, LiveLeft
  <2> QED
    BY <1>2, <1>3, <2>1, <2>3, <2>4, <2>5 DEF MadeRoom, LiveLeft
<1> QED
  BY <1>4, <1>5

\* Then the character is in the text.
CharacterIn(a, f) ==
    /\ IsCommand(f) /\ Asks(f) /\ f.s.pending_zenz = None
    /\ f.s.pending_live = None /\ f.s.zenz = None
    /\ ~f.s.active /\ f.s.feedback = None /\ ~f.s.learning
    /\ ~Converting(f.s) /\ f.s.cursor <= Len(f.s.composition) /\ f.s.composition # <<>>
    /\ FeedbackKept(f)
    /\ a.s.active => f.s.live_key = a.s.live_key /\ f.s.live_value = a.s.live_value
    /\ \/ /\ ~a.s.active /\ f.result \in Texts
          /\ ListIsCurrent(session) => Reading(f.result) = Len(session.composition)
       \/ Len(f.s.composition) = Len(session.composition) + 1 /\ f.result = None

\* InsertCharacter has the character in the text, behind what it has committed.
LEMMA CharacterGoesIn ==
    ASSUME NEW a, NEW d, MadeRoom(a, d), session.composition \in Words,
           NEW ch \in Char \cup {Punctuation},
           NEW e, e = InsertCharacterKeyEvent(d, ch),
           NEW f, f = IF ~a.s.active /\ Len(e.s.composition) = 1
                      THEN ForgetLiveConversion(e) ELSE e
    PROVE  CharacterIn(a, f)
<1>1. IsCommand(d) /\ d.s.cursor <= Len(d.s.composition) /\ d.s \in Members
  BY DEF MadeRoom, IsCommand
<1>2. CharacterInserted(d, e, ch)
  BY <1>1, InsertCharacterWrites
<1>3. /\ d.s.composition \in Words /\ Len(d.s.composition) \in Nat /\ d.s.cursor \in Nat
      /\ Len(session.composition) \in Nat
  BY <1>1 DEF Members, Words
<1>4. \/ f = e
      \/ LiveForgotten(e, f) /\ ~a.s.active
  BY <1>2, ForgetWrites DEF CharacterInserted, Writes
<1>5. /\ Writes(d, f, {"composition", "cursor", "live_key", "live_value", "pending_zenz", "zenz"})
      /\ f.s.composition = e.s.composition /\ f.s.cursor = e.s.cursor
      /\ f.s.pending_zenz = None /\ f.s.zenz = None /\ f.call.op = "cancel"
      /\ f.result = d.result /\ f.recorded = d.recorded
      /\ a.s.active => f.s.live_key = d.s.live_key /\ f.s.live_value = d.s.live_value
  <2>1. /\ IsCommand(e) /\ e.s.pending_zenz = None /\ e.s.zenz = None /\ e.call.op = "cancel"
        /\ SameReply(d, e)
    BY <1>2 DEF MadeRoom, CharacterInserted, Writes, Names
  <2>2. CASE f = e
    BY <1>2, <2>1, <2>2 DEF CharacterInserted, Writes, Names, SameReply
  <2>3. CASE LiveForgotten(e, f) /\ ~a.s.active
    BY <1>2, <2>1, <2>3 DEF CharacterInserted, LiveForgotten, Writes, Names, SameReply
  <2> QED
    BY <1>4, <2>2, <2>3
<1>6. /\ f.s.converter = d.s.converter /\ f.s.active = d.s.active
      /\ f.s.feedback = d.s.feedback /\ f.s.learning = d.s.learning
      /\ f.s.pending_live = d.s.pending_live /\ IsCommand(f)
  BY <1>5 DEF Writes, Names
<1>7. ~Converting(f.s) /\ FeedbackKept(f) /\ Asks(f)
  BY <1>5, <1>6 DEF MadeRoom, Converting, FeedbackKept, Asks
<1>8. /\ f.s.composition # <<>> /\ Len(f.s.composition) = Len(d.s.composition) + 1
      /\ f.s.cursor <= Len(f.s.composition)
  BY <1>1, <1>2, <1>3, <1>5 DEF CharacterInserted
<1> QED
  BY <1>5, <1>6, <1>7, <1>8 DEF MadeRoom, CharacterIn

\* The pending display reads as the composition.
LEMMA PendingTextReads ==
    ASSUME NEW s \in Members, CanOutputPending(s)
    PROVE  PendingText(s) \in Texts /\ Reading(PendingText(s)) = Len(s.composition)
<1>1. /\ "raw" \in Speaker /\ s.live_value \in Speaker /\ <<>> \in Words
      /\ s.composition \in Words /\ s.live_key \in Words
  BY EmptyTypes DEF Speaker, Members
<1>2. Len(s.composition) \in Nat /\ Len(s.live_key) \in Nat /\ Len(<<>>) = 0
  BY <1>1 DEF Words
<1>3. CASE HasStableLiveConversion(s)
  <2> DEFINE m == Len(s.live_key) + 1
             n == Len(s.composition)
             tail == SubSeq(s.composition, m, n)
  <2>1. Len(s.live_key) <= Len(s.composition)
    BY <1>3 DEF CanOutputPending, IsPrefix
  <2>2. tail \in Words /\ Len(tail) = Len(s.composition) - Len(s.live_key)
    <3>1. s.composition \in Seq(Char \cup {Punctuation})
      BY <1>1 DEF Words
    <3>2. /\ m \in Int /\ n \in Int /\ 1 <= m /\ n <= Len(s.composition) /\ m <= n + 1
          /\ n - m + 1 = Len(s.composition) - Len(s.live_key)
      BY <1>2, <2>1
    <3> HIDE DEF m, n
    <3>3. tail \in Seq(Char \cup {Punctuation}) /\ Len(tail) = n - m + 1
      BY <3>1, <3>2, PartOfSequence
    <3> HIDE DEF tail
    <3> QED
      BY <3>2, <3>3 DEF Words
  <2>3. PendingText(s) = Text(s.live_value, s.live_key, tail)
    BY <1>3 DEF PendingText
  <2> HIDE DEF tail, m, n
  <2>4. /\ Text(s.live_value, s.live_key, tail) \in Texts
        /\ Reading(Text(s.live_value, s.live_key, tail)) = Len(s.live_key) + Len(tail)
    BY <1>1, <2>2, ReadingOfText
  <2> QED
    BY <1>2, <2>2, <2>3, <2>4
<1>4. CASE ~HasStableLiveConversion(s)
  <2>1. /\ Text("raw", <<>>, s.composition) \in Texts
        /\ Reading(Text("raw", <<>>, s.composition)) = Len(<<>>) + Len(s.composition)
    BY <1>1, ReadingOfText
  <2> QED
    BY <1>2, <1>4, <2>1 DEF PendingText, Raw
<1> QED
  BY <1>3, <1>4

\* A direct commit keeps what is recorded and pending, and adds its text to what
\* the command has committed already.
StringAdded(c, d, text) ==
    /\ Sound(d) /\ d.s.composition = <<>>
    /\ FeedbackKept(c) => FeedbackKept(d)
    /\ Reading(d.result) \in Nat /\ Reading(d.result) >= Reading(c.result)
    /\ c.result = None => Reading(d.result) = Reading(text)

\* CommitStringDirectly adds its text and keeps the feedback.
LEMMA CommitStringAdds ==
    ASSUME NEW c, IsCommand(c), Asks(c), c.result \in Texts \cup {None}, NEW text \in Texts
    PROVE  StringAdded(c, CommitStringDirectly(c, text), text)
<1> DEFINE d == CommitStringDirectly(c, text)
<1>1. StringCommitted(c, d, text) /\ Sound(d)
  BY CommitStringWrites, CommitStringIsSound
<1> HIDE DEF d
<1>2. d.s.composition = <<>> /\ (FeedbackKept(c) => FeedbackKept(d))
  BY <1>1 DEF StringCommitted, Writes, Names, FeedbackKept
<1>3. \A t \in Texts : Reading(t) \in Nat /\ Reading(t) = Len(t.key) + Len(t.tail)
  BY NoneAssumption DEF Reading, Texts, Words
<1>4. CASE c.result = None
  <2>1. d.result = text /\ Reading(c.result) = 0
    BY <1>1, <1>4 DEF StringCommitted, Reading
  <2>2. Reading(text) \in Nat
    BY <1>3
  <2>3. StringAdded(c, d, text)
    BY <1>1, <1>2, <2>1, <2>2 DEF StringAdded
  <2> QED
    BY <2>3 DEF d
<1>5. CASE c.result # None
  <2>1. c.result \in Texts
    BY <1>5
  <2>2. /\ c.result.by \in Speaker /\ c.result.key \in Words /\ c.result.tail \in Words
        /\ text.tail \in Words
    BY <2>1 DEF Texts
  <2> DEFINE tail == c.result.tail \o text.tail
  <2>3. /\ tail \in Words /\ Len(tail) = Len(c.result.tail) + Len(text.tail)
        /\ Len(c.result.key) \in Nat /\ Len(c.result.tail) \in Nat /\ Len(text.tail) \in Nat
    BY <2>2, ConcatProperties DEF Words
  <2>4. d.result = Text(c.result.by, c.result.key, tail)
    BY <1>1, <1>5 DEF StringCommitted
  <2> HIDE DEF tail
  <2>5. Reading(d.result) = Len(c.result.key) + Len(tail)
    BY ZenonT(60), <2>2, <2>3, <2>4, ReadingOfText
  <2>6. Reading(c.result) = Len(c.result.key) + Len(c.result.tail)
    BY <1>3, <2>1
  <2>7. Reading(d.result) \in Nat /\ Reading(d.result) >= Reading(c.result)
    <3>1. \A i, j, k, l \in Nat : k = i + j => l + k \in Nat /\ l + k >= l + i
      OBVIOUS
    <3>2. tail \in Words
      BY <2>3
    <3>3. Len(tail) \in Nat
      BY <3>2 DEF Words
    <3> QED
      BY ZenonT(60), <2>3, <2>5, <2>6, <3>1, <3>3
  <2>8. StringAdded(c, d, text)
    BY <1>1, <1>2, <1>5, <2>7 DEF StringAdded
  <2> QED
    BY <2>8 DEF d
<1> QED
  BY <1>4, <1>5

\* What is committed directly, one character longer than the text.
LEMMA LongerIsHandled ==
    ASSUME NEW c, IsCommand(c), Asks(c), FeedbackKept(c), c.result \in Texts \cup {None},
           NEW text \in Texts, session.composition \in Words,
           \/ ListIsCurrent(session) => Reading(c.result) = Len(session.composition)
           \/ c.result = None /\ Reading(text) = Len(session.composition) + 1
    PROVE  Handled(CommitStringDirectly(c, text))
<1> DEFINE d == CommitStringDirectly(c, text)
<1>1. StringAdded(c, d, text)
  BY CommitStringAdds
<1> HIDE DEF d
<1>2. Len(session.composition) \in Nat /\ Len(<<>>) = 0
  BY DEF Words
<1>3. ListIsCurrent(session) => Reading(d.result) >= Len(session.composition)
  <2>1. CASE ListIsCurrent(session) => Reading(c.result) = Len(session.composition)
    BY <1>1, <2>1 DEF StringAdded
  <2>2. CASE c.result = None /\ Reading(text) = Len(session.composition) + 1
    BY <1>1, <1>2, <2>2 DEF StringAdded
  <2> QED
    BY <2>1, <2>2
<1>4. Len(d.s.composition) = 0 /\ Reading(d.result) \in Nat
  BY <1>1, <1>2 DEF StringAdded
<1>5. ReadingKept(d)
  BY <1>2, <1>3, <1>4 DEF ReadingKept
<1>6. Handled(d)
  BY <1>1, <1>5 DEF Handled, StringAdded
<1> QED
  BY <1>6 DEF d

\* A character key: what is pending is committed as displayed, or the character
\* goes in and the text is scheduled, or its punctuation commits it.
LEMMA CharacterIsHandled ==
    ASSUME IInv, NEW ch \in Char \cup {Punctuation}, NEW answer \in Answer
    PROVE  Handled(InsertCharacter(Begin, ch, answer))
<1> DEFINE a == CharacterConfirms(Begin)
           visible == HasVisibleZenzLiveCorrection(a.s)
           b == CancelLiveConversionForEditing(a)
           should_commit == b.s.state = "CONVERSION"
           d == IF should_commit THEN ConfirmPendingZenzFeedback(CommitInternal(b)) ELSE b
           e == InsertCharacterKeyEvent(d, ch)
           f == IF ~a.s.active /\ Len(e.s.composition) = 1 THEN ForgetLiveConversion(e) ELSE e
           typed == InsertCharacterKeyEvent(a, ch)
           zenztext == Text("zenz", a.s.zenz.key, <<ch>>)
           h == InsertCharacter(Begin, ch, answer)
<1>1. \/ /\ a.s.pending_live # None /\ a.s.state = "COMPOSITION"
         /\ h = CommitPendingLiveConversionDisplayDirectly(typed)
      \/ h = ScheduleLiveConversionOrSuggest(SetSessionState(f, "COMPOSITION"), answer)
      \/ /\ visible
         /\ h = CommitStringDirectly(
                   ClearLiveConversionState(SetPendingZenzFeedbackAccepted(f, a.s.zenz)),
                   zenztext)
      \/ a.s.active /\ h = CommitLiveConversionResult(f)
      \/ h = CommitCompositionDirectly([f EXCEPT !.s.learning = should_commit])
  BY DEF InsertCharacter, CharacterConfirms
<1>2. Confirmed(a)
  BY CharacterConfirmsFirst
<1>3. /\ session.composition \in Words /\ Len(session.composition) \in Nat
      /\ setting \in Settings
      /\ session.active => session.state = "CONVERSION"
      /\ ch \in Char \cup {Punctuation}
  BY DEF IInv, Settled, Consistent, Members, Words
<1> HIDE DEF a
<1>4. MadeRoom(a, d)
  BY <1>2, RoomIsMade
<1> HIDE DEF should_commit, b, d
<1>5. CharacterIn(a, f)
  BY <1>3, <1>4, CharacterGoesIn
<1>6. CharacterInserted(a, typed, ch)
  BY <1>2, InsertCharacterWrites DEF Confirmed, Consistent, TextMatchesState
<1> HIDE DEF e, f, typed, h
<1>7. /\ f.s \in Members /\ f.result \in Texts \cup {None} /\ f.s.composition \in Words
      /\ IsCommand(f) /\ Asks(f) /\ FeedbackKept(f)
      /\ \/ ListIsCurrent(session) => Reading(f.result) = Len(session.composition)
         \/ f.result = None /\ Len(f.s.composition) = Len(session.composition) + 1
  BY <1>5 DEF CharacterIn, IsCommand, Members
<1>8. "zenz" \in Speaker /\ <<ch>> \in Words /\ Len(<<ch>>) = 1 /\ <<>> \in Words
      /\ "raw" \in Speaker
  BY <1>3, EmptyTypes DEF Speaker, Words
<1>9. CASE /\ a.s.pending_live # None /\ a.s.state = "COMPOSITION"
           /\ h = CommitPendingLiveConversionDisplayDirectly(typed)
  <2> DEFINE x == ClearLiveConversionState(typed)
             text == IF CanOutputPending(typed.s) THEN PendingText(typed.s)
                                                  ELSE Raw(typed.s.composition)
  <2>1. h = CommitStringDirectly(x, text)
    BY <1>9 DEF CommitPendingLiveConversionDisplayDirectly
  <2>2. /\ IsCommand(typed) /\ typed.s \in Members
        /\ Len(typed.s.composition) = Len(session.composition) + 1
        /\ typed.s.feedback = a.s.feedback /\ typed.recorded = a.recorded
        /\ typed.result = None
    BY <1>2, <1>6 DEF CharacterInserted, Confirmed, Writes, Names, SameReply, IsCommand
  <2>3. text \in Texts /\ Reading(text) = Len(session.composition) + 1
    <3>1. CASE CanOutputPending(typed.s)
      BY <2>2, <3>1, PendingTextReads
    <3>2. CASE ~CanOutputPending(typed.s)
      <4>1. typed.s.composition \in Words /\ Len(<<>>) = 0
        BY <2>2 DEF Members
      <4>2. /\ Text("raw", <<>>, typed.s.composition) \in Texts
            /\ Reading(Text("raw", <<>>, typed.s.composition))
                  = Len(<<>>) + Len(typed.s.composition)
        BY <1>8, <4>1, ReadingOfText
      <4> QED
        BY <1>3, <2>2, <3>2, <4>1, <4>2 DEF Raw
    <3> QED
      BY <3>1, <3>2
  <2>4. LiveCleared(typed, x)
    BY <2>2, ClearLiveWrites
  <2> HIDE DEF x, text
  <2>5. IsCommand(x) /\ Asks(x) /\ x.result = None
    BY <2>2, <2>4 DEF LiveCleared, Writes, Asks, SameReply
  <2>6. FeedbackKept(x)
    <3>1. FeedbackKept(a)
      BY <1>2, <1>9 DEF Confirmed
    <3>2. x.s.feedback = a.s.feedback /\ x.recorded = a.recorded
      BY <2>2, <2>4 DEF LiveCleared, Writes, Names, SameReply
    <3> QED
      BY <3>1, <3>2 DEF FeedbackKept
  <2> QED
    BY <1>3, <2>1, <2>3, <2>5, <2>6, LongerIsHandled DEF h
<1>10. CASE h = ScheduleLiveConversionOrSuggest(SetSessionState(f, "COMPOSITION"), answer)
  <2> DEFINE x == SetSessionState(f, "COMPOSITION")
  <2>1. StateSet(f, x, "COMPOSITION")
    BY <1>7, SetSessionStateWrites
  <2>2. h = ScheduleLiveConversionOrSuggest(x, answer)
    BY <1>10
  <2> HIDE DEF x
  <2>3. /\ x.s.state = "COMPOSITION" /\ x.s.composition = f.s.composition
        /\ x.s.cursor = f.s.cursor /\ x.s.converter = f.s.converter
        /\ x.s.feedback = None /\ ~x.s.learning /\ x.s.pending_zenz = None
        /\ x.result = f.result /\ x.recorded = f.recorded /\ x.call = f.call
        /\ IsCommand(x)
    BY <1>5, <2>1 DEF CharacterIn, StateSet, Writes, Names, SameReply
  <2>4. Loose(x)
    BY <1>5, <2>3 DEF Loose, CharacterIn, TextMatchesState, Converting, Decided,
                      FeedbackIsAlone, Asks
  <2>5. Sound(h) /\ KeepsText(x, h)
    BY <1>3, <2>2, <2>3, <2>4, ScheduleIsSound
  <2>6. /\ h.result = f.result /\ h.recorded = f.recorded
        /\ h.s.feedback = f.s.feedback /\ h.s.composition = f.s.composition
    BY <1>5, <2>3, <2>5 DEF KeepsText, CharacterIn
  <2>7. FeedbackKept(h)
    BY <1>7, <2>6 DEF FeedbackKept
  <2>8. ReadingKept(h)
    <3>1. Len(f.s.composition) \in Nat
      BY <1>7 DEF Words
    <3>2. f.result = None => Reading(f.result) = 0
      BY DEF Reading
    <3> QED
      BY <1>3, <1>7, <2>6, <3>1, <3>2 DEF ReadingKept
  <2> QED
    BY <2>5, <2>7, <2>8 DEF Handled, h
<1>11. CASE /\ visible
            /\ h = CommitStringDirectly(
                      ClearLiveConversionState(SetPendingZenzFeedbackAccepted(f, a.s.zenz)),
                      zenztext)
  <2> DEFINE y == SetPendingZenzFeedbackAccepted(f, a.s.zenz)
             x == ClearLiveConversionState(y)
  <2>1. /\ a.s.active /\ a.s.zenz # None /\ a.s.state = "CONVERSION"
        /\ a.s.live_key = a.s.zenz.key /\ a.s.zenz \in Correction
        /\ a.s.zenz.key \in Words
    BY <1>2, <1>11 DEF HasVisibleZenzLiveCorrection, Confirmed, IsCommand, Members, Correction
  <2>2. /\ a.s.zenz.key = session.composition /\ session.feedback = None
    BY <1>2, <1>3, <2>1
       DEF Confirmed, Consistent, LiveMatchesText, Names, FeedbackIsAlone,
           TextMatchesState, IInv, Settled
  <2>3. PendingSet(f, y, [action |-> "accepted", key |-> a.s.zenz.key], f.s.learning,
                   f.recorded)
    BY <1>7, <2>1, AcceptedWrites
  <2> HIDE DEF y
  <2>4. LiveCleared(y, x)
    BY <2>3, ClearLiveWrites DEF PendingSet, Writes
  <2>5. h = CommitStringDirectly(x, zenztext)
    BY <1>11 DEF y
  <2> HIDE DEF x
  <2>6. IsCommand(x) /\ Asks(x) /\ x.result = f.result
    BY <2>3, <2>4 DEF LiveCleared, PendingSet, Writes, Asks, SameReply
  <2>7. f.result = None
    BY <1>5, <2>1 DEF CharacterIn
  <2>8. FeedbackKept(x)
    BY <2>2 DEF FeedbackKept
  <2>9. zenztext \in Texts /\ Reading(zenztext) = Len(session.composition) + 1
    BY ZenonT(60), <1>3, <1>8, <2>2, ReadingOfText
  <2> HIDE DEF zenztext
  <2> QED
    BY <1>3, <2>5, <2>6, <2>7, <2>8, <2>9, LongerIsHandled DEF h
<1>12. CASE a.s.active /\ h = CommitLiveConversionResult(f)
  <2> DEFINE raw == Raw(f.s.composition)
             x == ClearLiveConversionState(f)
             last == Last(f.s.composition)
             text == Text(f.s.live_value, f.s.live_key, <<last>>)
  <2>1. \/ h = CommitStringDirectly(f, raw)
        \/ f.s.live_value # None /\ h = CommitStringDirectly(x, text)
    BY <1>12 DEF CommitLiveConversionResult, CommitCompositionDirectly
  <2>2. f.result = None /\ Len(f.s.composition) = Len(session.composition) + 1
    BY <1>5, <1>12 DEF CharacterIn
  <2>3. raw \in Texts /\ Reading(raw) = Len(session.composition) + 1
    <3>1. /\ Text("raw", <<>>, f.s.composition) \in Texts
          /\ Reading(Text("raw", <<>>, f.s.composition)) = Len(<<>>) + Len(f.s.composition)
          /\ Len(<<>>) = 0
      BY <1>7, <1>8, ReadingOfText
    <3> QED
      BY <1>3, <2>2, <3>1 DEF Raw
  <2>4. CASE h = CommitStringDirectly(f, raw)
    <3> HIDE DEF raw
    <3> QED
      BY <1>3, <1>7, <2>2, <2>3, <2>4, LongerIsHandled DEF h
  <2>5. CASE f.s.live_value # None /\ h = CommitStringDirectly(x, text)
    <3>1. LiveCleared(f, x)
      BY <1>7, ClearLiveWrites
    <3> HIDE DEF x
    <3>2. IsCommand(x) /\ Asks(x) /\ x.result = None /\ FeedbackKept(x)
      BY <1>7, <2>2, <3>1 DEF LiveCleared, Writes, Names, Asks, SameReply, FeedbackKept
    <3>3. /\ f.s.live_key = session.composition /\ f.s.live_value \in Speaker
      <4>1. a.s.active = session.active /\ a.s.live_key = session.live_key
        BY <1>2 DEF Confirmed, Names
      <4>2. session.active /\ session.state = "CONVERSION" /\ f.s.live_key = session.live_key
        BY <1>3, <1>5, <1>12, <4>1 DEF CharacterIn
      <4> QED
        BY <1>7, <4>2 DEF IInv, Settled, Consistent, LiveMatchesText, Members, Speaker
    <3>4. <<last>> \in Words /\ Len(<<last>>) = 1
      <4>1. f.s.composition \in Seq(Char \cup {Punctuation}) /\ f.s.composition # <<>>
        BY <1>5, <1>7 DEF CharacterIn, Words
      <4>2. last \in Char \cup {Punctuation}
        BY <4>1 DEF Last
      <4> QED
        BY <4>2 DEF Words
    <3>5. text \in Texts /\ Reading(text) = Len(session.composition) + 1
      BY <1>3, <3>3, <3>4, ReadingOfText
    <3> HIDE DEF text
    <3> QED
      BY <1>3, <2>5, <3>2, <3>5, LongerIsHandled DEF h
  <2> QED
    BY <2>1, <2>4, <2>5
<1>13. CASE h = CommitCompositionDirectly([f EXCEPT !.s.learning = should_commit])
  <2> DEFINE raw == Raw(f.s.composition)
             x == [f EXCEPT !.s.learning = should_commit]
  <2>1. should_commit \in BOOLEAN
    BY DEF should_commit
  <2>2. x = [f EXCEPT !.s.learning = should_commit]
    OBVIOUS
  <2>3. h = CommitStringDirectly(x, Raw(x.s.composition))
    BY <1>13 DEF CommitCompositionDirectly
  <2> HIDE DEF x
  <2>4. /\ IsCommand(x) /\ x.s.composition = f.s.composition /\ x.result = f.result
        /\ x.s.feedback = f.s.feedback /\ x.recorded = f.recorded
        /\ x.s.pending_zenz = f.s.pending_zenz /\ x.call = f.call
    BY <1>7, <2>1, <2>2 DEF IsCommand, Members
  <2>5. Asks(x) /\ FeedbackKept(x)
    BY <1>7, <2>4 DEF Asks, FeedbackKept
  <2>6. h = CommitStringDirectly(x, raw)
    BY <2>3, <2>4
  <2>7. /\ raw \in Texts
        /\ Reading(raw) = Len(f.s.composition)
    <3>1. /\ Text("raw", <<>>, f.s.composition) \in Texts
          /\ Reading(Text("raw", <<>>, f.s.composition)) = Len(<<>>) + Len(f.s.composition)
          /\ Len(<<>>) = 0
      BY <1>7, <1>8, ReadingOfText
    <3>2. Len(f.s.composition) \in Nat
      BY <1>7 DEF Words
    <3> QED
      BY <3>1, <3>2 DEF Raw
  <2> HIDE DEF raw
  <2> QED
    BY <1>3, <1>7, <2>4, <2>5, <2>6, <2>7, LongerIsHandled DEF h
<1> QED
  BY <1>1, <1>9, <1>10, <1>11, <1>12, <1>13

\* A correcting operation leaves nothing pending and records nothing.
Corrected(c) == Sound(c) /\ c.s.feedback = None /\ c.recorded = None

\* What Begin is to the handlers.
Begun(c) ==
    /\ IsCommand(c) /\ c.s = session /\ Consistent(session) /\ Settled(session) /\ Asks(c)
    /\ c.result = None /\ c.recorded = None /\ c.call.op = "none"

\* Begin starts from a settled session and has asked for nothing.
LEMMA BeginIsBegun ==
    ASSUME IInv
    PROVE  Begun(Begin)
<1>1. /\ IsCommand(Begin) /\ Begin.s = session /\ Begin.call.op = "none"
      /\ Begin.result = None /\ Begin.recorded = None
  BY BeginIsCommand DEF IInv, Settled, Consistent
<1> QED
  BY <1>1, BeginIsHandled DEF Begun, IInv, Settled, Handled, Sound

\* DiscardPending alone, the correcting key where there is no text, corrects.
LEMMA DiscardIsCorrected ==
    ASSUME NEW c, Begun(c)
    PROVE  /\ Corrected(DiscardPending(c))
           /\ PendingSet(c, DiscardPending(c), None, FALSE, None)
<1> DEFINE d == DiscardPending(c)
<1>1. PendingSet(c, d, None, FALSE, None)
  BY DiscardWrites DEF Begun
<1> HIDE DEF d
<1>2. /\ d.s.state = session.state /\ d.s.composition = session.composition
      /\ d.s.cursor = session.cursor /\ d.s.converter = session.converter
      /\ d.s.active = session.active /\ d.s.live_key = session.live_key
      /\ d.s.live_value = session.live_value /\ d.s.pending_live = session.pending_live
      /\ d.s.pending_zenz = session.pending_zenz /\ d.s.zenz = session.zenz
      /\ ~d.s.learning /\ d.s.feedback = None /\ d.recorded = None /\ d.call = c.call
      /\ IsCommand(d) /\ d.s \in Members
  BY <1>1 DEF Begun, PendingSet, Writes, Names, IsCommand
<1>3. TextMatchesState(d.s) /\ LiveMatchesText(d.s) /\ PendingMatchesText(d.s)
  BY <1>2 DEF Begun, Consistent, TextMatchesState, LiveMatchesText, PendingMatchesText,
              Converting, CanOutputPending, HasStableLiveConversion
<1>4. ZenzMatchesLive(d.s) /\ Decided(d.s) /\ FeedbackIsAlone(d.s)
  BY <1>2 DEF Begun, Consistent, ZenzMatchesLive, Decided, FeedbackIsAlone
<1>5. Asks(d)
  BY <1>2 DEF Begun, Asks
<1>6. Corrected(d)
  BY <1>2, <1>3, <1>4, <1>5 DEF Corrected, Sound, Consistent
<1> QED
  BY <1>1, <1>6 DEF d

\* EditCancel leaves nothing to compose.
LEMMA EditCancelIsCorrected ==
    ASSUME NEW c, Begun(c)
    PROVE  Corrected(EditCancel(c))
<1> DEFINE a == DiscardPending(c)
           b == SetSessionState(a, "PRECOMPOSITION")
           x == [b EXCEPT !.s.converter = None]
           y == ClearLiveConversionState(x)
           out == PopOutput(y.s)
           d == EditCancel(c)
<1>1. PendingSet(c, a, None, FALSE, None)
  BY DiscardIsCorrected
<1>2. d = [y EXCEPT !.out = out]
  BY DEF EditCancel, Output, SetStateToPrecompositionAndCancel
<1> HIDE DEF a
<1>3. StateSet(a, b, "PRECOMPOSITION")
  BY <1>1, SetSessionStateWrites DEF PendingSet, Writes
<1>4. x = [b EXCEPT !.s.converter = None]
  OBVIOUS
<1> HIDE DEF b, x
<1>5. Writes(b, x, {"converter"}) /\ x.s.converter = None /\ SameReply(b, x)
  BY <1>3, <1>4 DEF StateSet, IsCommand, Members, Writes, Names, SameReply
<1>6. LiveCleared(x, y)
  BY <1>5, ClearLiveWrites DEF Writes
<1> HIDE DEF y, out, d
<1>7. OutSet(y, d, out)
  BY <1>2, <1>6, SettingOutWrites DEF LiveCleared, Writes
<1>8. /\ IsCommand(d) /\ d.s.state = "PRECOMPOSITION" /\ d.s.composition = <<>>
      /\ d.s.cursor = 0 /\ d.s.converter = None /\ d.s.pending_zenz = None
      /\ d.call.op = "cancel" /\ d.s.feedback = None /\ d.recorded = None
  BY <1>1, <1>3, <1>5, <1>6, <1>7
     DEF PendingSet, StateSet, LiveCleared, OutSet, Writes, Names, SameReply
<1>9. Consistent(d.s) /\ Asks(d)
  BY <1>8, EmptyIsConsistent DEF IsCommand, Asks
<1> QED
  BY <1>8, <1>9 DEF Corrected, Sound, d

\* ConvertCancel goes back to the composition.
LEMMA ConvertCancelIsCorrected ==
    ASSUME NEW c, Begun(c), session.state = "CONVERSION", NEW answer
    PROVE  Corrected(ConvertCancel(c, answer))
<1> DEFINE a == DiscardPending(c)
           b == ClearLiveConversionState(a)
           x == SetSessionState(b, "COMPOSITION")
           y == [x EXCEPT !.s.converter = None]
           d == ConvertCancel(c, answer)
<1>1. PendingSet(c, a, None, FALSE, None)
  BY DiscardIsCorrected
<1>2. d = Suggest(y, answer.suggests)
  BY DEF ConvertCancel
<1> HIDE DEF a
<1>3. LiveCleared(a, b)
  BY <1>1, ClearLiveWrites DEF PendingSet, Writes
<1> HIDE DEF b
<1>4. StateSet(b, x, "COMPOSITION")
  BY <1>3, SetSessionStateWrites DEF LiveCleared, Writes
<1>5. y = [x EXCEPT !.s.converter = None]
  OBVIOUS
<1> HIDE DEF x, y
<1>6. Writes(x, y, {"converter"}) /\ SameReply(x, y) /\ y.call = x.call
  BY <1>4, <1>5 DEF StateSet, IsCommand, Members, Writes, Names, SameReply
<1>7. /\ Writes(y, d, {"converter"})
      /\ d.s.converter \in {Suggestion(y.s.composition), None}
      /\ d.call = y.call /\ d.recorded = y.recorded
  BY <1>2, <1>6, SuggestWrites DEF Writes
<1> HIDE DEF d
<1>8. /\ IsCommand(d) /\ d.s.state = "COMPOSITION"
      /\ d.s.composition = session.composition /\ d.s.cursor = session.cursor
      /\ d.s.pending_live = None /\ d.s.pending_zenz = None
      /\ d.s.feedback = None /\ ~d.s.learning
      /\ d.call.op = "cancel" /\ d.recorded = None
  BY <1>1, <1>3, <1>4, <1>6, <1>7
     DEF Begun, PendingSet, StateSet, LiveCleared, Writes, Names, SameReply
<1>9. ~Converting(d.s)
  BY <1>7 DEF Converting, Suggestion
<1>10. Consistent(d.s)
  BY <1>8, <1>9
     DEF Begun, Consistent, TextMatchesState, LiveMatchesText, PendingMatchesText,
         ZenzMatchesLive, Decided, FeedbackIsAlone, IsCommand
<1> QED
  BY <1>8, <1>10 DEF Corrected, Sound, Asks, d

\* Backspace edits the text and converts what is left of it.
LEMMA BackspaceIsCorrected ==
    ASSUME NEW c, Begun(c), session.state \in {"COMPOSITION", "CONVERSION"},
           session.state = "CONVERSION" => session.active,
           setting \in Settings, NEW answer \in Answer
    PROVE  Corrected(Backspace(c, answer))
<1> DEFINE a == DiscardPending(c)
           b == CancelLiveConversionForEditing(a)
           e == BackspaceComposer(b)
           d == Backspace(c, answer)
<1>1. PendingSet(c, a, None, FALSE, None)
  BY DiscardIsCorrected
<1>2. \/ e.s.composition = <<>> /\ d = Output(SetStateToPrecompositionAndCancel(e))
      \/ CanStart(e.s) /\ d = StartLiveConversion(e, answer)
      \/ e.s.composition # <<>> /\ d = Suggest(e, answer.suggests)
  BY DEF Backspace
<1> HIDE DEF a
<1>3. LiveLeft(a, b)
  BY <1>1, CancelForEditingLeaves DEF PendingSet, Writes
<1> HIDE DEF b
<1>4. /\ IsCommand(b) /\ b.s.composition = session.composition /\ b.s.cursor = session.cursor
      /\ b.s.state = "COMPOSITION" /\ b.s.pending_live = None /\ b.s.pending_zenz = None
      /\ b.s.zenz = None /\ ~b.s.active /\ b.s.feedback = None /\ ~b.s.learning
      /\ b.call.op = "cancel" /\ b.recorded = None
      /\ IF session.active THEN b.s.converter = None
                           ELSE b.s.converter = session.converter
  <2>1. a.s.active = session.active /\ a.s.converter = session.converter
        /\ a.s.state = session.state /\ a.s.composition = session.composition
        /\ a.s.cursor = session.cursor
    BY <1>1 DEF Begun, PendingSet, Writes, Names
  <2>2. session.state # "CONVERSION" => session.state = "COMPOSITION" /\ ~session.active
    BY DEF Begun, Settled
  <2> QED
    BY <1>1, <1>3, <2>1, <2>2 DEF PendingSet, LiveLeft, Writes, Names, SameReply
<1>5. b.s.cursor <= Len(b.s.composition)
  BY <1>4 DEF Begun, Consistent, TextMatchesState
<1>6. /\ Writes(b, e, {"composition", "cursor"}) /\ e.s.cursor <= Len(e.s.composition)
      /\ SameReply(b, e) /\ e.call = b.call
  BY <1>4, <1>5, BackspaceWrites
<1> HIDE DEF e, d
<1>7. /\ IsCommand(e) /\ e.s.state = "COMPOSITION" /\ e.s.pending_live = None
      /\ e.s.pending_zenz = None /\ e.s.feedback = None /\ ~e.s.learning
      /\ e.s.converter = b.s.converter /\ e.call.op = "cancel" /\ e.recorded = None
  BY <1>4, <1>6 DEF Writes, Names, SameReply
<1>8. ~Converting(e.s)
  BY <1>4, <1>7 DEF Begun, Consistent, TextMatchesState, Converting
<1>9. CASE e.s.composition = <<>> /\ d = Output(SetStateToPrecompositionAndCancel(e))
  <2> DEFINE x == SetSessionState(e, "PRECOMPOSITION")
             y == [x EXCEPT !.s.converter = None]
             out == PopOutput(y.s)
  <2>1. d = [y EXCEPT !.out = out]
    BY <1>9 DEF Output, SetStateToPrecompositionAndCancel
  <2>2. StateSet(e, x, "PRECOMPOSITION")
    BY <1>7, SetSessionStateWrites
  <2>3. y = [x EXCEPT !.s.converter = None]
    OBVIOUS
  <2> HIDE DEF x, y, out
  <2>4. /\ Writes(x, y, {"converter"}) /\ y.s.converter = None
        /\ SameReply(x, y) /\ y.call = x.call
    BY <2>2, <2>3 DEF StateSet, IsCommand, Members, Writes, Names, SameReply
  <2>5. OutSet(y, d, out)
    BY <2>1, <2>4, SettingOutWrites DEF Writes
  <2>6. /\ IsCommand(d) /\ d.s.state = "PRECOMPOSITION" /\ d.s.composition = <<>>
        /\ d.s.cursor = 0 /\ d.s.converter = None /\ d.s.pending_zenz = None
        /\ d.call.op = "cancel" /\ d.s.feedback = None /\ d.recorded = None
    BY <1>7, <2>2, <2>4, <2>5 DEF StateSet, OutSet, Writes, Names, SameReply
  <2>7. Consistent(d.s) /\ Asks(d)
    BY <2>6, EmptyIsConsistent DEF IsCommand, Asks
  <2> QED
    BY <2>6, <2>7 DEF Corrected, Sound, d
<1>10. CASE CanStart(e.s) /\ d = StartLiveConversion(e, answer)
  <2>1. e.s.composition # <<>>
    <3>1. MinKeyLength \in Nat \ {0} /\ Len(<<>>) = 0
      BY SettingsAssumption DEF MinKeyLength
    <3> QED
      BY <1>10, <3>1 DEF CanStart, ShouldSkip
  <2>2. Loose(e)
    BY <1>6, <1>7, <1>8, <2>1
       DEF Loose, TextMatchesState, Decided, FeedbackIsAlone, Asks, Converting
  <2>3. LiveStarted(e, d)
    BY <1>7, <1>10, <2>2, StartLiveIsSound
  <2> QED
    BY <1>7, <2>3 DEF LiveStarted, KeepsText, Corrected, d
<1>11. CASE e.s.composition # <<>> /\ d = Suggest(e, answer.suggests)
  <2>1. /\ Writes(e, d, {"converter"})
        /\ d.s.converter \in {Suggestion(e.s.composition), None}
        /\ d.call = e.call /\ d.recorded = e.recorded
    BY <1>7, <1>11, SuggestWrites
  <2>2. /\ IsCommand(d) /\ d.s.state = "COMPOSITION"
        /\ d.s.composition = e.s.composition /\ d.s.cursor = e.s.cursor
        /\ d.s.pending_live = None /\ d.s.pending_zenz = None
        /\ d.s.feedback = None /\ ~d.s.learning
        /\ d.call.op = "cancel" /\ d.recorded = None
    BY <1>7, <2>1 DEF Writes, Names
  <2>3. ~Converting(d.s)
    BY <2>1 DEF Converting, Suggestion
  <2>4. Consistent(d.s)
    BY <1>6, <1>11, <2>2, <2>3
       DEF Consistent, TextMatchesState, LiveMatchesText, PendingMatchesText,
           ZenzMatchesLive, Decided, FeedbackIsAlone, IsCommand
  <2> QED
    BY <2>2, <2>4 DEF Corrected, Sound, Asks, d
<1> QED
  BY <1>2, <1>9, <1>10, <1>11 DEF d

\* Enter: a correction that is visible is committed, otherwise live conversion is
\* over.
LEMMA EnterIsHandled ==
    ASSUME IInv, NEW answer \in Answer
    PROVE  Handled(Commit([Begin EXCEPT !.s.active = HasVisibleZenzLiveCorrection(session)],
                          answer))
<1> DEFINE visible == HasVisibleZenzLiveCorrection(session)
           a == [Begin EXCEPT !.s.active = visible]
           d == Commit(a, answer)
<1>1. Begun(Begin) /\ Loose(Begin)
  BY BeginIsBegun, BeginIsHandled
<1>2. visible \in BOOLEAN /\ (visible => session.active)
  BY DEF HasVisibleZenzLiveCorrection
<1>3. a = [Begin EXCEPT !.s.active = visible]
  OBVIOUS
<1> HIDE DEF visible, a
<1>4. /\ Writes(Begin, a, {"active"}) /\ a.s.active = visible
      /\ SameReply(Begin, a) /\ a.call = Begin.call
  BY <1>1, <1>2, <1>3 DEF Begun, IsCommand, Members, Writes, Names, SameReply
<1>5. /\ a.s.state = session.state /\ a.s.composition = session.composition
      /\ a.s.cursor = session.cursor /\ a.s.converter = session.converter
      /\ a.s.live_key = session.live_key /\ a.s.pending_live = session.pending_live
      /\ a.s.pending_zenz = session.pending_zenz
      /\ a.s.feedback = session.feedback /\ a.s.learning = session.learning
      /\ a.result = None /\ a.recorded = None /\ IsCommand(a)
  BY <1>1, <1>4 DEF Begun, Writes, Names, SameReply
<1>6. Loose(a) /\ LiveMatchesText(a.s) /\ FeedbackKept(a)
  BY <1>1, <1>2, <1>4, <1>5
     DEF Begun, Loose, Consistent, TextMatchesState, Converting, Decided, FeedbackIsAlone,
         Asks, LiveMatchesText, FeedbackKept
<1>7. ListIsCurrent(session) => ListIsCurrent(a.s)
  BY <1>5 DEF ListIsCurrent
<1>8. Committed(a, d)
  BY <1>6, CommitIsSound DEF IInv
<1> HIDE DEF d
<1>9. Handled(d)
  BY <1>5, <1>6, <1>7, <1>8 DEF Handled, Committed, ReadingKept
<1> QED
  BY <1>9 DEF d, a, visible

\* SUBMIT commits as it stands.
LEMMA SubmitIsHandled ==
    ASSUME IInv, NEW answer \in Answer
    PROVE  Handled(Commit(Begin, answer))
<1> DEFINE d == Commit(Begin, answer)
<1>1. Begun(Begin) /\ Loose(Begin) /\ FeedbackKept(Begin)
  BY BeginIsBegun, BeginIsHandled DEF Handled
<1>2. Committed(Begin, d)
  BY <1>1, CommitIsSound DEF IInv
<1> HIDE DEF d
<1>3. Handled(d)
  BY <1>1, <1>2 DEF Handled, Committed, ReadingKept, Begun, Consistent
<1> QED
  BY <1>3 DEF d

\* Turned off: what is pending is confirmed, the text committed, the session DIRECT.
LEMMA ImeOffIsHandled ==
    ASSUME NEW c, Sound(c), FeedbackKept(c),
           c.s.composition = session.composition, c.s.converter = session.converter,
           c.s.feedback # None => c.recorded = None /\ session.feedback \in {c.s.feedback, None},
           c.result = None, setting \in Settings, NEW answer \in Answer
    PROVE  Handled(IMEOff(c, answer)) /\ IMEOff(c, answer).s.state = "DIRECT"
<1> DEFINE a == ConfirmPending(c)
           b == Commit(a, answer)
           x == [b EXCEPT !.s.converter = None]
           y == SetSessionState(x, "DIRECT")
           out == Raw(<<>>)
           d == IMEOff(c, answer)
<1>1. d = [y EXCEPT !.out = out]
  BY DEF IMEOff
<1>2. PendingSet(c, a, None, FALSE, IF c.s.feedback = None THEN c.recorded ELSE c.s.feedback)
  BY ConfirmWrites DEF Sound
<1> HIDE DEF a
<1>3. /\ a.s.state = c.s.state /\ a.s.composition = session.composition
      /\ a.s.cursor = c.s.cursor /\ a.s.converter = session.converter
      /\ a.s.active = c.s.active
      /\ a.s.live_key = c.s.live_key /\ a.s.pending_live = c.s.pending_live
      /\ a.s.pending_zenz = c.s.pending_zenz /\ a.call = c.call
      /\ a.s.feedback = None /\ ~a.s.learning /\ a.result = None /\ IsCommand(a)
      /\ a.recorded = IF c.s.feedback = None THEN c.recorded ELSE c.s.feedback
      /\ c.s.converter = a.s.converter /\ c.s.composition = a.s.composition
  BY <1>2 DEF PendingSet, Writes, Names
<1>4. /\ TextMatchesState(c.s) /\ LiveMatchesText(c.s) /\ Asks(c)
  BY DEF Sound, Consistent
<1>5. Loose(a) /\ LiveMatchesText(a.s)
  BY <1>3, <1>4
     DEF Loose, TextMatchesState, Converting, Decided, FeedbackIsAlone, Asks, LiveMatchesText
<1>6. FeedbackKept(a)
  BY <1>3 DEF FeedbackKept
<1>7. Committed(a, b)
  BY <1>5, <1>6, CommitIsSound
<1> HIDE DEF b
<1>8. x = [b EXCEPT !.s.converter = None]
  OBVIOUS
<1> HIDE DEF x
<1>9. /\ Writes(b, x, {"converter"}) /\ x.s.converter = None
      /\ SameReply(b, x) /\ x.call = b.call
  BY <1>7, <1>8 DEF Committed, Sound, IsCommand, Members, Writes, Names, SameReply
<1>10. StateSet(x, y, "DIRECT")
  BY <1>9, SetSessionStateWrites DEF Writes
<1> HIDE DEF y, out, d
<1>11. OutSet(y, d, out)
  BY <1>1, <1>10, SettingOutWrites DEF StateSet, Writes
<1>12. /\ IsCommand(d) /\ d.s.state = "DIRECT" /\ d.s.composition = <<>>
       /\ d.s.cursor = 0 /\ d.s.converter = None
       /\ d.s.pending_zenz = b.s.pending_zenz /\ d.call = b.call
       /\ d.s.feedback = b.s.feedback /\ d.recorded = b.recorded /\ d.result = b.result
  BY <1>9, <1>10, <1>11 DEF StateSet, OutSet, Writes, Names, SameReply
<1>13. Sound(d)
  BY <1>7, <1>12, EmptyIsConsistent DEF IsCommand, Asks, Sound, Committed
<1>14. FeedbackKept(d)
  BY <1>7, <1>12 DEF FeedbackKept, Committed
<1>15. ReadingKept(d)
  <2>1. ListIsCurrent(session) => ListIsCurrent(a.s)
    BY <1>3 DEF ListIsCurrent
  <2> QED
    BY <1>3, <1>5, <1>7, <1>12, <2>1 DEF ReadingKept, Committed
<1> QED
  BY <1>12, <1>13, <1>14, <1>15 DEF Handled, d

\* A handler that has handled its command may go on with what keeps the text.
LEMMA KeepingTextIsHandled ==
    ASSUME NEW c, Handled(c), NEW d, Sound(d), KeepsText(c, d)
    PROVE  Handled(d)
  BY DEF Handled, FeedbackKept, ReadingKept, KeepsText

\* Any preedit may be replied to a sound command.
LEMMA OutputIsSound ==
    ASSUME NEW c, Sound(c), NEW out
    PROVE  Sound([c EXCEPT !.out = out]) /\ KeepsText(c, [c EXCEPT !.out = out])
<1> DEFINE d == [c EXCEPT !.out = out]
<1>1. OutSet(c, d, out)
  BY SettingOutWrites DEF Sound
<1> HIDE DEF d
<1>2. Sound(d) /\ KeepsText(c, d)
  BY <1>1 DEF Sound, Asks, KeepsText, OutSet
<1> QED
  BY <1>2 DEF d

\* The next value of a list.
LEMMA ConvertNextIsSound ==
    ASSUME NEW c, Sound(c), Converting(c.s)
    PROVE  Sound(ConvertNext(c)) /\ KeepsText(c, ConvertNext(c))
<1> DEFINE list == [c.s.converter EXCEPT !.value = "other"]
           e == [c EXCEPT !.s.converter = list]
           d == ConvertNext(c)
<1>1. d = [e EXCEPT !.out = PopOutput(e.s)]
  BY DEF ConvertNext, Output
<1>2. /\ list \in Converter /\ list.kind = "conversion" /\ list.key = c.s.converter.key
  BY DEF Converting, Sound, IsCommand, Members, Converter
<1>3. e = [c EXCEPT !.s.converter = list]
  OBVIOUS
<1> HIDE DEF list, e, d
<1>4. Writes(c, e, {"converter"}) /\ e.s.converter = list /\ SameReply(c, e) /\ e.call = c.call
  BY <1>2, <1>3 DEF Sound, IsCommand, Members, Writes, Names, SameReply
<1>5. /\ e.s.state = c.s.state /\ e.s.composition = c.s.composition
      /\ e.s.cursor = c.s.cursor
      /\ e.s.active = c.s.active /\ e.s.live_key = c.s.live_key
      /\ e.s.live_value = c.s.live_value /\ e.s.pending_live = c.s.pending_live
      /\ e.s.pending_zenz = c.s.pending_zenz /\ e.s.zenz = c.s.zenz
      /\ e.s.feedback = c.s.feedback /\ e.s.learning = c.s.learning
      /\ c.s.converter # None /\ e.s.converter # None /\ IsCommand(e)
  BY <1>2, <1>4, NoneAssumption DEF Writes, Names, Converting
<1>6. TextMatchesState(e.s) /\ LiveMatchesText(e.s) /\ PendingMatchesText(e.s)
  BY <1>2, <1>4, <1>5
     DEF Sound, Consistent, TextMatchesState, LiveMatchesText, PendingMatchesText,
         Converting, CanOutputPending, HasStableLiveConversion
<1>7. ZenzMatchesLive(e.s) /\ Decided(e.s) /\ FeedbackIsAlone(e.s) /\ Asks(e)
  BY <1>4, <1>5 DEF Sound, Consistent, ZenzMatchesLive, Decided, FeedbackIsAlone, Asks
<1>8. Sound(e) /\ KeepsText(c, e)
  BY <1>4, <1>5, <1>6, <1>7 DEF Sound, Consistent, IsCommand, KeepsText, SameReply
<1>9. Sound(d) /\ KeepsText(e, d)
  BY <1>1, <1>8, OutputIsSound
<1> QED
  BY <1>8, <1>9 DEF KeepsText, d

\* A composition without live conversion becomes a conversion.
Composing(c) ==
    /\ Sound(c) /\ c.s.state = "COMPOSITION" /\ ~c.s.active
    /\ c.s.pending_zenz = None /\ c.s.zenz = None

\* A composition that gets a list and becomes a conversion stays sound.
LEMMA ListIsSound ==
    ASSUME NEW c, Composing(c), NEW list \in Converter, list.kind = "conversion",
           NEW d, Writes(c, d, {"state", "converter"}),
           d.s.state = "CONVERSION", d.s.converter = list,
           SameReply(c, d), d.call = c.call
    PROVE  Sound(d) /\ KeepsText(c, d) /\ Converting(d.s)
<1>1. /\ d.s.composition = c.s.composition
      /\ d.s.cursor = c.s.cursor /\ d.s.converter # None /\ Converting(d.s)
      /\ ~d.s.active /\ d.s.live_key = c.s.live_key
      /\ d.s.pending_live = c.s.pending_live
      /\ d.s.pending_zenz = None /\ d.s.zenz = None
      /\ d.s.feedback = c.s.feedback /\ d.s.learning = c.s.learning
      /\ d.result = c.result /\ d.recorded = c.recorded /\ IsCommand(d)
  BY NoneAssumption DEF Composing, Writes, Names, SameReply, Converting
<1>2. TextMatchesState(d.s) /\ LiveMatchesText(d.s) /\ PendingMatchesText(d.s)
  BY <1>1 DEF Composing, Sound, Consistent, TextMatchesState, LiveMatchesText,
              PendingMatchesText, CanOutputPending, HasStableLiveConversion
<1>3. ZenzMatchesLive(d.s) /\ Decided(d.s) /\ FeedbackIsAlone(d.s) /\ Asks(d)
  BY <1>1 DEF Composing, Sound, Consistent, ZenzMatchesLive, Decided, FeedbackIsAlone, Asks
<1> QED
  BY <1>1, <1>2, <1>3 DEF Sound, Consistent, IsCommand, KeepsText

ShowList(c, list) == [SetSessionState(c, "CONVERSION") EXCEPT !.s.converter = list]

\* Showing a list is such a step.
LEMMA ShowListIsSound ==
    ASSUME NEW c, Composing(c), NEW list \in Converter, list.kind = "conversion"
    PROVE  Sound(ShowList(c, list)) /\ KeepsText(c, ShowList(c, list))
<1> DEFINE a == SetSessionState(c, "CONVERSION")
           d == ShowList(c, list)
<1>1. d = [a EXCEPT !.s.converter = list]
  BY DEF ShowList
<1>2. StateSet(c, a, "CONVERSION")
  BY SetSessionStateWrites DEF Composing, Sound
<1> HIDE DEF a, d
<1>3. Writes(a, d, {"converter"}) /\ d.s.converter = list /\ SameReply(a, d) /\ d.call = a.call
  BY <1>1, <1>2 DEF StateSet, IsCommand, Members, Writes, Names, SameReply
<1>4. /\ Writes(c, d, {"state", "converter"}) /\ d.s.state = "CONVERSION"
      /\ SameReply(c, d) /\ d.call = c.call
  BY <1>2, <1>3 DEF Composing, StateSet, Writes, Names, SameReply
<1>5. Sound(d) /\ KeepsText(c, d)
  BY <1>3, <1>4, ListIsSound
<1> QED
  BY <1>5 DEF d

\* What is pending is given up; the composition stays.
LEMMA CancellingIsSound ==
    ASSUME NEW c, Sound(c)
    PROVE  /\ Sound(CancelPendingLiveConversion(c))
           /\ KeepsText(c, CancelPendingLiveConversion(c))
           /\ LiveCancelled(c, CancelPendingLiveConversion(c))
<1> DEFINE d == CancelPendingLiveConversion(c)
<1>1. LiveCancelled(c, d)
  BY CancelPendingLiveWrites DEF Sound
<1> HIDE DEF d
<1>2. /\ d.s.state = c.s.state /\ d.s.composition = c.s.composition
      /\ d.s.cursor = c.s.cursor /\ d.s.converter = c.s.converter
      /\ d.s.active = c.s.active /\ d.s.live_key = c.s.live_key
      /\ d.s.live_value = c.s.live_value /\ d.s.pending_live = None
      /\ d.s.pending_zenz = None /\ d.s.zenz = c.s.zenz
      /\ d.s.feedback = c.s.feedback /\ d.s.learning = c.s.learning
      /\ d.call.op = "cancel" /\ d.result = c.result /\ d.recorded = c.recorded
      /\ IsCommand(d)
  BY <1>1 DEF LiveCancelled, Writes, Names, SameReply
<1>3. TextMatchesState(d.s) /\ LiveMatchesText(d.s) /\ PendingMatchesText(d.s)
  BY <1>2 DEF Sound, Consistent, TextMatchesState, LiveMatchesText, PendingMatchesText,
              Converting
<1>4. ZenzMatchesLive(d.s) /\ Decided(d.s) /\ FeedbackIsAlone(d.s) /\ Asks(d)
  BY <1>2 DEF Sound, Consistent, ZenzMatchesLive, Decided, FeedbackIsAlone, Asks
<1>5. Sound(d) /\ KeepsText(c, d)
  BY <1>2, <1>3, <1>4 DEF Sound, Consistent, IsCommand, KeepsText
<1> QED
  BY <1>1, <1>5 DEF d

\* Space: a composition is converted.
LEMMA ConvertIsSound ==
    ASSUME NEW c, Begun(c), session.state = "COMPOSITION",
           setting \in Settings, NEW answer \in Answer
    PROVE  Sound(Convert(c, answer)) /\ KeepsText(c, Convert(c, answer))
<1> DEFINE a == CancelPendingLiveConversion(c)
           list == Conversion(a.s.composition, answer.value)
           b == ShowList(a, list)
           d == Convert(c, answer)
<1>1. \/ d = [a EXCEPT !.out = Raw(a.s.composition)]
      \/ d = [b EXCEPT !.out = PopOutput(b.s)]
  BY DEF Convert, OutputComposition, Output, ShowList
<1>2. Sound(a) /\ KeepsText(c, a) /\ LiveCancelled(c, a)
  BY CancellingIsSound DEF Begun, Sound
<1> HIDE DEF a
<1>3. Composing(a)
  BY <1>2 DEF Composing, LiveCancelled, Writes, Names, Begun, Settled
<1>4. list \in Converter /\ list.kind = "conversion"
  <2>1. answer.value \in Best
    BY SettingsAssumption DEF Answer
  <2> QED
    BY <1>2, <2>1 DEF Conversion, Converter, Sound, IsCommand, Members
<1> HIDE DEF list
<1>5. Sound(b) /\ KeepsText(a, b)
  BY <1>3, <1>4, ShowListIsSound
<1> HIDE DEF b, d
<1>6. Sound(d) /\ (KeepsText(a, d) \/ KeepsText(b, d))
  BY <1>1, <1>2, <1>5, OutputIsSound
<1> QED
  BY <1>2, <1>5, <1>6 DEF KeepsText, d

\* Tab and the like: the suggestions become a list.
LEMMA PredictIsSound ==
    ASSUME NEW c, Composing(c), NEW answer
    PROVE  Sound(Predict(c, answer)) /\ KeepsText(c, Predict(c, answer))
<1> DEFINE list == Predicted(c.s)
           b == ShowList(c, list)
           d == Predict(c, answer)
<1>1. \/ d = [c EXCEPT !.out = Raw(c.s.composition)]
      \/ d = [b EXCEPT !.out = PopOutput(b.s)]
  BY DEF Predict, OutputComposition, Output, ShowList
<1>2. list \in Converter /\ list.kind = "conversion"
  BY DEF Predicted, Conversion, Converter, Composing, Sound, IsCommand, Members
<1> HIDE DEF list
<1>3. Sound(b) /\ KeepsText(c, b) /\ Sound(c)
  BY <1>2, ShowListIsSound DEF Composing
<1> HIDE DEF b, d
<1>4. Sound(d) /\ (KeepsText(c, d) \/ KeepsText(b, d))
  BY <1>1, <1>3, OutputIsSound
<1> QED
  BY <1>3, <1>4 DEF KeepsText, d

\* An explicit operation refuses the correction on display, if there is one, and
\* live conversion is over.  Feedback that was pending already is none of it.
Refused(c, d) ==
    /\ Handled(d) /\ d.recorded = None /\ d.result = None
    /\ d.s.state = c.s.state /\ d.s.composition = c.s.composition
    /\ d.s.converter = c.s.converter /\ ~d.s.active
    /\ session.feedback \in {d.s.feedback, None}

\* A live conversion that is left, with a refused correction or without one, is
\* refused in this sense, whatever becomes of its key and value.
LEMMA RefusalIsHandled ==
    ASSUME NEW c, Begun(c), session.active, NEW d, IsCommand(d),
           d.s.state = session.state, d.s.composition = session.composition,
           d.s.cursor = session.cursor, d.s.converter = session.converter,
           ~d.s.active, d.s.pending_zenz = None, d.s.zenz = None,
           d.s.learning = session.learning,
           \/ d.s.feedback = session.feedback
           \/ d.s.feedback # None /\ d.s.feedback.action = "rejected",
           d.s.pending_live = session.pending_live \/ d.s.pending_live = None,
           d.call.op = "cancel", d.result = None, d.recorded = None
    PROVE  Refused(c, d)
<1>1. /\ session.state = "CONVERSION" /\ session.composition # <<>>
      /\ session.pending_live = None /\ session.feedback = None
      /\ ~session.learning
      /\ Len(session.composition) \in Nat
  BY DEF Begun, Settled, Consistent, TextMatchesState, LiveMatchesText, FeedbackIsAlone,
         Decided, Members, Words
<1>2. TextMatchesState(d.s) /\ LiveMatchesText(d.s) /\ PendingMatchesText(d.s)
  BY <1>1 DEF Begun, Consistent, TextMatchesState, LiveMatchesText, PendingMatchesText,
              Converting
<1>3. ZenzMatchesLive(d.s) /\ Decided(d.s) /\ FeedbackIsAlone(d.s) /\ Asks(d)
  BY <1>1 DEF ZenzMatchesLive, Decided, FeedbackIsAlone, Asks
<1>4. FeedbackKept(d)
  BY <1>1 DEF FeedbackKept
<1>5. ReadingKept(d)
  BY <1>1 DEF ReadingKept, Reading
<1> QED
  BY <1>1, <1>2, <1>3, <1>4, <1>5 DEF Refused, Handled, Sound, Consistent, IsCommand, Begun

\* Promote refuses; without live conversion it does nothing.
LEMMA PromoteRefuses ==
    ASSUME IInv, NEW c, c = Begin
    PROVE  Refused(c, Promote(c))
<1> DEFINE a == SetPendingZenzFeedbackRejected(c)
           b == ClearZenzLiveCorrectionState(a)
           d == Promote(c)
<1>1. Begun(c) /\ Handled(c)
  BY BeginIsBegun, BeginIsHandled
<1>2. CASE ~session.active
  <2>1. d = c
    BY <1>1, <1>2 DEF Promote, Begun
  <2> QED
    BY <1>1, <1>2, <2>1 DEF Refused, Begun
<1>3. CASE session.active
  <2>1. d = [b EXCEPT !.s.active = FALSE]
    BY <1>1, <1>3 DEF Promote, Begun
  <2>2. MayBeRejected(c, a)
    BY <1>1, RejectedWrites DEF Begun
  <2> HIDE DEF a
  <2>3. ZenzCleared(a, b)
    BY <2>2, ClearZenzWrites DEF MayBeRejected, PendingSet, Writes
  <2> HIDE DEF b, d
  <2>4. /\ Writes(b, d, {"active"}) /\ ~d.s.active /\ SameReply(b, d) /\ d.call = b.call
    BY <2>1, <2>3 DEF ZenzCleared, IsCommand, Members, Writes, Names, SameReply
  <2>5. /\ IsCommand(d) /\ d.s.state = session.state
        /\ d.s.composition = session.composition
        /\ d.s.cursor = session.cursor /\ d.s.converter = session.converter
        /\ ~d.s.active /\ d.s.pending_zenz = None /\ d.s.zenz = None
        /\ d.s.learning = session.learning
        /\ d.s.feedback = a.s.feedback /\ d.s.pending_live = session.pending_live
        /\ d.call.op = "cancel" /\ d.result = None /\ d.recorded = None
        /\ c.s.feedback = session.feedback
    BY <1>1, <2>2, <2>3, <2>4 DEF Begun, MayBeRejected, PendingSet, ZenzCleared, Writes, Names,
                                    SameReply
  <2>6. \/ d.s.feedback = session.feedback
        \/ d.s.feedback # None /\ d.s.feedback.action = "rejected"
    BY <2>2, <2>5 DEF MayBeRejected
  <2>7. Refused(c, d)
    BY <1>1, <1>3, <2>5, <2>6, RefusalIsHandled
  <2> QED
    BY <2>7 DEF d
<1> QED
  BY <1>2, <1>3

\* Space on a visible correction goes back to the Mozc value.
LEMMA RevertZenzIsHandled ==
    ASSUME IInv, NEW c, c = Begin, session.active
    PROVE  Handled(RevertZenzLiveCorrectionToNormalConversion(c))
<1> DEFINE a == SetPendingZenzFeedbackRejected(c)
           b == ClearLiveConversionState(a)
           out == Text(c.s.live_value, c.s.live_key, <<>>)
           d == RevertZenzLiveCorrectionToNormalConversion(c)
<1>1. Begun(c)
  BY BeginIsBegun
<1>2. d = [b EXCEPT !.out = out]
  BY DEF RevertZenzLiveCorrectionToNormalConversion
<1>3. MayBeRejected(c, a)
  BY <1>1, RejectedWrites DEF Begun
<1> HIDE DEF a
<1>4. LiveCleared(a, b)
  BY <1>3, ClearLiveWrites DEF MayBeRejected, PendingSet, Writes
<1> HIDE DEF b, out, d
<1>5. OutSet(b, d, out)
  BY <1>2, <1>4, SettingOutWrites DEF LiveCleared, Writes
<1>6. /\ IsCommand(d) /\ d.s.state = session.state
      /\ d.s.composition = session.composition
      /\ d.s.cursor = session.cursor /\ d.s.converter = session.converter
      /\ ~d.s.active /\ d.s.pending_zenz = None /\ d.s.zenz = None
      /\ d.s.learning = session.learning
      /\ d.s.feedback = a.s.feedback /\ d.s.pending_live = None
      /\ d.call.op = "cancel" /\ d.result = None /\ d.recorded = None
      /\ c.s.feedback = session.feedback
  BY <1>1, <1>3, <1>4, <1>5
     DEF Begun, MayBeRejected, PendingSet, LiveCleared, OutSet, Writes, Names, SameReply
<1>7. \/ d.s.feedback = session.feedback
      \/ d.s.feedback # None /\ d.s.feedback.action = "rejected"
  BY <1>3, <1>6 DEF MayBeRejected
<1>8. Refused(c, d)
  BY <1>1, <1>6, <1>7, RefusalIsHandled
<1> QED
  BY <1>8 DEF Refused, d

\* Tab: from a live conversion it refuses the correction and starts over.
LEMMA PredictAndConvertIsHandled ==
    ASSUME IInv, NEW c, c = Begin, session.state \in {"COMPOSITION", "CONVERSION"}, NEW answer
    PROVE  Handled(PredictAndConvert(c, answer))
<1> DEFINE d == CancelPendingLiveConversion(c)
           h == PredictAndConvert(c, answer)
<1>1. Begun(c) /\ Handled(c)
  BY BeginIsBegun, BeginIsHandled
<1>2. Sound(d) /\ KeepsText(c, d) /\ LiveCancelled(c, d)
  BY <1>1, CancellingIsSound DEF Handled
<1>3. Handled(d)
  BY <1>1, <1>2, KeepingTextIsHandled
<1>4. /\ d.s.state = session.state /\ d.s.active = session.active
      /\ d.s.composition = session.composition /\ d.s.cursor = session.cursor
      /\ d.s.pending_zenz = None /\ d.s.zenz = session.zenz
      /\ d.s.feedback = session.feedback /\ d.s.learning = session.learning
      /\ d.result = None /\ d.recorded = None
  BY <1>1, <1>2 DEF Begun, LiveCancelled, Writes, Names, SameReply
<1>5. CASE session.state = "COMPOSITION"
  <2>1. h = Predict(d, answer)
    BY <1>1, <1>5 DEF PredictAndConvert, Begun
  <2> HIDE DEF d, h
  <2>2. Composing(d)
    BY <1>1, <1>2, <1>4, <1>5 DEF Composing, Begun, Settled
  <2>3. Handled(h)
    BY <1>3, <2>1, <2>2, PredictIsSound, KeepingTextIsHandled
  <2> QED
    BY <2>3 DEF h
<1>6. CASE session.state = "CONVERSION" /\ ~session.active
  <2>1. h = ConvertNext(d)
    BY <1>1, <1>6 DEF PredictAndConvert, Begun
  <2> HIDE DEF d, h
  <2>2. Converting(d.s)
    BY <1>2, <1>4, <1>6 DEF Sound, Consistent, TextMatchesState
  <2>3. Handled(h)
    BY <1>2, <1>3, <2>1, <2>2, ConvertNextIsSound, KeepingTextIsHandled
  <2> QED
    BY <2>3 DEF h
<1>7. CASE session.state = "CONVERSION" /\ session.active
  <2> DEFINE x == SetPendingZenzFeedbackRejected(d)
             y == ClearLiveConversionState(x)
             e == SetSessionState(y, "COMPOSITION")
             w == [e EXCEPT !.s.converter = None]
  <2>1. h = Predict(w, answer)
    BY <1>1, <1>7 DEF PredictAndConvert, Begun
  <2> HIDE DEF d
  <2>2. MayBeRejected(d, x)
    BY <1>2, RejectedWrites DEF Sound
  <2> HIDE DEF x
  <2>3. LiveCleared(x, y)
    BY <2>2, ClearLiveWrites DEF MayBeRejected, PendingSet, Writes
  <2> HIDE DEF y
  <2>4. StateSet(y, e, "COMPOSITION")
    BY <2>3, SetSessionStateWrites DEF LiveCleared, Writes
  <2>5. w = [e EXCEPT !.s.converter = None]
    OBVIOUS
  <2> HIDE DEF e, w, h
  <2>6. /\ Writes(e, w, {"converter"}) /\ w.s.converter = None
        /\ SameReply(e, w) /\ w.call = e.call
    BY <2>4, <2>5 DEF StateSet, IsCommand, Members, Writes, Names, SameReply
  <2>7. /\ IsCommand(w) /\ w.s.state = "COMPOSITION"
        /\ w.s.composition = session.composition /\ w.s.cursor = session.cursor
        /\ w.s.converter = None /\ ~w.s.active
        /\ w.s.pending_zenz = None /\ w.s.zenz = None /\ w.s.pending_live = None
        /\ w.s.learning = session.learning /\ w.s.feedback = x.s.feedback
        /\ w.call.op = "cancel" /\ w.result = None /\ w.recorded = None
    BY <1>4, <2>2, <2>3, <2>4, <2>6
       DEF MayBeRejected, PendingSet, LiveCleared, StateSet, Writes, Names, SameReply
  <2>8. \/ w.s.feedback = session.feedback
        \/ w.s.feedback # None /\ w.s.feedback.action = "rejected"
    BY <1>4, <2>2, <2>7 DEF MayBeRejected
  <2>9. /\ session.composition # <<>> /\ session.feedback = None /\ ~session.learning
        /\ session.cursor <= Len(session.composition)
        /\ Len(session.composition) \in Nat
    BY <1>1, <1>7 DEF Begun, Consistent, TextMatchesState, FeedbackIsAlone, Decided,
                      Members, Words
  <2>10. Composing(w)
    BY <2>7, <2>8, <2>9
       DEF Composing, Sound, Consistent, TextMatchesState, LiveMatchesText,
           PendingMatchesText, ZenzMatchesLive, Decided, FeedbackIsAlone, Asks, Converting,
           IsCommand
  <2>11. Handled(w)
    BY <2>7, <2>9, <2>10 DEF Handled, Composing, FeedbackKept, ReadingKept, Reading
  <2>12. Handled(h)
    BY <2>1, <2>10, <2>11, PredictIsSound, KeepingTextIsHandled
  <2> QED
    BY <2>12 DEF h
<1> QED
  BY <1>5, <1>6, <1>7

\* A click takes a value of the list, made of suggestions if need be.
LEMMA SelectIsHandled ==
    ASSUME IInv, session.converter # None,
           NEW c, c = IF Converting(session) THEN Begin
                      ELSE [Begin EXCEPT !.s.converter = Predicted(session)]
    PROVE  Handled(ConvertNext(SetSessionState(c, "CONVERSION")))
<1> DEFINE a == SetSessionState(c, "CONVERSION")
<1>1. Begun(Begin) /\ Handled(Begin)
  BY BeginIsBegun, BeginIsHandled
<1>2. CASE Converting(session)
  <2>1. c = Begin /\ session.state = "CONVERSION"
    BY <1>1, <1>2 DEF Begun, Consistent, TextMatchesState
  <2>2. a = Begin
    BY <1>1, <2>1 DEF SetSessionState, Begun, IsCommand, Members
  <2> HIDE DEF a
  <2>3. Handled(ConvertNext(a))
    BY <1>1, <1>2, <2>2, ConvertNextIsSound, KeepingTextIsHandled DEF Begun, Handled
  <2> QED
    BY <2>3 DEF a
<1>3. CASE ~Converting(session)
  <2> DEFINE list == Predicted(session)
  <2>1. /\ session.state = "COMPOSITION" /\ Composing(Begin)
    BY <1>1, <1>3 DEF Begun, Consistent, TextMatchesState, Composing, Settled, Handled
  <2>2. list \in Converter /\ list.kind = "conversion"
    BY <1>1 DEF Predicted, Conversion, Converter, Begun, Consistent, Members
  <2>3. c = [Begin EXCEPT !.s.converter = list]
    BY <1>3
  <2> HIDE DEF list
  <2>4. /\ Writes(Begin, c, {"converter"}) /\ c.s.converter = list
        /\ SameReply(Begin, c) /\ c.call = Begin.call
    BY <1>1, <2>2, <2>3 DEF Begun, IsCommand, Members, Writes, Names, SameReply
  <2>5. StateSet(c, a, "CONVERSION")
    BY <2>4, SetSessionStateWrites DEF Writes
  <2> HIDE DEF a
  <2>6. /\ Writes(Begin, a, {"state", "converter"}) /\ a.s.state = "CONVERSION"
        /\ a.s.converter = list /\ SameReply(Begin, a) /\ a.call = Begin.call
    BY ZenonT(60), <2>4, <2>5 DEF StateSet, Writes, Names, SameReply
  <2>7. Sound(a) /\ KeepsText(Begin, a) /\ Converting(a.s)
    BY <2>1, <2>2, <2>6, ListIsSound
  <2>8. Handled(ConvertNext(a))
    BY <1>1, <2>7, ConvertNextIsSound, KeepingTextIsHandled
  <2> QED
    BY <2>8 DEF a
<1> QED
  BY <1>2, <1>3

\* An arrow in a composition moves the cursor and drops the list.
LEMMA ArrowIsHandled ==
    ASSUME IInv, session.state = "COMPOSITION", NEW n \in 0 .. Len(session.composition),
           NEW found
    PROVE  Handled(Suggest([Begin EXCEPT !.s.cursor = n], found))
<1> DEFINE a == [Begin EXCEPT !.s.cursor = n]
           d == Suggest(a, found)
<1>1. Begun(Begin) /\ Handled(Begin)
  BY BeginIsBegun, BeginIsHandled
<1>2. a = [Begin EXCEPT !.s.cursor = n]
  OBVIOUS
<1> HIDE DEF a
<1>3. n \in Nat /\ n <= Len(session.composition)
  BY <1>1 DEF Begun, Consistent, Members, Words
<1>4. Writes(Begin, a, {"cursor"}) /\ a.s.cursor = n /\ SameReply(Begin, a) /\ a.call = Begin.call
  BY <1>1, <1>2, <1>3 DEF Begun, IsCommand, Members, Writes, Names, SameReply
<1>5. /\ Writes(a, d, {"converter"})
      /\ d.s.converter \in {Suggestion(a.s.composition), None}
      /\ d.call = a.call /\ d.result = a.result /\ d.recorded = a.recorded
  BY <1>4, SuggestWrites DEF Writes
<1> HIDE DEF d
<1>6. /\ IsCommand(d) /\ d.s.state = "COMPOSITION"
      /\ d.s.composition = session.composition /\ d.s.cursor = n
      /\ d.s.active = session.active /\ d.s.live_key = session.live_key
      /\ d.s.pending_live = session.pending_live /\ d.s.pending_zenz = session.pending_zenz
      /\ d.s.feedback = session.feedback /\ d.s.learning = session.learning
      /\ d.call = Begin.call /\ d.result = None /\ d.recorded = None
  BY <1>1, <1>4, <1>5 DEF Begun, Writes, Names, SameReply
<1>7. ~Converting(d.s)
  BY <1>5 DEF Converting, Suggestion
<1>8. Consistent(d.s) /\ Asks(d)
  BY <1>1, <1>3, <1>6, <1>7
     DEF Begun, Consistent, TextMatchesState, LiveMatchesText, PendingMatchesText,
         ZenzMatchesLive, Decided, FeedbackIsAlone, CanOutputPending,
         HasStableLiveConversion, Asks, IsCommand
<1>9. Handled(d)
  BY <1>1, <1>6, <1>8 DEF Begun, Handled, Sound, FeedbackKept, ReadingKept
<1> QED
  BY <1>9 DEF d, a

\* Shift-Enter commits the first suggestion.
LEMMA FirstSuggestionIsHandled ==
    ASSUME IInv, session.converter # None
    PROVE  Handled(CommitFirstSuggestion(Begin))
<1> DEFINE text == Text(Begin.s.converter.value, Begin.s.converter.key, <<>>)
           a == [Begin EXCEPT !.result = text, !.s.converter = None]
           b == SetSessionState(a, "PRECOMPOSITION")
           out == PopOutput(b.s)
           d == CommitFirstSuggestion(Begin)
<1>1. Begun(Begin) /\ Handled(Begin)
  BY BeginIsBegun, BeginIsHandled
<1>2. d = [b EXCEPT !.out = out]
  BY DEF CommitFirstSuggestion, Output
<1>3. a = [Begin EXCEPT !.result = text, !.s.converter = None]
  OBVIOUS
<1>4. ListIsCurrent(session) => Reading(text) = Len(session.composition)
  <2>1. /\ session.converter.value \in Speaker /\ session.converter.key \in Words
        /\ <<>> \in Words /\ Len(<<>>) = 0
    BY <1>1, EmptyTypes DEF Begun, Consistent, Members, Converter, Speaker, MozcValue
  <2>2. Reading(text) = Len(session.converter.key) + Len(<<>>)
    BY <1>1, <2>1, ReadingOfText DEF Begun
  <2>3. Len(session.composition) \in Nat
    BY <1>1 DEF Begun, Consistent, Members, Words
  <2> QED
    BY <2>1, <2>2, <2>3 DEF ListIsCurrent
<1> HIDE DEF text, a
<1>5. /\ Writes(Begin, a, {"converter"}) /\ a.s.converter = None
      /\ a.result = text /\ a.recorded = None /\ a.call = Begin.call
  BY <1>1, <1>3 DEF Begun, IsCommand, Members, Writes, Names
<1>6. StateSet(a, b, "PRECOMPOSITION")
  BY <1>5, SetSessionStateWrites DEF Writes
<1> HIDE DEF b, out, d
<1>7. OutSet(b, d, out)
  BY <1>2, <1>6, SettingOutWrites DEF StateSet, Writes
<1>8. /\ IsCommand(d) /\ d.s.state = "PRECOMPOSITION" /\ d.s.composition = <<>>
      /\ d.s.cursor = 0 /\ d.s.converter = None
      /\ d.s.pending_zenz = session.pending_zenz /\ d.s.feedback = session.feedback
      /\ d.call = Begin.call /\ d.result = text /\ d.recorded = None
  BY <1>1, <1>5, <1>6, <1>7 DEF Begun, StateSet, OutSet, Writes, Names, SameReply
<1>9. Consistent(d.s) /\ Asks(d)
  BY <1>1, <1>8, EmptyIsConsistent DEF Begun, Asks, IsCommand
<1>10. ReadingKept(d)
  <2>1. Len(<<>>) = 0 /\ Len(session.composition) \in Nat
    BY <1>1 DEF Begun, Consistent, Members, Words
  <2> QED
    BY <1>4, <1>8, <2>1 DEF ReadingKept
<1>11. Handled(d)
  BY <1>8, <1>9, <1>10 DEF Handled, Sound, FeedbackKept
<1> QED
  BY <1>11 DEF d

\* Turned on again, a session starts from nothing.
LEMMA ImeOnIsHandled ==
    ASSUME IInv, session.state = "DIRECT"
    PROVE  Handled(SetSessionState(Begin, "PRECOMPOSITION"))
<1> DEFINE d == SetSessionState(Begin, "PRECOMPOSITION")
<1>1. Begun(Begin) /\ Handled(Begin)
  BY BeginIsBegun, BeginIsHandled
<1>2. StateSet(Begin, d, "PRECOMPOSITION")
  BY <1>1, SetSessionStateWrites DEF Begun
<1>3. session.composition = <<>> /\ session.converter = None
  BY <1>1 DEF Begun, Consistent, TextMatchesState
<1> HIDE DEF d
<1>4. /\ IsCommand(d) /\ d.s.state = "PRECOMPOSITION" /\ d.s.composition = <<>>
      /\ d.s.cursor = 0 /\ d.s.converter = None
      /\ d.s.pending_zenz = session.pending_zenz /\ d.s.feedback = session.feedback
      /\ d.call = Begin.call /\ d.result = None /\ d.recorded = None
  BY <1>1, <1>2, <1>3 DEF Begun, StateSet, Writes, Names, SameReply
<1>5. Consistent(d.s) /\ Asks(d)
  BY <1>1, <1>4, EmptyIsConsistent DEF Begun, Asks, IsCommand
<1>6. Handled(d)
  BY <1>1, <1>3, <1>4, <1>5 DEF Begun, Handled, Sound, FeedbackKept, ReadingKept
<1> QED
  BY <1>6 DEF d

\* TURN_OFF_IME of a session that is off confirms what is pending.
LEMMA ConfirmingIsHandled ==
    ASSUME IInv, session.state = "DIRECT"
    PROVE  Handled(ConfirmPending(Begin)) /\ ConfirmPending(Begin).s.state = "DIRECT"
<1> DEFINE d == ConfirmPending(Begin)
<1>1. Begun(Begin) /\ Handled(Begin)
  BY BeginIsBegun, BeginIsHandled
<1>2. PendingSet(Begin, d, None, FALSE,
                 IF Begin.s.feedback = None THEN Begin.recorded ELSE Begin.s.feedback)
  BY <1>1, ConfirmWrites DEF Begun
<1>3. /\ session.composition = <<>> /\ session.converter = None /\ session.cursor = 0
      /\ Len(<<>>) = 0
  BY <1>1 DEF Begun, Consistent, TextMatchesState, Members
<1> HIDE DEF d
<1>4. /\ IsCommand(d) /\ d.s.state = "DIRECT" /\ d.s.composition = <<>>
      /\ d.s.cursor = 0 /\ d.s.converter = None
      /\ d.s.pending_zenz = session.pending_zenz /\ d.s.feedback = None
      /\ d.call = Begin.call /\ d.result = None
      /\ d.recorded = IF session.feedback = None THEN None ELSE session.feedback
  BY <1>1, <1>2, <1>3 DEF Begun, PendingSet, Writes, Names
<1>5. Consistent(d.s) /\ Asks(d)
  BY <1>1, <1>4, EmptyIsConsistent DEF Begun, Asks, IsCommand
<1>6. Handled(d)
  BY <1>1, <1>3, <1>4, <1>5 DEF Begun, Handled, Sound, FeedbackKept, ReadingKept, Reading
<1> QED
  BY <1>4, <1>6 DEF d
-----------------------------------------------------------------------------
\* The callbacks.  Begin is c there: only its members and its empty reply count.

\* A text that is composed shows: a composition, a conversion and what is pending.
LEMMA OutputShows ==
    ASSUME NEW s \in Members, s.composition # <<>>
    PROVE  PopOutput(s) # Raw(<<>>) /\ PendingText(s) # Raw(<<>>)
<1>1. PopOutput(s) # Raw(<<>>)
  <2>1. CASE Converting(s)
    <3>1. s.converter.value # "raw"
      BY <2>1, BestAssumption DEF Converting, Members, Converter
    <3>2. PopOutput(s) = Text(s.converter.value, s.converter.key, <<>>)
      BY <2>1 DEF PopOutput
    <3> QED
      BY <3>1, <3>2, ConvertedIsNotRaw
  <2>2. CASE ~Converting(s)
    BY <2>2, RawIsItsCharacters DEF PopOutput
  <2> QED
    BY <2>1, <2>2
<1>2. PendingText(s) # Raw(<<>>)
  <2>1. CASE s.live_key # <<>>
    BY <2>1 DEF PendingText, HasStableLiveConversion, Text, Raw
  <2>2. CASE s.live_key = <<>>
    BY <2>2, RawIsItsCharacters DEF PendingText, HasStableLiveConversion
  <2> QED
    BY <2>1, <2>2
<1> QED
  BY <1>1, <1>2

\* What a callback does: the preedit of a text that is composed is kept, and a
\* session that is off stays off.
CalledBack(d) ==
    /\ Handled(d)
    /\ d.s.composition # <<>> => d.out # Raw(<<>>)
    /\ session.state = "DIRECT" => d.s.state = "DIRECT"

\* The reply of a callback that has kept the text: the preedit of its members.
LEMMA OutputIsCalledBack ==
    ASSUME NEW c, Handled(c), session.state = "DIRECT" => c.s.state = "DIRECT"
    PROVE  CalledBack(Output(c))
<1> DEFINE out == PopOutput(c.s)
           d == [c EXCEPT !.out = out]
<1>1. OutSet(c, d, out)
  BY SettingOutWrites DEF Handled, Sound
<1>2. Sound(d) /\ KeepsText(c, d)
  BY OutputIsSound DEF Handled
<1>3. d.s.composition # <<>> => out # Raw(<<>>)
  BY <1>1, OutputShows DEF OutSet, Handled, Sound, IsCommand
<1> HIDE DEF out, d
<1>4. CalledBack(d)
  BY <1>1, <1>2, <1>3, KeepingTextIsHandled DEF OutSet, CalledBack
<1> QED
  BY <1>4 DEF Output, d, out

\* A stale callback is answered with what is on display.
LEMMA StaleIsCalledBack ==
    ASSUME IInv, NEW c, c = Begin
    PROVE  CalledBack(IgnoreStaleDelayedLiveConversion(c))
<1>1. Begun(c) /\ Handled(c) /\ session.composition = c.s.composition
  BY BeginIsBegun, BeginIsHandled DEF Begun
<1>2. CASE c.s.pending_live # None
  <2>1. c.s.composition # <<>> => CanOutputPending(c.s)
    BY <1>1, <1>2 DEF Begun, Consistent, PendingMatchesText
  <2>2. CASE CanOutputPending(c.s)
    <3> DEFINE out == PendingText(c.s)
               d == [c EXCEPT !.out = out]
    <3>1. OutSet(c, d, out)
      BY <1>1, SettingOutWrites DEF Begun
    <3>2. Sound(d) /\ KeepsText(c, d)
      BY <1>1, OutputIsSound DEF Handled
    <3>3. d.s.composition # <<>> => out # Raw(<<>>)
      BY <1>1, <3>1, OutputShows DEF OutSet, Begun, IsCommand
    <3> HIDE DEF out, d
    <3>4. CalledBack(d)
      BY <1>1, <3>1, <3>2, <3>3, KeepingTextIsHandled DEF OutSet, CalledBack, Begun
    <3> QED
      BY <1>2, <2>2, <3>4
         DEF IgnoreStaleDelayedLiveConversion, OutputPendingLiveConversion, d, out
  <2>3. CASE ~CanOutputPending(c.s)
    BY <1>1, <1>2, <2>1, <2>3
       DEF IgnoreStaleDelayedLiveConversion, OutputPendingLiveConversion, CalledBack, Begun
  <2> QED
    BY <2>2, <2>3
<1>3. CASE c.s.pending_live = None
  <2>1. CASE c.s.state = "DIRECT"
    <3>1. c.s.composition = <<>>
      BY <1>1, <2>1 DEF Begun, Consistent, TextMatchesState
    <3> QED
      BY <1>1, <1>3, <2>1, <3>1
         DEF IgnoreStaleDelayedLiveConversion, OutputFromState, CalledBack
  <2>2. CASE c.s.state # "DIRECT"
    <3>1. CalledBack(Output(c))
      BY <1>1, <2>2, OutputIsCalledBack DEF Begun
    <3> QED
      BY <1>3, <2>2, <3>1 DEF IgnoreStaleDelayedLiveConversion, OutputFromState
  <2> QED
    BY <2>1, <2>2
<1> QED
  BY <1>2, <1>3

\* APPLY_LIVE_CONVERSION: the pending conversion of the present text is started,
\* or given up when the cursor has moved away; another one is stale.
LEMMA LiveCallbackIsCalledBack ==
    ASSUME IInv, NEW c, c = Begin, NEW callback, NEW answer \in Answer
    PROVE  CalledBack(ApplyDelayedLiveConversion(c, callback, answer))
<1>1. Begun(c) /\ Handled(c) /\ Loose(c) /\ setting \in Settings
  BY BeginIsBegun, BeginIsHandled DEF IInv
<1>2. CASE \/ c.s.pending_live = None
           \/ callback.generation # c.s.pending_live.generation
           \/ callback.key # c.s.pending_live.key
           \/ c.s.state # "COMPOSITION"
           \/ c.s.composition # c.s.pending_live.key
  BY <1>2, StaleIsCalledBack DEF ApplyDelayedLiveConversion
<1>3. CASE /\ c.s.pending_live # None
           /\ callback.generation = c.s.pending_live.generation
           /\ callback.key = c.s.pending_live.key
           /\ c.s.state = "COMPOSITION"
           /\ c.s.composition = c.s.pending_live.key
  <2>1. session.state # "DIRECT" /\ c.s.composition # <<>> /\ c.s.feedback = None
    BY <1>1, <1>3 DEF Begun, Consistent, TextMatchesState, FeedbackIsAlone
  <2>2. CASE CanStart(c.s)
    <3> DEFINE d == StartLiveConversion(c, answer)
    <3>1. LiveStarted(c, d)
      BY <1>1, <2>1, <2>2, StartLiveIsSound
    <3> HIDE DEF d
    <3>2. CalledBack(d)
      BY <1>1, <2>1, <3>1, KeepingTextIsHandled DEF CalledBack, LiveStarted
    <3> QED
      BY <1>3, <2>2, <3>2 DEF ApplyDelayedLiveConversion, d
  <2>3. CASE ~CanStart(c.s)
    <3> DEFINE d == CancelPendingLiveConversion(c)
    <3>1. Sound(d) /\ KeepsText(c, d) /\ LiveCancelled(c, d)
      BY <1>1, CancellingIsSound DEF Handled
    <3> HIDE DEF d
    <3>2. Handled(d) /\ d.s.state # "DIRECT"
      BY <1>1, <1>3, <3>1, KeepingTextIsHandled DEF LiveCancelled, Writes, Names
    <3>3. CalledBack(Output(d))
      BY <2>1, <3>2, OutputIsCalledBack
    <3> QED
      BY <1>3, <2>3, <3>2, <3>3 DEF ApplyDelayedLiveConversion, OutputFromState, d
  <2> QED
    BY <2>2, <2>3
<1> QED
  BY <1>2, <1>3

\* A step that changes the pending correction alone keeps the session sound, if it
\* drops it, or leaves it about the same text.
LEMMA PendingZenzIsSound ==
    ASSUME NEW c, Sound(c), NEW d, Writes(c, d, {"pending_zenz"}), Asks(d),
           \/ d.s.pending_zenz = None
           \/ c.s.pending_zenz # None /\ SameRequest(d.s.pending_zenz, c.s.pending_zenz),
           d.result = c.result, d.recorded = c.recorded
    PROVE  Sound(d) /\ KeepsText(c, d) /\ d.s.state = c.s.state
<1>1. /\ d.s.state = c.s.state /\ d.s.composition = c.s.composition
      /\ d.s.cursor = c.s.cursor /\ d.s.converter = c.s.converter
      /\ d.s.active = c.s.active /\ d.s.live_key = c.s.live_key
      /\ d.s.live_value = c.s.live_value /\ d.s.pending_live = c.s.pending_live
      /\ d.s.zenz = c.s.zenz /\ d.s.feedback = c.s.feedback
      /\ d.s.learning = c.s.learning /\ IsCommand(d)
  BY DEF Writes, Names
<1>2. TextMatchesState(d.s) /\ LiveMatchesText(d.s) /\ PendingMatchesText(d.s)
  BY <1>1 DEF Sound, Consistent, TextMatchesState, LiveMatchesText, PendingMatchesText,
              Converting, CanOutputPending, HasStableLiveConversion
<1>3. ZenzMatchesLive(d.s)
  BY <1>1 DEF Sound, Consistent, ZenzMatchesLive, SameRequest
<1>4. Decided(d.s) /\ FeedbackIsAlone(d.s)
  BY <1>1 DEF Sound, Consistent, Decided, FeedbackIsAlone
<1> QED
  BY <1>1, <1>2, <1>3, <1>4 DEF Sound, Consistent, IsCommand, KeepsText

\* What an answer that is not shown leaves: the Mozc value, with nothing pending.
LEMMA GivenUpIsCalledBack ==
    ASSUME NEW c, Handled(c), session.state # "DIRECT"
    PROVE  CalledBack(Output(CancelPendingZenzLiveCorrection(c)))
<1> DEFINE d == CancelPendingZenzLiveCorrection(c)
<1>1. ZenzCancelled(c, d)
  BY CancelPendingZenzWrites DEF Handled, Sound
<1> HIDE DEF d
<1>2. Writes(c, d, {"pending_zenz"}) /\ Asks(d) /\ d.s.pending_zenz = None
      /\ d.result = c.result /\ d.recorded = c.recorded
  BY <1>1 DEF ZenzCancelled, SameReply, Asks
<1>3. Sound(d) /\ KeepsText(c, d)
  BY <1>2, PendingZenzIsSound DEF Handled
<1>4. CalledBack(Output(d))
  BY <1>3, KeepingTextIsHandled, OutputIsCalledBack
<1> QED
  BY <1>4 DEF d

\* The answer of the corrector is taken away; the session is as it was.
Taken(c) == [c EXCEPT !.call = [op |-> "take", generation |-> c.s.pending_zenz.generation]]

\* Taking the answer changes nothing but what is asked of the corrector.
LEMMA TakingIsHandled ==
    ASSUME NEW c, Handled(c)
    PROVE  Handled(Taken(c)) /\ Taken(c).s = c.s /\ Taken(c).call.op = "take"
<1> DEFINE call == [op |-> "take", generation |-> c.s.pending_zenz.generation]
           d == [c EXCEPT !.call = call]
<1>1. call.op = "take"
  OBVIOUS
<1>2. d = [c EXCEPT !.call = call]
  OBVIOUS
<1> HIDE DEF call, d
<1>3. /\ IsCommand(d) /\ d.s = c.s /\ d.call = call
      /\ d.result = c.result /\ d.recorded = c.recorded
  BY <1>2 DEF Handled, Sound, IsCommand
<1>4. Asks(d)
  BY <1>1, <1>3 DEF Handled, Sound, Asks
<1>5. Handled(d) /\ d.s = c.s /\ d.call.op = "take"
  BY <1>1, <1>3, <1>4 DEF Handled, Sound, FeedbackKept, ReadingKept
<1> QED
  BY <1>5 DEF Taken, d, call

\* An answer that is shown is the answer to the question about the live conversion
\* on display: whatever the mailbox holds under the pending number is.
LEMMA ShowingIsCalledBack ==
    ASSUME NEW c, Handled(c), c.s.state = "CONVERSION", c.s.active, session.state # "DIRECT",
           c.call.op = "take"
    PROVE  CalledBack(ShowZenz(c, [key |-> c.s.live_key, mozc |-> c.s.live_value]))
<1> DEFINE question == [key |-> c.s.live_key, mozc |-> c.s.live_value]
           d == ShowZenz(c, question)
<1>1. question \in Question
  BY DEF Question, Handled, Sound, IsCommand, Members
<1>2. question = [key |-> c.s.live_key, mozc |-> c.s.live_value]
  OBVIOUS
<1> HIDE DEF question
<1>3. ZenzShown(c, d, question)
  BY <1>1, ShowZenzWrites DEF Handled, Sound
<1> HIDE DEF d
<1>4. /\ d.s.state = c.s.state /\ d.s.composition = c.s.composition
      /\ d.s.cursor = c.s.cursor /\ d.s.converter = c.s.converter
      /\ d.s.active = c.s.active /\ d.s.live_key = c.s.live_key
      /\ d.s.live_value = c.s.live_value /\ d.s.pending_live = c.s.pending_live
      /\ d.s.pending_zenz = None /\ d.s.feedback = c.s.feedback
      /\ d.s.learning = c.s.learning /\ IsCommand(d)
      /\ d.s.zenz = [key |-> c.s.live_key, mozc |-> c.s.live_value, answers |-> question]
      /\ d.result = c.result /\ d.recorded = c.recorded /\ d.call = c.call
  BY <1>3 DEF ZenzShown, Writes, Names
<1>5. TextMatchesState(d.s) /\ LiveMatchesText(d.s) /\ PendingMatchesText(d.s)
  BY <1>4 DEF Handled, Sound, Consistent, TextMatchesState, LiveMatchesText,
              PendingMatchesText, Converting, CanOutputPending, HasStableLiveConversion
<1>6. ZenzMatchesLive(d.s)
  BY <1>2, <1>4 DEF ZenzMatchesLive
<1>7. Decided(d.s) /\ FeedbackIsAlone(d.s)
  BY <1>4 DEF Handled, Sound, Consistent, Decided, FeedbackIsAlone
<1>8. Asks(d)
  BY <1>4 DEF Asks
<1>9. Handled(d)
  BY <1>4, <1>5, <1>6, <1>7, <1>8
     DEF Handled, Sound, Consistent, IsCommand, FeedbackKept, ReadingKept
<1>10. d.out # Raw(<<>>)
  BY <1>3, ConvertedIsNotRaw DEF ZenzShown
<1>11. CalledBack(d)
  BY <1>9, <1>10 DEF CalledBack
<1> QED
  BY <1>11 DEF d, question

\* A correction is submitted, at its first callback.
LEMMA SubmittingIsCalledBack ==
    ASSUME NEW c, Handled(c), c.s.pending_zenz # None, session.state # "DIRECT"
    PROVE  CalledBack(Output(SubmitZenz(c)))
<1> DEFINE d == SubmitZenz(c)
<1>1. IsCommand(c)
  BY DEF Handled, Sound
<1>2. /\ Writes(c, d, {"pending_zenz"})
      /\ d.s.pending_zenz # None
      /\ SameRequest(d.s.pending_zenz, c.s.pending_zenz)
      /\ d.call = [op |-> "submit",
                   request |-> [generation |-> d.s.pending_zenz.generation,
                                key |-> [key |-> d.s.pending_zenz.key,
                                         mozc |-> d.s.pending_zenz.mozc]]]
      /\ d.out = c.out /\ d.result = c.result /\ d.recorded = c.recorded
  BY <1>1, SubmitZenzAsks
<1> HIDE DEF d
<1>3. Asks(d)
  BY <1>2 DEF Handled, Sound, Asks, SameRequest
<1>4. Sound(d) /\ KeepsText(c, d)
  BY <1>2, <1>3, PendingZenzIsSound DEF Handled
<1>5. CalledBack(Output(d))
  BY <1>4, KeepingTextIsHandled, OutputIsCalledBack
<1> QED
  BY <1>5 DEF d

\* A correction is waited for, one poll more.
LEMMA PollingIsCalledBack ==
    ASSUME NEW c, Handled(c), c.s.pending_zenz # None, session.state # "DIRECT",
           c.call.op = "take", NEW callback,
           NEW p, p = [c.s.pending_zenz EXCEPT !.polls = @ + 1]
    PROVE  CalledBack(Output([c EXCEPT !.s.pending_zenz = p, !.callback = callback]))
<1> DEFINE d == [c EXCEPT !.s.pending_zenz = p, !.callback = callback]
<1>1. p \in PendingZenz /\ SameRequest(p, c.s.pending_zenz)
  BY DEF Handled, Sound, IsCommand, Members, PendingZenz, SameRequest
<1>2. d = [c EXCEPT !.s.pending_zenz = p, !.callback = callback]
  OBVIOUS
<1> HIDE DEF d
<1>3. /\ Writes(c, d, {"pending_zenz"}) /\ d.s.pending_zenz = p
      /\ d.call = c.call /\ d.result = c.result /\ d.recorded = c.recorded
  BY <1>1, <1>2 DEF Handled, Sound, IsCommand, Members, Writes, Names
<1>4. Asks(d)
  BY <1>1, <1>3 DEF Handled, Sound, Asks, SameRequest
<1>5. Sound(d) /\ KeepsText(c, d)
  BY <1>1, <1>3, <1>4, PendingZenzIsSound DEF Handled
<1>6. CalledBack(Output(d))
  BY <1>5, KeepingTextIsHandled, OutputIsCalledBack
<1> QED
  BY <1>6 DEF d

\* APPLY_ZENZ_LIVE_CORRECTION: submit, show, give up or poll; or stale.
LEMMA ZenzCallbackIsCalledBack ==
    ASSUME IInv, NEW c, c = Begin, NEW callback, NEW judged \in BOOLEAN
    PROVE  CalledBack(ApplyZenzLiveCorrection(c, callback, judged))
<1>1. Begun(c) /\ Handled(c)
  BY BeginIsBegun, BeginIsHandled
<1>2. CASE ~IsCurrentZenzLiveCorrectionCallback(c.s, callback)
  BY <1>2, StaleIsCalledBack DEF ApplyZenzLiveCorrection
<1>3. CASE IsCurrentZenzLiveCorrectionCallback(c.s, callback)
  <2> DEFINE p == c.s.pending_zenz
             response == Mail!Taken(p.generation)
             e == Taken(c)
             polled == [p EXCEPT !.polls = @ + 1]
  <2>1. /\ p # None /\ c.s.state = "CONVERSION" /\ c.s.active
        /\ c.s.live_key = p.key /\ c.s.live_value = p.mozc
        /\ c.s = session /\ session.state # "DIRECT"
    BY <1>1, <1>3 DEF IsCurrentZenzLiveCorrectionCallback, Begun
  <2>2. Handled(e) /\ e.s = c.s /\ e.call.op = "take"
    BY <1>1, TakingIsHandled
  <2>3. response # None => response.key = [key |-> c.s.live_key, mozc |-> c.s.live_value]
    BY <2>1 DEF IInv, MailMatches, IsAbout, Mail!Taken
  <2>4. ApplyZenzLiveCorrection(c, callback, judged) =
            IF ~p.submitted THEN Output(SubmitZenz(c))
            ELSE IF response # None THEN ApplyZenzLiveCorrectionResult(e, response, judged)
            ELSE IF ZenzAsyncPollExhausted(polled.polls) \/ ~judged
            THEN Output(CancelPendingZenzLiveCorrection(e))
            ELSE Output([e EXCEPT !.s.pending_zenz = polled, !.callback = CallbackFor(p)])
    BY <1>3 DEF ApplyZenzLiveCorrection, AdvancePendingZenzLiveCorrection, Taken
  <2> HIDE DEF response, e
  <2>5. CalledBack(Output(SubmitZenz(c)))
    BY <1>1, <2>1, SubmittingIsCalledBack
  <2>6. response # None => CalledBack(ApplyZenzLiveCorrectionResult(e, response, judged))
    <3>1. CalledBack(ShowZenz(e, [key |-> e.s.live_key, mozc |-> e.s.live_value]))
      BY <2>1, <2>2, ShowingIsCalledBack
    <3>2. CalledBack(Output(CancelPendingZenzLiveCorrection(e)))
      BY <2>1, <2>2, GivenUpIsCalledBack
    <3> QED
      BY <2>2, <2>3, <3>1, <3>2 DEF ApplyZenzLiveCorrectionResult
  <2>7. CalledBack(Output(CancelPendingZenzLiveCorrection(e)))
    BY <2>1, <2>2, GivenUpIsCalledBack
  <2>8. CalledBack(Output([e EXCEPT !.s.pending_zenz = polled, !.callback = CallbackFor(p)]))
    BY ZenonT(60), <2>1, <2>2, PollingIsCalledBack
  <2> QED
    BY <2>4, <2>5, <2>6, <2>7, <2>8
<1> QED
  BY <1>2, <1>3

-----------------------------------------------------------------------------
\* The steps.

\* A command that is sound at its end keeps the invariant; what is pending, the
\* text and the state are what the handler left.
Ended(c) ==
    /\ session'.feedback = c.s.feedback /\ session'.composition = c.s.composition
    /\ session'.state = c.s.state /\ screen' = c.out
    /\ result' = c.result /\ recorded' = c.recorded

\* The end of SendKey and SendCommand keeps the invariant.
LEMMA CommandKeepsIInv ==
    ASSUME IInv, NEW c, Sound(c), Finish(LeaveConversion(c))
    PROVE  IInv' /\ Ended(c)
<1> DEFINE d == LeaveConversion(c)
<1>1. Left(c, d)
  BY LeaveConversionSettles
<1> HIDE DEF d
<1>2. Finish(d)
  BY DEF d
<1>3. MailMatches'
  BY <1>1, <1>2, FinishKeepsMailMatches DEF IInv, Left
<1>4. session' = d.s /\ setting' = setting /\ Ended(c)
  BY <1>1, <1>2 DEF Finish, Left, SameReply, Ended
<1>5. Settled(session)'
  BY <1>1, <1>4 DEF Left, Settled, Consistent, TextMatchesState, LiveMatchesText,
     PendingMatchesText, ZenzMatchesLive, Decided, FeedbackIsAlone, Converting,
     CanOutputPending, HasStableLiveConversion
<1> QED
  BY <1>3, <1>4, <1>5 DEF IInv

\* What a step does that is no correction: it keeps or records the pending feedback
\* and loses no text, ...
FeedbackGoesOn ==
    \/ session.feedback = None
    \/ session'.feedback = session.feedback /\ recorded' = None
    \/ recorded' = session.feedback
Proceeds ==
    /\ IInv' /\ FeedbackGoesOn
    /\ ListIsCurrent(session) => TextIsKept

\* ... and what a correcting one does: it discards and records nothing.
Corrects == IInv' /\ session'.feedback = None /\ recorded' = None

\* A step whose handler has handled the command proceeds.
LEMMA HandledProceeds ==
    ASSUME IInv, NEW c, Handled(c), Finish(LeaveConversion(c))
    PROVE  Proceeds /\ Ended(c)
<1>1. IInv' /\ Ended(c)
  BY CommandKeepsIInv DEF Handled
<1> QED
  BY <1>1 DEF Handled, FeedbackKept, ReadingKept, Ended, Proceeds, FeedbackGoesOn, TextIsKept

\* A step whose handler has corrected the text corrects.
LEMMA CorrectedCorrects ==
    ASSUME IInv, NEW c, Corrected(c), Finish(LeaveConversion(c))
    PROVE  Corrects /\ Ended(c)
<1>1. IInv' /\ Ended(c)
  BY CommandKeepsIInv DEF Corrected
<1> QED
  BY <1>1 DEF Corrected, Ended, Corrects

\* The three ways a command reaches the session end alike.
LEMMA SendingFinishes ==
    ASSUME NEW c
    PROVE  /\ SendKey(c) => Finish(LeaveConversion(c))
           /\ SendCommand(c) => Finish(LeaveConversion(c))
           /\ SendCallback(c) => Finish(LeaveConversion(c))
  BY DEF SendKey, SendCommand, SendCallback

\* A character key proceeds: what it commits and what it leaves hold the whole text.
LEMMA CharacterStep ==
    ASSUME IInv, NEW ch \in Char \cup {Punctuation}, CharacterKey(ch)
    PROVE  Proceeds
<1>1. PICK answer \in Answer : SendKey(InsertCharacter(Begin, ch, answer))
  BY DEF CharacterKey
<1> QED
  BY <1>1, CharacterIsHandled, SendingFinishes, HandledProceeds

\* Backspace corrects, and leaves a session off that is off.
LEMMA BackspaceStep ==
    ASSUME IInv, BackspaceKey
    PROVE  Corrects /\ (session.state = "DIRECT" => session'.state = "DIRECT")
<1>1. Begun(Begin) /\ setting \in Settings
  BY BeginIsBegun DEF IInv
<1>2. PICK answer \in Answer :
         SendKey(IF InState({"DIRECT", "PRECOMPOSITION"}) THEN DiscardPending(Begin)
                 ELSE IF InState({"CONVERSION"}) /\ ~session.active
                 THEN ConvertCancel(Begin, answer)
                 ELSE Backspace(Begin, answer))
  BY DEF BackspaceKey
<1>3. CASE session.state \in {"DIRECT", "PRECOMPOSITION"}
  <2>1. Finish(LeaveConversion(DiscardPending(Begin)))
    BY <1>2, <1>3, SendingFinishes DEF InState
  <2>2. Corrects /\ Ended(DiscardPending(Begin))
    BY <1>1, <2>1, DiscardIsCorrected, CorrectedCorrects
  <2>3. DiscardPending(Begin).s.state = session.state
    BY <1>1, DiscardIsCorrected DEF PendingSet, Writes, Names, Begun
  <2> QED
    BY <2>2, <2>3 DEF Ended
<1>4. CASE session.state = "CONVERSION" /\ ~session.active
  <2>1. Finish(LeaveConversion(ConvertCancel(Begin, answer)))
    BY <1>2, <1>4, SendingFinishes DEF InState
  <2> QED
    BY <1>1, <1>4, <2>1, ConvertCancelIsCorrected, CorrectedCorrects
<1>5. CASE /\ session.state \in {"COMPOSITION", "CONVERSION"}
           /\ session.state = "CONVERSION" => session.active
  <2>1. Finish(LeaveConversion(Backspace(Begin, answer)))
    BY <1>2, <1>5, SendingFinishes DEF InState
  <2> QED
    BY <1>1, <1>5, <2>1, BackspaceIsCorrected, CorrectedCorrects
<1> QED
  BY <1>1, <1>3, <1>4, <1>5 DEF Begun, IsCommand, Members

\* Escape corrects, and leaves a session off that is off.
LEMMA EscapeStep ==
    ASSUME IInv, EscapeKey
    PROVE  Corrects /\ (session.state = "DIRECT" => session'.state = "DIRECT")
<1>1. Begun(Begin)
  BY BeginIsBegun
<1>2. PICK answer \in Answer :
         SendKey(IF InState({"DIRECT", "PRECOMPOSITION"}) THEN DiscardPending(Begin)
                 ELSE IF InState({"CONVERSION"}) THEN ConvertCancel(Begin, answer)
                 ELSE EditCancel(Begin))
  BY DEF EscapeKey
<1>3. CASE session.state \in {"DIRECT", "PRECOMPOSITION"}
  <2>1. Finish(LeaveConversion(DiscardPending(Begin)))
    BY <1>2, <1>3, SendingFinishes DEF InState
  <2>2. Corrects /\ Ended(DiscardPending(Begin))
    BY <1>1, <2>1, DiscardIsCorrected, CorrectedCorrects
  <2>3. DiscardPending(Begin).s.state = session.state
    BY <1>1, DiscardIsCorrected DEF PendingSet, Writes, Names, Begun
  <2> QED
    BY <2>2, <2>3 DEF Ended
<1>4. CASE session.state = "CONVERSION"
  <2>1. Finish(LeaveConversion(ConvertCancel(Begin, answer)))
    BY <1>2, <1>4, SendingFinishes DEF InState
  <2> QED
    BY <1>1, <1>4, <2>1, ConvertCancelIsCorrected, CorrectedCorrects
<1>5. CASE session.state = "COMPOSITION"
  <2>1. Finish(LeaveConversion(EditCancel(Begin)))
    BY <1>2, <1>5, SendingFinishes DEF InState
  <2> QED
    BY <1>1, <1>5, <2>1, EditCancelIsCorrected, CorrectedCorrects
<1> QED
  BY <1>1, <1>3, <1>4, <1>5 DEF Begun, IsCommand, Members

\* REVERT corrects, and leaves a session off that is off.
LEMMA RevertStep ==
    ASSUME IInv, Revert
    PROVE  Corrects /\ (session.state = "DIRECT" => session'.state = "DIRECT")
<1>1. Begun(Begin)
  BY BeginIsBegun
<1>2. CASE session.state \in {"COMPOSITION", "CONVERSION"}
  <2>1. Finish(LeaveConversion(EditCancel(Begin)))
    BY <1>2 DEF Revert, InState
  <2> QED
    BY <1>1, <1>2, <2>1, EditCancelIsCorrected, CorrectedCorrects
<1>3. CASE session.state \notin {"COMPOSITION", "CONVERSION"}
  <2>1. Finish(LeaveConversion(DiscardPending(Begin)))
    BY <1>3 DEF Revert, InState
  <2>2. Corrects /\ Ended(DiscardPending(Begin))
    BY <1>1, <2>1, DiscardIsCorrected, CorrectedCorrects
  <2>3. DiscardPending(Begin).s.state = session.state
    BY <1>1, DiscardIsCorrected DEF PendingSet, Writes, Names, Begun
  <2> QED
    BY <2>2, <2>3 DEF Ended
<1> QED
  BY <1>2, <1>3

\* RESET_CONTEXT corrects.
LEMMA ResetStep ==
    ASSUME IInv, ResetContext
    PROVE  Corrects
<1>1. CASE session.state = "PRECOMPOSITION"
  <2>1. Finish(LeaveConversion(DiscardPending(Begin)))
    BY <1>1, SendingFinishes DEF ResetContext, InState
  <2> QED
    BY <2>1, BeginIsBegun, DiscardIsCorrected, CorrectedCorrects
<1>2. CASE session.state # "PRECOMPOSITION"
  <2>1. Finish(LeaveConversion(EditCancel(Begin)))
    BY <1>2, SendingFinishes DEF ResetContext, InState
  <2> QED
    BY <2>1, BeginIsBegun, EditCancelIsCorrected, CorrectedCorrects
<1> QED
  BY <1>1, <1>2

\* Enter proceeds: the text that was on display is committed.
LEMMA EnterStep ==
    ASSUME IInv, EnterKey
    PROVE  Proceeds
<1>1. PICK answer \in Answer :
         SendKey(Commit([Begin EXCEPT !.s.active = HasVisibleZenzLiveCorrection(session)],
                        answer))
  BY DEF EnterKey
<1> QED
  BY <1>1, EnterIsHandled, SendingFinishes, HandledProceeds

\* Shift-Enter proceeds: the first suggestion stands for the whole text.
LEMMA ShiftEnterStep ==
    ASSUME IInv, ShiftEnterKey
    PROVE  Proceeds
  BY FirstSuggestionIsHandled, SendingFinishes, HandledProceeds DEF ShiftEnterKey

\* SUBMIT of a session that is off does nothing.
LEMMA SubmitStep ==
    ASSUME IInv, Submit
    PROVE  Proceeds /\ (session.state = "DIRECT" => session'.state = "DIRECT")
<1>1. PICK answer \in Answer : SendKey(Commit(Begin, answer))
  BY DEF Submit
<1>2. Proceeds /\ Ended(Commit(Begin, answer))
  BY <1>1, SubmitIsHandled, SendingFinishes, HandledProceeds
<1>3. session.state = "DIRECT" => Commit(Begin, answer).s.state = "DIRECT"
  <2> SUFFICES ASSUME session.state = "DIRECT"
               PROVE  Commit(Begin, answer).s.state = "DIRECT"
    OBVIOUS
  <2> DEFINE d == FlushPendingLiveConversion(Begin, answer)
  <2>1. Loose(Begin) /\ Begin.s = session /\ setting \in Settings
    BY BeginIsHandled DEF IInv
  <2>2. Flushed(Begin, d)
    BY <2>1, FlushKeepsText
  <2>3. ~HasVisibleZenzLiveCorrection(Begin.s)
    BY <2>1 DEF HasVisibleZenzLiveCorrection
  <2> HIDE DEF d
  <2>4. IsCommand(d) /\ d.s.state = "DIRECT"
    BY <2>1, <2>2 DEF Flushed, Loose
  <2>5. CommitInternal(d) = d
    BY <2>4, CommitInternalWrites
  <2> QED
    BY <2>3, <2>4, <2>5 DEF Commit, d
<1> QED
  BY <1>2, <1>3 DEF Ended

\* Space proceeds, from a composition, a visible correction or a list.
LEMMA SpaceStep ==
    ASSUME IInv, SpaceKey
    PROVE  Proceeds
<1>1. /\ Begun(Begin) /\ Handled(Begin) /\ setting \in Settings
      /\ session.state \in {"COMPOSITION", "CONVERSION"}
  BY BeginIsBegun, BeginIsHandled DEF IInv, SpaceKey, InState
<1>2. PICK answer \in Answer :
         SendKey(IF InState({"COMPOSITION"}) THEN Convert(Begin, answer)
                 ELSE IF HasVisibleZenzLiveCorrection(session)
                 THEN RevertZenzLiveCorrectionToNormalConversion(Begin)
                 ELSE ConvertNext(Promote(Begin)))
  BY DEF SpaceKey
<1>3. CASE session.state = "COMPOSITION"
  <2>1. Handled(Convert(Begin, answer))
    BY <1>1, <1>3, ConvertIsSound, KeepingTextIsHandled
  <2> QED
    BY <1>2, <1>3, <2>1, SendingFinishes, HandledProceeds DEF InState
<1>4. CASE session.state = "CONVERSION" /\ HasVisibleZenzLiveCorrection(session)
  <2>1. Handled(RevertZenzLiveCorrectionToNormalConversion(Begin))
    BY <1>4, RevertZenzIsHandled DEF HasVisibleZenzLiveCorrection
  <2> QED
    BY <1>2, <1>4, <2>1, SendingFinishes, HandledProceeds DEF InState
<1>5. CASE session.state = "CONVERSION" /\ ~HasVisibleZenzLiveCorrection(session)
  <2> DEFINE d == Promote(Begin)
  <2>1. Refused(Begin, d)
    BY PromoteRefuses
  <2> HIDE DEF d
  <2>2. Handled(d) /\ Sound(d) /\ Converting(d.s)
    BY <1>1, <1>5, <2>1 DEF Refused, Handled, Begun, Consistent, TextMatchesState, Converting
  <2>3. Handled(ConvertNext(d))
    BY <2>2, ConvertNextIsSound, KeepingTextIsHandled
  <2> QED
    BY <1>2, <1>5, <2>3, SendingFinishes, HandledProceeds DEF InState, d
<1> QED
  BY <1>1, <1>3, <1>4, <1>5

\* Tab proceeds, from a composition, a live conversion or a list.
LEMMA TabStep ==
    ASSUME IInv, TabKey
    PROVE  Proceeds
<1>1. PICK answer \in Answer : SendKey(PredictAndConvert(Begin, answer))
  BY DEF TabKey
<1> QED
  BY <1>1, PredictAndConvertIsHandled, SendingFinishes, HandledProceeds DEF TabKey, InState

\* A click on a candidate proceeds.
LEMMA SelectStep ==
    ASSUME IInv, SelectCandidate
    PROVE  Proceeds
<1> DEFINE c == IF Converting(session) THEN Begin
                ELSE [Begin EXCEPT !.s.converter = Predicted(session)]
<1>1. Handled(ConvertNext(SetSessionState(c, "CONVERSION")))
  BY SelectIsHandled DEF SelectCandidate
<1>2. SendKey(ConvertNext(SetSessionState(c, "CONVERSION")))
  BY DEF SelectCandidate
<1> HIDE DEF c
<1> QED
  BY <1>1, <1>2, SendingFinishes, HandledProceeds

\* Left and right proceed: they move in the text or leave live conversion.
LEMMA ArrowStep ==
    ASSUME IInv, ArrowKey
    PROVE  Proceeds
<1>1. CASE session.state = "COMPOSITION"
  <2>1. PICK n \in 0 .. Len(session.composition), found \in BOOLEAN :
             SendKey(Suggest([Begin EXCEPT !.s.cursor = n], found))
    BY <1>1 DEF ArrowKey, InState
  <2> QED
    BY <1>1, <2>1, ArrowIsHandled, SendingFinishes, HandledProceeds
<1>2. CASE session.state = "CONVERSION"
  <2> DEFINE d == Promote(Begin)
  <2>1. Handled(d)
    BY PromoteRefuses DEF Refused
  <2>2. SendKey(Output(d))
    BY <1>2 DEF ArrowKey, InState
  <2> HIDE DEF d
  <2>3. Handled(Output(d))
    <3>1. Sound([d EXCEPT !.out = PopOutput(d.s)])
          /\ KeepsText(d, [d EXCEPT !.out = PopOutput(d.s)])
      BY <2>1, OutputIsSound DEF Handled
    <3> QED
      BY <2>1, <3>1, KeepingTextIsHandled DEF Output
  <2> QED
    BY <2>2, <2>3, SendingFinishes, HandledProceeds
<1> QED
  BY <1>1, <1>2 DEF ArrowKey, InState

\* A key without a binding shows what there is.
LEMMA UnboundStep ==
    ASSUME IInv, UnboundKey
    PROVE  Proceeds
<1> DEFINE c == Begin
<1>1. Handled(c) /\ SendKey(DoNothing(c))
  BY BeginIsHandled DEF UnboundKey
<1> HIDE DEF c
<1>2. Handled(DoNothing(c))
  <2>1. Sound([c EXCEPT !.out = PopOutput(c.s)])
        /\ KeepsText(c, [c EXCEPT !.out = PopOutput(c.s)])
    BY <1>1, OutputIsSound DEF Handled
  <2> QED
    BY <1>1, <2>1, KeepingTextIsHandled DEF DoNothing, Output
<1> QED
  BY <1>1, <1>2, SendingFinishes, HandledProceeds

\* The key that turns the session on proceeds.
LEMMA ImeOnStep ==
    ASSUME IInv, ImeOnKey
    PROVE  Proceeds
  BY ImeOnIsHandled, SendingFinishes, HandledProceeds DEF ImeOnKey, InState

\* The key that turns the session off refuses the correction, commits and proceeds.
LEMMA ImeOffStep ==
    ASSUME IInv, ImeOffKey
    PROVE  Proceeds
<1> DEFINE d == Promote(Begin)
<1>1. PICK answer \in Answer : SendKey(IMEOff(d, answer))
  BY DEF ImeOffKey
<1>2. Refused(Begin, d) /\ Begun(Begin) /\ setting \in Settings
  BY PromoteRefuses, BeginIsBegun DEF IInv
<1> HIDE DEF d
<1>3. Handled(IMEOff(d, answer))
  BY <1>2, ImeOffIsHandled DEF Refused, Handled, Begun
<1> QED
  BY <1>1, <1>3, SendingFinishes, HandledProceeds

\* TURN_OFF_IME proceeds, and leaves a session off that is off.
LEMMA TurnOffStep ==
    ASSUME IInv, TurnOffIme
    PROVE  Proceeds /\ (session.state = "DIRECT" => session'.state = "DIRECT")
<1>1. PICK answer \in Answer :
         SendCommand(IF InState({"DIRECT"}) THEN ConfirmPending(Begin)
                     ELSE IMEOff(Begin, answer))
  BY DEF TurnOffIme
<1>2. CASE session.state = "DIRECT"
  <2>1. Proceeds /\ Ended(ConfirmPending(Begin))
    BY <1>1, <1>2, ConfirmingIsHandled, SendingFinishes, HandledProceeds DEF InState
  <2> QED
    BY <1>2, <2>1, ConfirmingIsHandled DEF Ended
<1>3. CASE session.state # "DIRECT"
  <2> DEFINE c == Begin
  <2>1. Handled(c) /\ Begun(c) /\ setting \in Settings /\ SendCommand(IMEOff(c, answer))
    BY <1>1, <1>3, BeginIsHandled, BeginIsBegun DEF IInv, InState
  <2> HIDE DEF c
  <2>2. Handled(IMEOff(c, answer))
    BY <2>1, ImeOffIsHandled DEF Handled, Begun
  <2> QED
    BY <1>3, <2>1, <2>2, SendingFinishes, HandledProceeds
<1> QED
  BY <1>2, <1>3

\* What a callback may never do is wipe the preedit of a text.
PreeditIsKept == session'.composition # <<>> => screen' # Raw(<<>>)

\* APPLY_LIVE_CONVERSION proceeds, keeps the preedit and turns nothing on.
LEMMA LiveCallbackStep ==
    ASSUME IInv, LiveCallback
    PROVE  /\ Proceeds /\ PreeditIsKept
           /\ session.state = "DIRECT" => session'.state = "DIRECT"
<1>1. PICK answer \in Answer : SendCallback(ApplyDelayedLiveConversion(Begin, timer, answer))
  BY DEF LiveCallback
<1> DEFINE d == ApplyDelayedLiveConversion(Begin, timer, answer)
<1>2. CalledBack(d) /\ SendCallback(d)
  BY <1>1, LiveCallbackIsCalledBack
<1> HIDE DEF d
<1>3. Proceeds /\ Ended(d)
  BY <1>2, SendingFinishes, HandledProceeds DEF CalledBack
<1> QED
  BY <1>2, <1>3 DEF CalledBack, Ended, PreeditIsKept

\* APPLY_ZENZ_LIVE_CORRECTION proceeds, keeps the preedit and turns nothing on.
LEMMA ZenzCallbackStep ==
    ASSUME IInv, ZenzCallback
    PROVE  /\ Proceeds /\ PreeditIsKept
           /\ session.state = "DIRECT" => session'.state = "DIRECT"
<1>1. PICK judged \in BOOLEAN : SendCallback(ApplyZenzLiveCorrection(Begin, timer, judged))
  BY DEF ZenzCallback
<1> DEFINE d == ApplyZenzLiveCorrection(Begin, timer, judged)
<1>2. CalledBack(d) /\ SendCallback(d)
  BY <1>1, ZenzCallbackIsCalledBack
<1> HIDE DEF d
<1>3. Proceeds /\ Ended(d)
  BY <1>2, SendingFinishes, HandledProceeds DEF CalledBack
<1> QED
  BY <1>2, <1>3 DEF CalledBack, Ended, PreeditIsKept

\* The corrector's thread takes a request or stores its answer; the session does not
\* notice.
LEMMA CorrectorStep ==
    ASSUME IInv, Corrector
    PROVE  Proceeds
<1>1. session' = session /\ setting' = setting /\ result' = None /\ recorded' = None
  BY DEF Corrector
<1>2. /\ running' \in {running, latest_request, None}
      /\ latest_request' \in {latest_request, None}
      /\ \/ latest_result' = latest_result
         \/ /\ running # None /\ latest_result'.generation = running.generation
            /\ latest_result'.key = running.key
  BY DEF Corrector, Mail!Convert, Mail!Begin, Mail!Finish, Mail!Answer
<1>3. MailMatches'
  BY <1>1, <1>2 DEF IInv, MailMatches, IsAbout
<1>4. IInv'
  BY <1>1, <1>3 DEF IInv, Settled, Consistent, TextMatchesState, LiveMatchesText,
     PendingMatchesText, ZenzMatchesLive, Decided, FeedbackIsAlone, Converting,
     CanOutputPending, HasStableLiveConversion
<1>5. TextIsKept
  <2>1. Len(session.composition) \in Nat
    BY DEF IInv, Settled, Consistent, Members, Words
  <2> QED
    BY <1>1, <2>1 DEF TextIsKept, Reading
<1> QED
  BY <1>1, <1>4, <1>5 DEF Proceeds, FeedbackGoesOn

-----------------------------------------------------------------------------
\* The theorems.

\* A session starts with nothing typed, converted, asked for or pending.
LEMMA InitIsInvariant == Init => IInv
<1> SUFFICES ASSUME Init
             PROVE  IInv
  OBVIOUS
<1>1. Len(<<>>) = 0
  BY DEF Words
<1>2. session \in Members
  BY EmptyTypes, <1>1 DEF Init, Members
<1>3. Settled(session)
  BY <1>1, <1>2
     DEF Init, Settled, Consistent, TextMatchesState, LiveMatchesText, PendingMatchesText,
         ZenzMatchesLive, Decided, FeedbackIsAlone, Converting
<1>4. MailMatches
  BY DEF Init, MailMatches, IsAbout
<1> QED
  BY <1>3, <1>4 DEF Init, IInv

\* Every step keeps the invariant, and it either proceeds or corrects: what a step
\* does to the pending feedback and to the text depends on nothing else.
LEMMA StepProceedsOrCorrects ==
    ASSUME IInv, Next
    PROVE  /\ IInv'
           /\ Proceeds \/ Correcting
           /\ Correcting => Corrects
<1>1. Correcting => Corrects
  BY BackspaceStep, EscapeStep, RevertStep, ResetStep DEF Correcting
<1>2. Correcting \/ Proceeds
  BY CharacterStep, EnterStep, SpaceStep, TabStep, ArrowStep, ShiftEnterStep, ImeOffStep,
     ImeOnStep, UnboundStep, SelectStep, SubmitStep, TurnOffStep, LiveCallbackStep,
     ZenzCallbackStep, CorrectorStep
     DEF Next, Correcting
<1> QED
  BY <1>1, <1>2 DEF Proceeds, Corrects

\* The invariant is inductive.
LEMMA StepKeepsInvariant == IInv /\ [Next]_vars => IInv'
<1>1. CASE UNCHANGED vars
  BY <1>1 DEF vars, IInv, Settled, Consistent, TextMatchesState, LiveMatchesText,
     PendingMatchesText, ZenzMatchesLive, Decided, FeedbackIsAlone, Converting,
     CanOutputPending, HasStableLiveConversion, MailMatches, IsAbout
<1> QED
  BY <1>1, StepProceedsOrCorrects

\* Whatever keys, clicks, callbacks and answers come in which order, the session
\* is in line with its text and the mailbox with what the session waits for.
THEOREM LiveSessionInvariant == Spec => []IInv
<1>1. Init => IInv
  BY InitIsInvariant
<1>2. IInv /\ [Next]_vars => IInv'
  BY StepKeepsInvariant
<1> QED
  BY <1>1, <1>2, PTL DEF Spec

\* The members of a session keep their types, the cursor stays in the text.
THEOREM LiveSessionTypeOK == Spec => []TypeOK
<1>1. IInv => TypeOK
  BY DEF IInv, Settled, Consistent, TextMatchesState, TypeOK
<1> QED
  BY <1>1, LiveSessionInvariant, PTL

\* A live conversion that is active is of the text that is being composed, with
\* nothing pending, for every converter and every configuration.
THEOREM LiveConversionStaysCurrent == Spec => []LiveConversionIsCurrent
<1>1. IInv => LiveConversionIsCurrent
  BY DEF IInv, Settled, Consistent, LiveMatchesText, LiveConversionIsCurrent
<1> QED
  BY <1>1, LiveSessionInvariant, PTL

\* A pending conversion of a composition is of its present text.
THEOREM PendingConversionStaysCurrent == Spec => []PendingConversionIsCurrent
<1>1. IInv => PendingConversionIsCurrent
  BY DEF IInv, Settled, Consistent, PendingMatchesText, TextMatchesState,
         PendingConversionIsCurrent
<1> QED
  BY <1>1, LiveSessionInvariant, PTL

\* A correction that is pending or visible is about the live conversion, and the
\* visible one answers the question about exactly this text and value.
THEOREM CorrectionStaysCurrent == Spec => []CorrectionIsCurrent
<1>1. IInv => CorrectionIsCurrent
  BY DEF IInv, Settled, Consistent, LiveMatchesText, ZenzMatchesLive, CorrectionIsCurrent,
         HasVisibleZenzLiveCorrection
<1> QED
  BY <1>1, LiveSessionInvariant, PTL

\* Neither an accepted correction nor a direct commit is still pending while the
\* user composes the next text.
THEOREM LearningStaysDecided == Spec => []LearningIsDecided
<1>1. IInv => LearningIsDecided
  BY DEF IInv, Settled, Consistent, Decided, LearningIsDecided
<1> QED
  BY <1>1, LiveSessionInvariant, PTL

\* Pending feedback stays, is written to the store, or is discarded by a correcting
\* operation, which writes nothing.
THEOREM FeedbackIsNeverDropped == Spec => FeedbackIsRecordedOrDiscarded
<1>1. IInv /\ [Next]_vars =>
          [LET f == session.feedback IN
           /\ \/ f = None
              \/ session'.feedback = f /\ recorded' = None
              \/ recorded' = f
              \/ Correcting
           /\ \/ session'.feedback = None /\ recorded' = None
              \/ ~Correcting]_vars
  BY StepProceedsOrCorrects DEF Proceeds, FeedbackGoesOn, Corrects
<1> QED
  BY <1>1, LiveSessionInvariant, PTL DEF Spec, FeedbackIsRecordedOrDiscarded

\* A callback, stale or not, never wipes the preedit of a text that is composed.
THEOREM CallbacksKeepThePreedit == Spec => CallbackKeepsPreedit
<1>1. IInv /\ [Next]_vars =>
          [session'.composition # <<>> /\ screen' = Raw(<<>>) =>
              ~(LiveCallback \/ ZenzCallback)]_vars
  BY LiveCallbackStep, ZenzCallbackStep DEF PreeditIsKept
<1> QED
  BY <1>1, LiveSessionInvariant, PTL DEF Spec, CallbackKeepsPreedit

\* As long as the converter's list was made for the present text, what the user
\* typed is committed or still there, unless the step takes it back.
THEOREM TextIsNeverLostWhenCurrent == Spec => NoTextLostWhenCurrent
<1>1. IInv /\ [Next]_vars =>
          [\/ TextIsKept
           \/ session.converter # None /\ session.converter.key # session.composition
           \/ Correcting]_vars
  BY StepProceedsOrCorrects DEF Proceeds, ListIsCurrent
<1> QED
  BY <1>1, LiveSessionInvariant, PTL DEF Spec, NoTextLostWhenCurrent

\* Neither a callback of a text that is gone nor a command that ends a composition
\* turns a session on that is off.
THEOREM OffSessionStaysOff == Spec => OffStaysOff
<1>1. IInv /\ [Next]_vars =>
          [session.state = "DIRECT"
           /\ (LiveCallback \/ ZenzCallback \/ Submit \/ Revert \/ TurnOffIme \/ BackspaceKey
               \/ EscapeKey)
              => session'.state = "DIRECT"]_vars
  BY LiveCallbackStep, ZenzCallbackStep, SubmitStep, RevertStep, TurnOffStep, BackspaceStep,
     EscapeStep
<1> QED
  BY <1>1, LiveSessionInvariant, PTL DEF Spec, OffStaysOff
=============================================================================
