---------------------------- MODULE ZenzMailbox ----------------------------
(***************************************************************************)
(* What session/zenz_live_corrector.h promises the session that owns it:   *)
(* a one-place mailbox in front of one slow converter.  A queued request   *)
(* is overwritten by a newer one, CancelPending empties both places but    *)
(* does not stop a conversion that is running, and TakeResult hands out    *)
(* the stored answer only to the generation that asked for it.             *)
(*                                                                         *)
(* Threads, the mutex, the condition variable and shutdown belong to       *)
(* ZenzLiveCorrector, which is shown to implement this module.  The module *)
(* LiveSession is built on these operators.                                *)
(***************************************************************************)
CONSTANTS
    Generation,   \* numbers a session gives to its correction requests
    Key,          \* what is to be converted: reading and Mozc value
    Outcome,      \* what a conversion can end in ("ok", "timeout", ...)
    None          \* the empty std::optional

VARIABLES
    latest_request,   \* the queued request
    running,          \* the request the converter works on
    latest_result     \* the stored answer

mailbox == <<latest_request, running, latest_result>>

Request  == [generation : Generation, key : Key]
Response == [generation : Generation, key : Key, outcome : Outcome]

\* Nothing queued, nothing running, nothing stored.
Init ==
    /\ latest_request = None
    /\ running = None
    /\ latest_result = None

\* Latest-only submission: a queued older request is overwritten.
Submit(request) ==
    /\ latest_request' = request
    /\ latest_result' = None
    /\ UNCHANGED running

CancelPending ==
    /\ latest_request' = None
    /\ latest_result' = None
    /\ UNCHANGED running

\* What TakeResult(generation) returns ...
Taken(generation) ==
    IF latest_result # None /\ latest_result.generation = generation
    THEN latest_result
    ELSE None

\* ... and what it does: a stored answer leaves in either case.
TakeResult(generation) ==
    /\ latest_result' = None
    /\ UNCHANGED <<latest_request, running>>

\* The converter takes the queued request.
Begin ==
    /\ running = None
    /\ latest_request # None
    /\ running' = latest_request
    /\ latest_request' = None
    /\ UNCHANGED latest_result

\* Every response carries generation and key of its request.
Answer(request, outcome) ==
    [generation |-> request.generation, key |-> request.key, outcome |-> outcome]

\* The answer is stored even if a newer request is queued by now.
Finish(outcome) ==
    /\ running # None
    /\ latest_result' = Answer(running, outcome)
    /\ running' = None
    /\ UNCHANGED latest_request

Convert == Begin \/ \E o \in Outcome : Finish(o)

Next ==
    \/ \E r \in Request : Submit(r)
    \/ CancelPending
    \/ \E g \in Generation : TakeResult(g)
    \/ Convert

\* The converter always comes back and always looks for the next request.
Spec == Init /\ [][Next]_mailbox /\ WF_mailbox(Convert)

TypeOK ==
    /\ latest_request \in Request \cup {None}
    /\ running \in Request \cup {None}
    /\ latest_result \in Response \cup {None}
=============================================================================
