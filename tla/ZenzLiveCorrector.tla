-------------------------- MODULE ZenzLiveCorrector --------------------------
(***************************************************************************)
(* session/zenz_live_corrector.{h,cc}: one worker thread and one owner     *)
(* (the session's thread) sharing latest_request_ and latest_result_ under *)
(* mu_ and cv_.  Every block under mu_ is one step; what a thread does     *)
(* between two blocks (notify, join, the conversion itself) is a step of   *)
(* its own, so every interleaving of the two threads is explored.          *)
(*                                                                         *)
(* The owner numbers its requests as session.cc does: every submission and *)
(* every cancellation takes a new generation, and only the generation of   *)
(* the last submission is ever asked for.                                  *)
(***************************************************************************)
EXTENDS Naturals

CONSTANTS
    Key,             \* what a request asks to convert
    Outcome,         \* what a conversion can end in
    MaxGeneration,   \* bound: generations the owner hands out
    None             \* the empty std::optional

Generation == 1 .. MaxGeneration
Request  == [generation : Generation, key : Key]
Response == [generation : Generation, key : Key, outcome : Outcome]

ASSUME BoundAssumption == MaxGeneration \in Nat \ {0}
ASSUME NoneAssumption == None \notin Request \cup Response

VARIABLES
    started,          \* started_
    stop,             \* stop_
    latest_request,   \* latest_request_
    latest_result,    \* latest_result_
    worker,           \* where the worker thread is
    job,              \* the request local to WorkerLoop
    owner,            \* where the owner is inside Submit or Stop
    argument,         \* the argument of the Submit under way
    generation,       \* the session's generation counter
    asked,            \* the submission the owner waits for, None if cancelled
    delivered         \* the last response TakeResult returned

worker_vars == <<worker, job>>
owner_vars  == <<owner, argument, generation, asked, delivered>>
vars == <<started, stop, latest_request, latest_result, worker_vars, owner_vars>>

-----------------------------------------------------------------------------
\* worker: "none" before std::thread and after join, "loop" about to lock mu_
\* in WorkerLoop, "blocked" inside cv_.wait, "convert" outside the lock with
\* a request, "exited" after the return.

Init ==
    /\ started = FALSE /\ stop = FALSE
    /\ latest_request = None /\ latest_result = None
    /\ worker = "none" /\ job = None
    /\ owner = "idle" /\ argument = None
    /\ generation = 0 /\ asked = None /\ delivered = None

\* Fault: cv_.notify_one() is forgotten.
NotifyNobody(w) == w

Notify(w) == IF w = "blocked" THEN "loop" ELSE w

\* Fault: Start does not lower stop_ again.
SubmitStartStopped(key) ==
    /\ owner = "idle"
    /\ generation < MaxGeneration
    /\ generation' = generation + 1
    /\ argument' = [generation |-> generation + 1, key |-> key]
    /\ owner' = "store"
    /\ started' = TRUE
    /\ worker' = IF started THEN worker ELSE "loop"
    /\ UNCHANGED <<stop, latest_request, latest_result, job, asked, delivered>>

\* Submit calls Start first: a stopped corrector gets a new thread.
SubmitStart(key) ==
    /\ owner = "idle"
    /\ generation < MaxGeneration
    /\ generation' = generation + 1
    /\ argument' = [generation |-> generation + 1, key |-> key]
    /\ owner' = "store"
    /\ started' = TRUE
    /\ stop' = IF started THEN stop ELSE FALSE
    /\ worker' = IF started THEN worker ELSE "loop"
    /\ UNCHANGED <<latest_request, latest_result, job, asked, delivered>>

SubmitStore ==
    /\ owner = "store"
    /\ latest_request' = argument
    /\ latest_result' = None
    /\ asked' = argument
    /\ argument' = None
    /\ owner' = "notify"
    /\ UNCHANGED <<started, stop, worker_vars, generation, delivered>>

SubmitNotify ==
    /\ owner = "notify"
    /\ worker' = Notify(worker)
    /\ owner' = "idle"
    /\ UNCHANGED <<started, stop, latest_request, latest_result, job,
                   argument, generation, asked, delivered>>

\* Fault: only the answer is dropped, the queued request survives.
CancelPendingResult ==
    /\ owner = "idle"
    /\ generation < MaxGeneration
    /\ generation' = generation + 1
    /\ asked' = None
    /\ latest_result' = None
    /\ UNCHANGED <<started, stop, latest_request, worker_vars, owner, argument, delivered>>

\* CancelPendingZenzLiveCorrection: a new generation, then CancelPending.
CancelPending ==
    /\ owner = "idle"
    /\ generation < MaxGeneration
    /\ generation' = generation + 1
    /\ asked' = None
    /\ latest_request' = None
    /\ latest_result' = None
    /\ UNCHANGED <<started, stop, worker_vars, owner, argument, delivered>>

\* Fault: the generation is not compared.
TakenUnchecked(g) == latest_result

\* The value TakeResult returns.
Taken(g) ==
    IF latest_result # None /\ latest_result.generation = g
    THEN latest_result
    ELSE None

\* A poll of the owner; a result of another generation is dropped.
TakeResult ==
    /\ owner = "idle"
    /\ asked # None
    /\ delivered' = IF Taken(asked.generation) = None
                    THEN delivered ELSE Taken(asked.generation)
    /\ asked' = IF Taken(asked.generation) = None THEN asked ELSE None
    /\ latest_result' = None
    /\ UNCHANGED <<started, stop, latest_request, worker_vars,
                   owner, argument, generation>>

\* Stop (and the destructor): raise stop_ and empty both places under mu_,
\* notify, join, clear started_.
StopRequest ==
    /\ owner = "idle"
    /\ started
    /\ stop' = TRUE
    /\ latest_request' = None
    /\ latest_result' = None
    /\ asked' = None
    /\ owner' = "stop_notify"
    /\ UNCHANGED <<started, worker_vars, argument, generation, delivered>>

StopNotify ==
    /\ owner = "stop_notify"
    /\ worker' = Notify(worker)
    /\ owner' = "join"
    /\ UNCHANGED <<started, stop, latest_request, latest_result, job,
                   argument, generation, asked, delivered>>

\* Fault: started_ stays set after the join.
StopJoinStarted ==
    /\ owner = "join"
    /\ worker = "exited"
    /\ worker' = "none"
    /\ owner' = "idle"
    /\ UNCHANGED <<started, stop, latest_request, latest_result, job,
                   argument, generation, asked, delivered>>

StopJoin ==
    /\ owner = "join"
    /\ worker = "exited"
    /\ worker' = "none"
    /\ owner' = "idle"
    /\ started' = FALSE
    /\ UNCHANGED <<stop, latest_request, latest_result, job,
                   argument, generation, asked, delivered>>

-----------------------------------------------------------------------------
\* The worker holds mu_ at the top of its loop: it returns on stop_, takes
\* the queued request, or releases mu_ by blocking in cv_.wait.
WorkerExit ==
    /\ worker = "loop"
    /\ stop
    /\ worker' = "exited"
    /\ UNCHANGED <<started, stop, latest_request, latest_result, job, owner_vars>>

\* Fault: latest_request_ is copied but not reset.
WorkerTakeCopy ==
    /\ worker = "loop"
    /\ ~stop
    /\ latest_request # None
    /\ job' = latest_request
    /\ worker' = "convert"
    /\ UNCHANGED <<started, stop, latest_request, latest_result, owner_vars>>

WorkerTake ==
    /\ worker = "loop"
    /\ ~stop
    /\ latest_request # None
    /\ job' = latest_request
    /\ latest_request' = None
    /\ worker' = "convert"
    /\ UNCHANGED <<started, stop, latest_result, owner_vars>>

WorkerBlock ==
    /\ worker = "loop"
    /\ ~stop
    /\ latest_request = None
    /\ worker' = "blocked"
    /\ UNCHANGED <<started, stop, latest_request, latest_result, job, owner_vars>>

\* cv_.wait may return without a notification and checks its predicate again.
SpuriousWakeup ==
    /\ worker = "blocked"
    /\ worker' = "loop"
    /\ UNCHANGED <<started, stop, latest_request, latest_result, job, owner_vars>>

\* The client answers (or is unavailable) and the answer is stored, even
\* after Stop or CancelPending and even if a newer request is queued.
WorkerFinish(outcome) ==
    /\ worker = "convert"
    /\ latest_result' = [generation |-> job.generation, key |-> job.key,
                         outcome |-> outcome]
    /\ job' = None
    /\ worker' = "loop"
    /\ UNCHANGED <<started, stop, latest_request, owner_vars>>

-----------------------------------------------------------------------------
SubmitStep == SubmitStore \/ SubmitNotify
StopStep   == StopNotify \/ StopJoin
WorkerStep == WorkerExit \/ WorkerTake \/ WorkerBlock
                \/ \E o \in Outcome : WorkerFinish(o)

Next ==
    \/ \E k \in Key : SubmitStart(k)
    \/ SubmitStep
    \/ CancelPending
    \/ TakeResult
    \/ StopRequest
    \/ StopStep
    \/ WorkerStep
    \/ SpuriousWakeup

\* Both threads are scheduled: a call that has begun goes on, the worker runs
\* whenever it can, and a conversion ends (the pipe client bounds every wait by
\* the request's timeout).  Nothing makes the owner begin a call, and no
\* spurious wakeup is owed.
Fairness ==
    /\ WF_vars(SubmitStep)
    /\ WF_vars(StopStep)
    /\ WF_vars(WorkerStep)

Spec == Init /\ [][Next]_vars /\ Fairness

-----------------------------------------------------------------------------
TypeOK ==
    /\ started \in BOOLEAN /\ stop \in BOOLEAN
    /\ latest_request \in Request \cup {None}
    /\ latest_result \in Response \cup {None}
    /\ worker \in {"none", "loop", "blocked", "convert", "exited"}
    /\ job \in Request \cup {None}
    /\ owner \in {"idle", "store", "notify", "stop_notify", "join"}
    /\ argument \in Request \cup {None}
    /\ generation \in 0 .. MaxGeneration
    /\ asked \in Request \cup {None}
    /\ delivered \in Response \cup {None}

\* No lost wakeup: if the worker sleeps in cv_.wait although there is a request
\* to take or stop_ is raised, the owner has still to notify.  This is what
\* storing under mu_ and notifying afterwards has to guarantee.
NoLostWakeup ==
    worker = "blocked" =>
        /\ latest_request # None => owner = "notify"
        /\ stop => owner = "stop_notify"

\* At most one thread runs WorkerLoop, and the std::thread object is never
\* assigned over a joinable thread: started_ is clear exactly when there is no
\* thread to join.
ThreadMatchesFlag == started <=> worker # "none"

\* A request in flight, queued or answered was submitted by the owner; the
\* newest of them is the one the owner waits for, and anything else that is
\* still around is older.
NothingNewerThanAsked ==
    /\ latest_request # None => latest_request = asked
    /\ \A r \in {job, latest_result} \ {None} :
          \/ /\ asked # None
             /\ r.generation = asked.generation
             /\ r.key = asked.key
             /\ latest_request = None
          \/ /\ r.generation <= generation
             /\ asked # None => r.generation < asked.generation

\* What the threads' positions say of the shared state; with the properties
\* above, the inductive invariant of the module.
Positions ==
    /\ worker = "convert" <=> job # None
    /\ worker = "exited" => stop
    /\ started /\ stop <=> owner \in {"stop_notify", "join"}
    /\ owner \in {"store", "notify"} => started
    /\ owner \in {"stop_notify", "join"} => asked = None
    /\ owner = "join" => worker # "blocked"
    /\ owner = "store" <=> argument # None
    /\ owner = "store" => argument.generation = generation
    /\ asked # None => asked.generation <= generation
    /\ asked # None /\ owner = "store" => asked.generation < generation
    /\ owner = "store" =>
          \A r \in {job, latest_result} \ {None} : r.generation < generation

IInv ==
    /\ TypeOK
    /\ NoLostWakeup
    /\ ThreadMatchesFlag
    /\ NothingNewerThanAsked
    /\ Positions

\* TakeResult delivers only the answer to the owner's latest submission, never
\* a late answer to a superseded or cancelled one, whatever was running when
\* it was superseded.
DeliversOnlyTheLatest ==
    [][delivered' # delivered =>
          /\ asked # None
          /\ delivered'.generation = asked.generation
          /\ delivered'.key = asked.key]_vars

\* The converter is never started on a request that was superseded, cancelled
\* or stopped before the worker could take it.
ConvertsOnlyTheLatest ==
    [][worker' = "convert" /\ worker # "convert" => job' = asked]_vars

\* Once begun, Stop returns: the worker leaves its loop and is joined, however
\* the conversion it is in and the wakeups interleave.
StopReturns == owner \in {"stop_notify", "join"} ~> owner = "idle"

\* A submission the owner keeps waiting for is answered: as long as the owner
\* neither supersedes, cancels nor stops it, its answer becomes available.
SubmissionIsAnswered ==
    \A g \in Generation :
        (asked # None /\ asked.generation = g) ~>
            \/ latest_result # None /\ latest_result.generation = g
            \/ asked = None
            \/ asked.generation # g

\* The corrector implements the mailbox its owner relies on.
Mailbox == INSTANCE ZenzMailbox WITH running <- job
MailboxSpec == Mailbox!Spec
=============================================================================
