-------------------------- MODULE SessionWatchDog --------------------------
(***************************************************************************)
(* session/session_watch_dog.cc inside session/session_server.cc: the      *)
(* thread that sends CLEANUP to its own server once per interval, waits    *)
(* for the answer, pings a server that gave none and kills the process if  *)
(* nothing comes back; and the end of the server, which stops the thread   *)
(* and joins it.                                                           *)
(*                                                                         *)
(* The thread and the server's loop meet in an IPC call: the server        *)
(* evaluates the request, or the call times out and the request, still     *)
(* queued, is evaluated later.  The wait for an interval ends when the     *)
(* clock has passed it, or any time after: the thread may be late, and the *)
(* machine may sleep.                                                      *)
(***************************************************************************)
EXTENDS SessionHandler

CONSTANTS
    Samples,      \* CPU samples of a round: 12 for an interval of a minute
    Load,         \* CPU loads in per cent
    PingTrial,    \* kPingTrial
    None

ASSUME LoadAssumption == Samples \in Nat \ {0} /\ Load \subseteq 0 .. 100
ASSUME PingAssumption == PingTrial \in Nat \ {0}
ASSUME NeverAssumption == None \notin [from : Time, to : Time]

VARIABLES
    dog,          \* where the thread is
    attempt,      \* last_cleanup_time of ThreadMain
    wake,         \* when its wait is over
    pings,        \* pings that failed
    queued,       \* a CLEANUP the server has not evaluated
    stop,         \* stop_
    slept         \* when the machine slept, None if it did not yet

dog_vars == <<dog, attempt, wake, pings>>
all_vars == <<vars, dog_vars, queued, stop, slept>>

DogInit ==
    /\ Init
    /\ dog = "wait" /\ attempt = 0 /\ wake = Interval /\ pings = 0
    /\ queued = FALSE /\ stop = FALSE /\ slept = None

-----------------------------------------------------------------------------
\* kMinimumAllCPULoad and kMinimumLatestCPULoad, in per cent.
MinimumAllCPULoad == 33
MinimumLatestCPULoad == 66

Total(loads) == FoldSeq(+, 0, loads)

\* Fault: a long gap since the last round does not count as sleep.
CanSendAfterSleep(loads, current, last) ==
    /\ current > last
    /\ Total(loads) <= MinimumAllCPULoad * Len(loads)

\* The latest load is the sum of all samples divided by the size of the latest.
CanSendCleanupCommand(loads, current, last) ==
    LET latest_size == IF Len(loads) < 2 THEN Len(loads) ELSE 2
    IN  /\ current > last
        /\ Total(loads) <= MinimumAllCPULoad * Len(loads)
        /\ Total(loads) <= MinimumLatestCPULoad * latest_size
        /\ current - last <= 2 * Interval

\* A round: the wait is over, the load is judged, and CLEANUP is sent.
DogWakes ==
    /\ dog = "wait" /\ ~stop
    /\ now >= wake
    /\ attempt' = now
    /\ \E sends \in {CanSendCleanupCommand(loads, now, attempt) :
                        loads \in [1 .. Samples -> Load]} :
          /\ dog' = IF sends THEN "call" ELSE "wait"
          /\ wake' = IF sends THEN wake ELSE now + Interval
          /\ queued' = (queued \/ sends)
    /\ UNCHANGED <<vars, pings, stop, slept>>

\* The server evaluates CLEANUP; the answer reaches a thread that still waits for
\* it. A server that leaves its loop sends an empty one, which is a success too.
ServeCleanup ==
    /\ queued
    /\ queued' = FALSE
    /\ Cleanup
    /\ IF dog = "call" THEN dog' = "wait" /\ wake' = now + Interval ELSE UNCHANGED <<dog, wake>>
    /\ UNCHANGED <<pings, attempt, stop, slept>>

\* The call times out, or nobody listens.
CallFails ==
    /\ dog = "call"
    /\ dog' = "ping" /\ pings' = 0
    /\ UNCHANGED <<vars, attempt, wake, queued, stop, slept>>

\* Requests are served in order: an answered ping leaves none behind.
PingSucceeds ==
    /\ dog = "ping" /\ ~stop
    /\ is_available /\ ~queued
    /\ dog' = "wait" /\ wake' = now + Interval
    /\ UNCHANGED <<vars, attempt, pings, queued, stop, slept>>

PingFails ==
    /\ dog = "ping" /\ ~stop
    /\ pings' = pings + 1
    /\ dog' = IF pings' = PingTrial THEN "doomed" ELSE "ping"
    /\ UNCHANGED <<vars, attempt, wake, queued, stop, slept>>

\* LOG(FATAL)
Dies ==
    /\ dog = "doomed" /\ ~stop
    /\ dog' = "fatal"
    /\ UNCHANGED <<vars, attempt, wake, pings, queued, stop, slept>>

\* Fault: the wait for the next round does not look at stop_.
DogStopsInPing ==
    /\ dog \in {"ping", "doomed"} /\ stop
    /\ dog' = "exited"
    /\ UNCHANGED <<vars, attempt, wake, pings, queued, stop, slept>>

\* Every wait ends with stop_.
DogStops ==
    /\ dog \in {"wait", "ping", "doomed"} /\ stop
    /\ dog' = "exited"
    /\ UNCHANGED <<vars, attempt, wake, pings, queued, stop, slept>>

\* The server has left its loop; its destructor notifies the thread.
StopWatchDog ==
    /\ ~is_available /\ ~stop /\ dog # "fatal"
    /\ stop' = TRUE
    /\ UNCHANGED <<vars, dog_vars, queued, slept>>

\* The machine sleeps, once.
Sleep ==
    /\ slept = None
    /\ \E t \in Time : /\ t > now + 1
                       /\ now' = t
                       /\ slept' = [from |-> now, to |-> t]
    /\ UNCHANGED <<turned_back, session, lru, settings, data, is_available, stamps,
                   dog_vars, queued, stop>>

DogStep == DogWakes \/ CallFails \/ PingSucceeds \/ PingFails \/ Dies \/ DogStops

\* The commands and events that the thread can meet: settings and engine data
\* play no part in it.
DogNext ==
    \/ /\ dog # "fatal"
       /\ \/ \E id \in SessionID : \/ CreateSession(id) \/ DeleteSession(id)
                                   \/ TestSendKey(id) \/ ApplicationExits(id)
          \/ Shutdown
          \/ Tick
       /\ UNCHANGED <<dog_vars, queued, stop, slept>>
    \/ dog # "fatal" /\ ServeCleanup
    \/ dog # "fatal" /\ Sleep
    \/ DogStep
    \/ StopWatchDog

\* Both threads are scheduled; a call of the thread ends (IPC has a timeout) and
\* the server, once out of its loop, reaches its destructor.
DogFairness == WF_all_vars(DogStep) /\ WF_all_vars(StopWatchDog)

DogSpec == DogInit /\ [][DogNext]_all_vars /\ DogFairness

-----------------------------------------------------------------------------
DogTypeOK ==
    /\ TypeOK
    /\ dog \in {"wait", "call", "ping", "doomed", "fatal", "exited"}
    /\ attempt \in Time /\ wake \in 0 .. MaxTime + Interval
    /\ pings \in 0 .. PingTrial
    /\ queued \in BOOLEAN /\ stop \in BOOLEAN
    /\ slept \in [from : Time, to : Time] \cup {None}

\* Time the machine was awake since t.
AwakeSince(t) ==
    now - t - (IF slept # None /\ slept.from >= t THEN slept.to - slept.from ELSE 0)

\* Sleep is not idleness: a session of a running application is removed only
\* after its timeout of waking time (less the two intervals below which a sleep
\* is not noticed), or when the machine has been awake again for two intervals,
\* one if no cleanup came before the sleep.  The one gap: a server's very first
\* CLEANUP that was on its way while the machine fell asleep.
SleepIsNotIdleness ==
    [][\A id \in Ids \ DOMAIN session' :
          ServeCleanup /\ session[id].alive =>
             \/ AwakeSince(session[id].at) + 2 * Interval
                   >= (IF session[id].used THEN CommandTimeout ELSE CreateTimeout)
             \/ /\ slept # None
                /\ now - slept.to >= (IF last_cleanup_time = InfinitePast
                                      THEN Interval ELSE 2 * Interval)
             \/ /\ slept # None
                /\ last_cleanup_time = InfinitePast /\ attempt <= slept.from]_all_vars

\* The thread does not outlive the server: once the server has left its loop,
\* the thread ends, whatever call or wait it is in, so that the join returns.
WatchDogEnds == ~is_available ~> dog \in {"exited", "fatal"}

\* "Average CPU load for last 10 secs. If the load > kMinimumLatestCPULoad,
\* don't send Cleanup": a round with an acceptable average over all samples and
\* over the last two sends its cleanup.
SendsUnderAcceptableLoad ==
    \A loads \in [1 .. Samples -> Load] :
        /\ now > attempt /\ now - attempt <= 2 * Interval
        /\ Total(loads) <= MinimumAllCPULoad * Samples
        /\ Samples >= 2
        /\ loads[Samples - 1] + loads[Samples] <= 2 * MinimumLatestCPULoad
        => CanSendCleanupCommand(loads, now, attempt)
=============================================================================
