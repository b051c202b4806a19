----------------------------- MODULE ZenzScorer -----------------------------
\* The way of a correction request through mozc_zenz_scorer on Linux: callers
\* that connect, launch the scorer if nobody listens, and give up after their
\* timeout (session/zenz_named_pipe_client.cc); scorer processes with a lock
\* file, a socket path, a main thread that serves one connection after another
\* and threads that probe whether llama-server answers (zenz_scorer/main.cc).
EXTENDS Naturals, Sequences, FiniteSets

CONSTANTS
    Scorer,         \* places for scorer processes
    Caller,         \* threads of mozc_server that call Convert, one per session
    Backlog,        \* the backlog of listen
    MaxRetry,       \* retry_attempts
    Thread,         \* bound: places for the probe threads of a scorer process
    ScorerBounds    \* bounds to choose from:
\* faults:  how many faults there may be
\* places:  how many scorer processes there may be at a time
\* signals: the scorer may be told to end
\* hangups: a caller may die between connect and send
\* quick:   llama-server loads, and probes end, before anybody else moves
ASSUME ScorerAssumption ==
    /\ Backlog \in Nat \ {0} /\ MaxRetry \in Nat \ {0}
    /\ \A b \in ScorerBounds :
         b.faults \in Nat /\ b.places \in Nat /\ {b.signals, b.hangups, b.quick} \subseteq BOOLEAN
    /\ 0 \notin Thread
    /\ Scorer \cap {"none", "dead"} = {} /\ Caller \cap {"none", "gone", "hung"} = {}

VARIABLES
    sc,             \* the scorer processes
    socket,         \* the process that listens at the socket path, "dead" or "none"
    lock,           \* the process that holds the lock of the lock file
    stolen,         \* a lock file was removed that another process had open, or a
                    \* process could not open it and went on without
    caller,         \* the callers
    throttled,      \* less than two seconds since last_launch_tick
    scorerFaults,   \* how many faults there have been
    scorerBound     \* the bounds of this behaviour

scorerVars == <<sc, socket, lock, stolen, caller, throttled, scorerFaults, scorerBound>>

MainPlace == {"none", "start", "lock", "cas", "fork", "record", "probe", "bind", "check",
              "accept", "read", "probe2", "wait", "post", "close", "stop",
              "unlock", "unlink"}
ProbePlace == {"none", "try", "answered", "done", "stop", "reset1", "reset2", "reset3"}

\* One scorer process.
\* guard:    the lock file it has open: none, the one at the path, or one that has
\*           been removed
\* served:   whose connection HandleClient has: a caller, one that has sent its
\*           request and left ("gone"), one that left without ("hung")
\* queue:    connections that are not accepted yet
\* eintr:    errno of the main thread is EINTR
\* launched, probing, ready: g_llama_launch_started, g_llama_ready_probe_started,
\*           g_llama_server_ready
\* mutex:    g_llama_process_mutex is held by this probe thread
\* llama:    the llama-server that has the port
\* forked, recorded: the process fork returned and g_llama_process: that one
\*           ("port") or another, which has ended ("other")
NoScorer ==
    [pc |-> "none", guard |-> "none", served |-> "none", queue |-> << >>, shutdown |-> FALSE, eintr |-> FALSE,
     bound |-> FALSE, launched |-> FALSE, probing |-> FALSE, ready |-> FALSE,
     probe |-> [t \in Thread |-> "none"], mutex |-> 0,
     llama |-> "none", forked |-> "none", recorded |-> "none"]

NoCall == [at |-> "idle", to |-> "none", tries |-> 0]

Connection == Caller \cup {"none", "gone", "hung"}
Process ==
    [pc : MainPlace, guard : {"none", "path", "removed"}, served : Connection,
     queue : Seq(Connection), shutdown : BOOLEAN, eintr : BOOLEAN, bound : BOOLEAN,
     launched : BOOLEAN, probing : BOOLEAN, ready : BOOLEAN,
     probe : [Thread -> ProbePlace], mutex : Thread \cup {0},
     llama : {"none", "loading", "ready"}, forked : {"none", "port", "other"},
     recorded : {"none", "port", "other"}]
Call ==
    [at : {"idle", "connect", "launch", "retry", "connected", "sent", "answered", "failed"},
     to : Scorer \cup {"none"}, tries : 0 .. MaxRetry - 1]
ScorerTypeOK ==
    /\ sc \in [Scorer -> Process]
    /\ \A s \in Scorer : Len(sc[s].queue) <= Backlog
    /\ socket \in Scorer \cup {"none", "dead"}
    /\ lock \in Scorer \cup {"none"}
    /\ caller \in [Caller -> Call]
    /\ stolen \in BOOLEAN /\ throttled \in BOOLEAN
    /\ scorerFaults \in 0 .. scorerBound.faults /\ scorerBound \in ScorerBounds

ScorerInit ==
    /\ sc = [s \in Scorer |-> NoScorer]
    /\ socket = "none" /\ lock = "none" /\ stolen = FALSE
    /\ caller = [c \in Caller |-> NoCall]
    /\ throttled = FALSE
    /\ scorerFaults = 0 /\ scorerBound \in ScorerBounds

ScorerFault == scorerFaults < scorerBound.faults /\ scorerFaults' = scorerFaults + 1
Faultless == UNCHANGED scorerFaults
outside == <<socket, lock, stolen>>
MainAt(s, place) == sc[s].pc = place
MainGoto(s, place) == sc' = [sc EXCEPT ![s].pc = place]

\* Callers whose connection to s is closed without an answer.
CutOff(s) == [c \in Caller |->
    IF caller[c].to = s /\ caller[c].at \in {"connected", "sent"}
    THEN [NoCall EXCEPT !.at = "failed"] ELSE caller[c]]

-----------------------------------------------------------------------------
\* main opens the lock file, or cannot and goes on all the same.
Start(s) ==
    /\ MainAt(s, "start")
    /\ \/ /\ sc' = [sc EXCEPT ![s].guard = "path", ![s].pc = "lock"]
          /\ Faultless /\ UNCHANGED stolen
       \/ MainGoto(s, "cas") /\ stolen' = TRUE /\ ScorerFault
    /\ UNCHANGED <<socket, lock, caller, throttled>>

\* Fault: the process goes on without the lock.
LockFileIgnored(s) ==
    /\ MainAt(s, "lock")
    /\ MainGoto(s, "cas") /\ lock' = s
    /\ UNCHANGED <<socket, stolen, caller, throttled>> /\ Faultless

\* fcntl: the lock or the end. Nobody else has the lock of a removed file.
LockFile(s) ==
    /\ MainAt(s, "lock")
    /\ \/ /\ sc[s].guard = "removed"
          /\ MainGoto(s, "cas") /\ UNCHANGED lock
       \/ /\ sc[s].guard = "path" /\ lock = "none"
          /\ MainGoto(s, "cas") /\ lock' = s
       \/ /\ sc[s].guard = "path" /\ lock # "none"
          /\ sc' = [sc EXCEPT ![s] = NoScorer] /\ UNCHANGED lock
    /\ UNCHANGED <<socket, stolen, caller, throttled>> /\ Faultless

\* StartLlamaServerInBackground, in RunServer, which ends if there are no random
\* numbers, and for every request that finds llama-server not ready.
StartLlama(s) ==
    /\ MainAt(s, "cas")
    /\ \/ sc[s].launched /\ MainGoto(s, "probe") /\ Faultless
       \/ /\ ~sc[s].launched
          /\ sc' = [sc EXCEPT ![s].launched = TRUE, ![s].pc = "fork"] /\ Faultless
       \/ ~sc[s].bound /\ MainGoto(s, "stop") /\ ScorerFault
    /\ UNCHANGED <<outside, caller, throttled>>

\* Where StartLlamaServerInBackground returns to.
LlamaStarted(s) == IF sc[s].bound THEN "probe2" ELSE "bind"

\* LaunchLlamaServer: a second llama-server cannot have the port and ends.
ForkLlama(s) ==
    /\ MainAt(s, "fork")
    /\ \/ /\ sc' = [sc EXCEPT
                 ![s].llama = IF @ = "none" THEN "loading" ELSE @,
                 ![s].forked = IF sc[s].llama = "none" THEN "port" ELSE "other",
                 ![s].pc = "record"]
          /\ Faultless
       \/ /\ sc' = [sc EXCEPT ![s].launched = FALSE, ![s].probing = FALSE,
                              ![s].ready = FALSE, ![s].pc = LlamaStarted(s)]
          /\ ScorerFault
    /\ UNCHANGED <<outside, caller, throttled>>

RecordLlama(s) ==
    /\ MainAt(s, "record") /\ sc[s].mutex = 0
    /\ sc' = [sc EXCEPT ![s].recorded = sc[s].forked, ![s].forked = "none",
                        ![s].pc = "probe"]
    /\ UNCHANGED <<outside, caller, throttled>> /\ Faultless

\* StartLlamaReadyProbeInBackground: a thread unless one probes. It runs in any
\* place that is free.
StartProbe(s) ==
    /\ sc[s].pc \in {"probe", "probe2"}
    /\ LET next == IF MainAt(s, "probe") THEN LlamaStarted(s) ELSE "wait"
           free == {t \in Thread : sc[s].probe[t] = "none"}
           t == CHOOSE u \in free : TRUE
       IN  \/ sc[s].probing /\ MainGoto(s, next)
           \/ /\ ~sc[s].probing /\ free # {}
              /\ sc' = [sc EXCEPT ![s].probing = TRUE, ![s].probe[t] = "try", ![s].pc = next]
    /\ UNCHANGED <<outside, caller, throttled>> /\ Faultless

\* The path is cleared, bound and listened at, or one of these fails and RunServer
\* ends.
Bind(s) ==
    /\ MainAt(s, "bind")
    /\ \/ socket' = s /\ sc' = [sc EXCEPT ![s].bound = TRUE, ![s].pc = "check"] /\ Faultless
       \/ socket' \in {socket, "none", "dead"} /\ MainGoto(s, "stop") /\ ScorerFault
    /\ UNCHANGED <<lock, stolen, caller, throttled>>

\* RunServer's loop.
Check(s) ==
    /\ MainAt(s, "check")
    /\ MainGoto(s, IF sc[s].shutdown THEN "close" ELSE "accept")
    /\ UNCHANGED <<outside, caller, throttled>> /\ Faultless

Accept(s) ==
    /\ MainAt(s, "accept") /\ sc[s].queue # << >>
    /\ sc' = [sc EXCEPT ![s].served = Head(sc[s].queue), ![s].queue = Tail(@), ![s].pc = "read"]
    /\ UNCHANGED <<outside, caller, throttled>> /\ Faultless

\* SendResponse and the end of the connection; nobody may be there any more.
Respond(s, ok) ==
    /\ sc' = [sc EXCEPT ![s].served = "none", ![s].pc = "check"]
    /\ caller' = [c \in Caller |->
                     IF c = sc[s].served
                     THEN [NoCall EXCEPT !.at = IF ok THEN "answered" ELSE "failed"]
                     ELSE caller[c]]

\* HandleClient reads the request, unless that takes too long, and asks whether
\* llama-server is ready. An end of file is only recognised when errno, which recv
\* leaves alone then, is not EINTR from before: otherwise it is read again for ever.
ReadRequest(s) ==
    LET from == sc[s].served IN
    /\ MainAt(s, "read")
    /\ \/ /\ IF from \in Caller THEN caller[from].at = "sent" ELSE from = "gone"
          /\ MainGoto(s, IF sc[s].ready THEN "post" ELSE "cas")
          /\ Faultless /\ UNCHANGED caller
       \/ /\ from = "hung"
          /\ IF sc[s].eintr THEN UNCHANGED sc
             ELSE sc' = [sc EXCEPT ![s].served = "none", ![s].pc = "check"]
          /\ Faultless /\ UNCHANGED caller
       \/ /\ IF from \in Caller THEN caller[from].at = "connected" ELSE FALSE
          /\ Respond(s, FALSE) /\ ScorerFault
    /\ UNCHANGED <<outside, throttled>>

\* It waits for the probe, which may take too long.
WaitReady(s) ==
    /\ MainAt(s, "wait")
    /\ \/ sc[s].ready /\ MainGoto(s, "post") /\ UNCHANGED caller
       \/ Respond(s, FALSE)
    /\ UNCHANGED <<outside, throttled>> /\ Faultless

\* HttpPostCompletion: whatever goes wrong is an error of this request alone.
Post(s) ==
    /\ MainAt(s, "post")
    /\ \/ sc[s].llama = "ready" /\ Respond(s, TRUE) /\ Faultless
       \/ sc[s].llama # "ready" /\ Respond(s, FALSE) /\ Faultless
       \/ sc[s].llama = "ready" /\ Respond(s, FALSE) /\ ScorerFault
    /\ UNCHANGED <<outside, throttled>>

\* The end of RunServer: the path is removed whoever has it, and who is connected is
\* cut off, unless a llama-server that was launched again has inherited the socket.
CloseSocket(s) ==
    /\ MainAt(s, "close")
    /\ socket' = "none"
    /\ \/ /\ sc' = [sc EXCEPT ![s].queue = << >>, ![s].pc = "stop"]
          /\ caller' = CutOff(s)
       \/ sc[s].llama # "none" /\ MainGoto(s, "stop") /\ UNCHANGED caller
    /\ UNCHANGED <<lock, stolen, throttled>> /\ Faultless

\* What StopLlamaServer does to the processes.
Killed(p) ==
    [p EXCEPT !.llama = IF p.recorded = "port" THEN "none" ELSE @, !.recorded = "none"]

\* StopLlamaServer by the main thread; the socket ends with its last holder. (A
\* llama-server that was forgotten would go on holding it: who is still connected then
\* gets its timeout instead of the cut, and fails alike.)
StopLlama(s) ==
    /\ MainAt(s, "stop") /\ sc[s].mutex = 0
    /\ sc' = [sc EXCEPT ![s] = [Killed(sc[s]) EXCEPT !.queue = << >>,
                 !.launched = FALSE, !.probing = FALSE, !.ready = FALSE, !.pc = "unlock"]]
    /\ caller' = CutOff(s)
    /\ UNCHANGED <<outside, throttled>> /\ Faultless

\* main closes the lock file ...
Unlock(s) ==
    /\ MainAt(s, "unlock")
    /\ lock' = (IF lock = s THEN "none" ELSE lock)
    /\ MainGoto(s, "unlink")
    /\ UNCHANGED <<socket, stolen, caller, throttled>> /\ Faultless

\* ... and removes the file that is at its path now. Whoever comes next locks
\* another file. With the process end its threads and, by PR_SET_PDEATHSIG, its
\* llama-servers.
UnlinkLock(s) ==
    /\ MainAt(s, "unlink")
    /\ IF sc[s].guard = "none"
       THEN sc' = [sc EXCEPT ![s] = NoScorer] /\ UNCHANGED <<lock, stolen>>
       ELSE LET open == {r \in Scorer \ {s} : sc[r].guard = "path"}
            IN  /\ stolen' = (stolen \/ open # {})
                /\ lock' = "none"
                /\ sc' = [r \in Scorer |->
                      CASE r = s -> NoScorer
                        [] r \in open -> [sc[r] EXCEPT !.guard = "removed"]
                        [] OTHER -> sc[r]]
    /\ UNCHANGED <<socket, caller, throttled>> /\ Faultless

MainStep(s) ==
    \/ Start(s) \/ LockFile(s) \/ StartLlama(s) \/ ForkLlama(s) \/ RecordLlama(s) \/ StartProbe(s)
    \/ Bind(s) \/ Check(s) \/ Accept(s) \/ ReadRequest(s) \/ WaitReady(s)
    \/ Post(s) \/ CloseSocket(s) \/ StopLlama(s) \/ Unlock(s) \/ UnlinkLock(s)

-----------------------------------------------------------------------------
\* A probe thread: 120 trials, then StopLlamaServer with the flags one by one.
probes == <<outside, caller, throttled>>

ProbeSucceeds(s, t) ==
    /\ sc[s].probe[t] = "try" /\ sc[s].llama = "ready"
    /\ sc' = [sc EXCEPT ![s].probe[t] = "answered"]
    /\ UNCHANGED probes /\ Faultless

ProbeEnds(s, t) ==
    /\ \/ /\ sc[s].probe[t] = "answered"
          /\ sc' = [sc EXCEPT ![s].ready = TRUE, ![s].probe[t] = "done"]
       \/ /\ sc[s].probe[t] = "done"
          /\ sc' = [sc EXCEPT ![s].probing = FALSE, ![s].probe[t] = "none"]
    /\ UNCHANGED probes /\ Faultless

\* Nobody has answered for a minute.
ProbeGivesUp(s, t) ==
    /\ sc[s].probe[t] = "try"
    /\ \/ sc[s].llama = "none" /\ Faultless
       \/ sc[s].llama = "loading" /\ ScorerFault
    /\ sc' = [sc EXCEPT ![s].probe[t] = "stop"]
    /\ UNCHANGED probes

ProbeStops(s, t) ==
    /\ sc[s].probe[t] = "stop" /\ sc[s].mutex = 0
    /\ sc' = [sc EXCEPT ![s] = [Killed(sc[s]) EXCEPT !.mutex = t, !.probe[t] = "reset1"]]
    /\ UNCHANGED probes /\ Faultless

\* Fault: the flags stay set.
ProbeResetsNothing(s, t) ==
    /\ sc[s].probe[t] = "reset1"
    /\ sc' = [sc EXCEPT ![s].mutex = 0, ![s].probe[t] = "none"]
    /\ UNCHANGED probes /\ Faultless

\* ResetLlamaReadyState
ProbeResets(s, t) ==
    /\ \/ /\ sc[s].probe[t] = "reset1"
          /\ sc' = [sc EXCEPT ![s].launched = FALSE, ![s].probe[t] = "reset2"]
       \/ /\ sc[s].probe[t] = "reset2"
          /\ sc' = [sc EXCEPT ![s].probing = FALSE, ![s].probe[t] = "reset3"]
       \/ /\ sc[s].probe[t] = "reset3"
          /\ sc' = [sc EXCEPT ![s].ready = FALSE, ![s].mutex = 0, ![s].probe[t] = "none"]
    /\ UNCHANGED probes /\ Faultless

ProbeStep(s, t) ==
    \/ ProbeSucceeds(s, t) \/ ProbeEnds(s, t) \/ ProbeGivesUp(s, t)
    \/ ProbeStops(s, t) \/ ProbeResets(s, t)

-----------------------------------------------------------------------------
\* llama-server has loaded its model ...
LlamaLoads(s) ==
    /\ sc[s].llama = "loading"
    /\ sc' = [sc EXCEPT ![s].llama = "ready"]
    /\ UNCHANGED probes /\ Faultless

\* ... or crashes, before or after, which nobody notices.
LlamaEnds(s) ==
    /\ sc[s].llama # "none" /\ ScorerFault
    /\ sc' = [sc EXCEPT ![s].llama = "none",
                        ![s].forked = IF @ = "port" THEN "other" ELSE @,
                        ![s].recorded = IF @ = "port" THEN "other" ELSE @]
    /\ UNCHANGED probes

\* HandleSignal: SIGINT, SIGTERM or SIGHUP interrupt accept and recv, if the main
\* thread is in there already.
Signal(s) ==
    /\ sc[s].pc # "none" /\ scorerBound.signals /\ ScorerFault
    /\ \E inside \in BOOLEAN :
         sc' = [sc EXCEPT ![s].shutdown = TRUE,
                          ![s].eintr = @ \/ (inside /\ MainAt(s, "read")),
                          ![s].pc = IF inside /\ @ = "accept" THEN "check" ELSE @]
    /\ UNCHANGED probes

Crash(s) ==
    /\ sc[s].pc # "none" /\ ScorerFault
    /\ sc' = [sc EXCEPT ![s] = NoScorer]
    /\ lock' = (IF lock = s THEN "none" ELSE lock)
    /\ socket' = (IF socket = s THEN "dead" ELSE socket)
    /\ caller' = CutOff(s)
    /\ UNCHANGED <<stolen, throttled>>

-----------------------------------------------------------------------------
\* Convert
Convert(c) ==
    /\ caller[c].at = "idle"
    /\ caller' = [caller EXCEPT ![c] = [NoCall EXCEPT !.at = "connect"]]
    /\ UNCHANGED <<sc, outside, throttled>> /\ Faultless

\* TryOpenPipeOnce: connect waits while the backlog is full.
Connected(c) ==
    \E s \in Scorer :
        /\ socket = s /\ Len(sc[s].queue) < Backlog
        /\ sc' = [sc EXCEPT ![s].queue = Append(@, c)]
        /\ caller' = [caller EXCEPT ![c] = [NoCall EXCEPT !.at = "connected", !.to = s]]

\* Fault: no attempt is counted.
RetryForever(c) == caller[c]

\* The next of retry_attempts.
Retry(c) ==
    IF caller[c].tries + 1 < MaxRetry THEN [caller[c] EXCEPT !.tries = @ + 1]
                                      ELSE [NoCall EXCEPT !.at = "failed"]

\* OpenPipeWithAutoLaunch
TryOpen(c) ==
    /\ caller[c].at \in {"connect", "retry"}
    /\ \/ Connected(c)
       \/ /\ socket \notin Scorer
          /\ caller' = [caller EXCEPT ![c] =
                 IF @.at = "connect" THEN [@ EXCEPT !.at = "launch"] ELSE Retry(c)]
          /\ UNCHANGED sc
    /\ UNCHANGED <<outside, throttled>> /\ Faultless

FreePlaces ==
    IF Cardinality({s \in Scorer : sc[s] # NoScorer}) < scorerBound.places
    THEN {s \in Scorer : sc[s] = NoScorer} ELSE {}

\* LaunchZenzScorerIfNeeded, whose result does not matter. A process that has no
\* place finds the lock taken and ends.
Launch(c) ==
    /\ caller[c].at = "launch"
    /\ \/ throttled /\ UNCHANGED <<sc, throttled>> /\ Faultless
       \/ /\ ~throttled /\ throttled' = TRUE
          /\ FreePlaces # {}
          /\ LET s == CHOOSE p \in FreePlaces : TRUE
             IN  sc' = [sc EXCEPT ![s].pc = "start"]
          /\ Faultless
       \/ /\ ~throttled /\ throttled' = TRUE
          /\ FreePlaces = {} /\ (lock # "none" \/ stolen)
          /\ UNCHANGED sc /\ Faultless
       \/ ~throttled /\ throttled' = TRUE /\ UNCHANGED sc /\ ScorerFault
    /\ caller' = [caller EXCEPT ![c].at = "retry"]
    /\ UNCHANGED outside

Send(c) ==
    /\ caller[c].at = "connected"
    /\ caller' = [caller EXCEPT ![c].at = "sent"]
    /\ UNCHANGED <<sc, outside, throttled>> /\ Faultless

\* The caller closes its end: its connection stays in the queue as what it is now.
Left(c, as) ==
    LET Renamed(x) == IF x = c THEN as ELSE x
    IN  [s \in Scorer |-> [sc[s] EXCEPT
            !.served = Renamed(@),
            !.queue = [i \in DOMAIN @ |-> Renamed(@[i])]]]

\* SO_RCVTIMEO
TimeOut(c) ==
    /\ caller[c].at = "sent"
    /\ caller' = [caller EXCEPT ![c] = [NoCall EXCEPT !.at = "failed"]]
    /\ sc' = Left(c, "gone")
    /\ UNCHANGED <<outside, throttled>> /\ Faultless

\* mozc_server ends, and another one takes its place.
HangUp(c) ==
    /\ caller[c].at = "connected" /\ scorerBound.hangups /\ ScorerFault
    /\ caller' = [caller EXCEPT ![c] = NoCall]
    /\ sc' = Left(c, "hung")
    /\ UNCHANGED <<outside, throttled>>

Return(c) ==
    /\ caller[c].at \in {"answered", "failed"}
    /\ caller' = [caller EXCEPT ![c] = NoCall]
    /\ UNCHANGED <<sc, outside, throttled>> /\ Faultless

CallerStep(c) == TryOpen(c) \/ Launch(c) \/ Send(c) \/ TimeOut(c) \/ Return(c)

TwoSecondsPass ==
    /\ throttled /\ throttled' = FALSE
    /\ UNCHANGED <<sc, outside, caller>> /\ Faultless

\* Whom the others wait for in a quick behaviour.
Probing(s) == LlamaLoads(s) \/ \E t \in Thread : ProbeStep(s, t)
LlamaRests ==
    scorerBound.quick =>
        \A s \in Scorer :
            sc[s].llama # "loading" /\ \A t \in Thread : sc[s].probe[t] = "none"

ScorerNext ==
    /\ UNCHANGED scorerBound
    /\ \/ \E s \in Scorer : Probing(s)
       \/ /\ LlamaRests
          /\ \/ \E s \in Scorer : MainStep(s) \/ LlamaEnds(s) \/ Signal(s) \/ Crash(s)
             \/ \E c \in Caller : Convert(c) \/ CallerStep(c) \/ HangUp(c)
             \/ TwoSecondsPass

\* Threads run, a machine loads a model in the end, and time passes. Nobody has to
\* call, and faults do not have to happen.
ScorerFairness ==
    /\ \A s \in Scorer :
         /\ WF_scorerVars(LlamaRests /\ MainStep(s) /\ UNCHANGED scorerBound)
         /\ WF_scorerVars(LlamaLoads(s) /\ UNCHANGED scorerBound)
         /\ \A t \in Thread : WF_scorerVars(ProbeStep(s, t) /\ UNCHANGED scorerBound)
    /\ \A c \in Caller : WF_scorerVars(LlamaRests /\ CallerStep(c) /\ UNCHANGED scorerBound)
    /\ WF_scorerVars(LlamaRests /\ TwoSecondsPass /\ UNCHANGED scorerBound)

ScorerSpec == ScorerInit /\ [][ScorerNext]_scorerVars /\ ScorerFairness

-----------------------------------------------------------------------------
Serving(s) ==
    sc[s].bound /\ sc[s].pc \notin {"close", "stop", "unlock", "unlink"}

\* A scorer that serves is the one the socket path leads to, although another may
\* be starting or ending: unless the lock file was removed under a third one.
ServingIsReachable == \A s \in Scorer : (Serving(s) /\ ~stolen) => socket = s

\* g_llama_ready_probe_started is set only while a thread probes that will clear
\* it: otherwise no request would ever find llama-server ready again.
ProbingHasThread ==
    \A s \in Scorer : sc[s].probing => \E t \in Thread : sc[s].probe[t] # "none"

\* ReadAll takes the end of file of a caller that left for an interrupted recv, again
\* and again: the main thread never accepts another connection ...
Spinning(s) == MainAt(s, "read") /\ sc[s].served = "hung" /\ sc[s].eintr
\* ... and once its backlog is full a connect, which has no timeout yet, blocks.
BlockedInConnect(c) ==
    /\ caller[c].at \in {"connect", "retry"}
    /\ \E s \in Scorer : socket = s /\ Spinning(s) /\ Len(sc[s].queue) = Backlog

\* Convert returns, whoever crashes, ends, loads or has to be started, unless it meets
\* a scorer that spins with a full backlog.
ConvertReturns ==
    \A c \in Caller : (caller[c].at # "idle") ~> (caller[c].at = "idle" \/ BlockedInConnect(c))
=============================================================================
