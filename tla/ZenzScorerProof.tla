-------------------------- MODULE ZenzScorerProof --------------------------
(***************************************************************************)
(* Proofs about ZenzScorer for any number of scorer processes, callers,    *)
(* probe threads and faults: a scorer that serves is the one at the socket *)
(* path, g_llama_ready_probe_started has a thread that will clear it, and  *)
(* a call that is open is held by one process that still has its socket.   *)
(***************************************************************************)
EXTENDS ZenzScorer, Integers, SequenceTheorems, TLAPS

\* Where a main thread is between taking the lock and closing the lock file, and
\* where it does not serve any more.
Locked == {"cas", "fork", "record", "probe", "bind", "check", "accept", "read", "probe2",
           "wait", "post", "close", "stop", "unlock"}
Closing == {"close", "stop", "unlock", "unlink"}

ScorerTypes ==
    /\ sc \in [Scorer -> Process]
    /\ socket \in Scorer \cup {"none", "dead"} /\ lock \in Scorer \cup {"none"}
    /\ stolen \in BOOLEAN

\* Who is past the lock has the lock of the file that is at the path, before it
\* nothing is bound, and who serves has the socket.
LockIsHeld ==
    ~stolen =>
        \A s \in Scorer :
            /\ sc[s].guard # "removed"
            /\ sc[s].pc \in Locked => lock = s /\ sc[s].guard = "path"
            /\ sc[s].pc \in {"none", "start", "lock"} => ~sc[s].bound
            /\ Serving(s) => socket = s

\* A thread that will still clear g_llama_ready_probe_started: one in ResetLlamaReadyState
\* that has done so may have found it set by a later one.
WillClear(p) == \E t \in Thread : p.probe[t] \notin {"none", "reset3"}
ProbingIsCleared == \A s \in Scorer : sc[s].probing => WillClear(sc[s])

ScorerIInv == ScorerTypes /\ LockIsHeld /\ ProbingIsCleared

\* What most steps do to a process: its lock file and its socket stay, its main
\* thread stays before, under or after the lock, unless it is just starting, and does
\* not serve again.
Keeps(p, q) ==
    /\ q.guard = p.guard /\ q.bound = p.bound
    /\ \/ q.pc = p.pc
       \/ p.pc = "none" /\ q.pc = "start"
       \/ {p.pc, q.pc} \subseteq Locked /\ (p.pc \in Closing => q.pc \in Closing)
    /\ q.probing => (p.probing /\ q.probe = p.probe) \/ WillClear(q)

\* Steps that keep all processes so.
LEMMA KeepingKeepsIInv ==
    ASSUME ScorerIInv, UNCHANGED outside, sc' \in [Scorer -> Process],
           \A s \in Scorer : Keeps(sc[s], sc'[s])
    PROVE  ScorerIInv'
<1>1. ScorerTypes'
  BY DEF ScorerIInv, ScorerTypes, outside
<1>2. LockIsHeld'
  <2> SUFFICES ASSUME ~stolen, NEW s \in Scorer
               PROVE  /\ sc'[s].guard # "removed"
                      /\ sc'[s].pc \in Locked => lock = s /\ sc'[s].guard = "path"
                      /\ sc'[s].pc \in {"none", "start", "lock"} => ~sc'[s].bound
                      /\ Serving(s)' => socket = s
    BY DEF LockIsHeld, outside
  <2>1. Keeps(sc[s], sc'[s])
    OBVIOUS
  <2> QED
    BY <2>1 DEF Keeps, ScorerIInv, LockIsHeld, Serving, Locked, Closing
<1>3. ProbingIsCleared'
  BY DEF ScorerIInv, ProbingIsCleared, Keeps, WillClear
<1> QED
  BY <1>1, <1>2, <1>3 DEF ScorerIInv

\* A process is written and the others stay.
LEMMA Becoming ==
    ASSUME ScorerTypes, NEW s \in Scorer, NEW p \in Process, sc' = [sc EXCEPT ![s] = p]
    PROVE  /\ sc' \in [Scorer -> Process]
           /\ sc'[s] = p
           /\ \A r \in Scorer \ {s} : sc'[r] = sc[r]
  BY DEF ScorerTypes

\* A step that keeps one process so and leaves the others.
LEMMA OneKeepsIInv ==
    ASSUME ScorerIInv, UNCHANGED outside, NEW s \in Scorer, NEW p \in Process,
           sc' = [sc EXCEPT ![s] = p], Keeps(sc[s], p)
    PROVE  ScorerIInv'
<1>1. /\ sc' \in [Scorer -> Process] /\ sc'[s] = p
      /\ \A r \in Scorer \ {s} : sc'[r] = sc[r]
  BY Becoming DEF ScorerIInv
<1>2. \A r \in Scorer : Keeps(sc[r], sc'[r])
  BY <1>1 DEF Keeps
<1> QED
  BY <1>1, <1>2, KeepingKeepsIInv

\* The main thread goes to another place under the lock.
LEMMA GoingKeepsIInv ==
    ASSUME ScorerIInv, UNCHANGED outside, NEW s \in Scorer, NEW place \in Locked,
           sc[s].pc \in Locked, sc[s].pc \notin Closing, MainGoto(s, place)
    PROVE  ScorerIInv'
<1> DEFINE p == [sc[s] EXCEPT !.pc = place]
<1>1. sc' = [sc EXCEPT ![s] = p]
  BY DEF MainGoto, ScorerIInv, ScorerTypes
<1>2. sc[s] \in Process /\ place \in MainPlace
  BY DEF ScorerIInv, ScorerTypes, Locked, MainPlace
<1>3. p \in Process /\ Keeps(sc[s], p)
  BY <1>2 DEF Process, Keeps
<1> HIDE DEF p
<1> QED
  BY <1>1, <1>3, OneKeepsIInv

-----------------------------------------------------------------------------
\* The first steps of the main thread: opening the lock file and taking the lock.
LEMMA StartKeepsIInv == ASSUME ScorerIInv, NEW s \in Scorer, Start(s) PROVE ScorerIInv'
<1> DEFINE p == [sc[s] EXCEPT !.guard = "path", !.pc = "lock"]
           q == [sc[s] EXCEPT !.pc = "cas"]
<1>0. sc[s] \in Process /\ sc[s].pc = "start"
  BY DEF ScorerIInv, ScorerTypes, Start, MainAt
<1>1. CASE sc' = [sc EXCEPT ![s].guard = "path", ![s].pc = "lock"] /\ UNCHANGED stolen
  <2>1. sc' = [sc EXCEPT ![s] = p]
    BY <1>1 DEF ScorerIInv, ScorerTypes
  <2>2. /\ p \in Process /\ p.pc = "lock" /\ p.guard = "path" /\ p.bound = sc[s].bound
        /\ p.probing = sc[s].probing /\ p.probe = sc[s].probe
    BY <1>0 DEF Process, MainPlace
  <2> HIDE DEF p
  <2>3. /\ sc' \in [Scorer -> Process] /\ sc'[s] = p
        /\ \A r \in Scorer \ {s} : sc'[r] = sc[r]
    BY <2>1, <2>2, Becoming DEF ScorerIInv
  <2>4. UNCHANGED <<socket, lock>>
    BY DEF Start
  <2>5. LockIsHeld'
    BY <1>0, <1>1, <2>2, <2>3, <2>4 DEF ScorerIInv, LockIsHeld, Serving, Locked
  <2> QED
    BY <1>1, <2>2, <2>3, <2>4, <2>5 DEF ScorerIInv, ScorerTypes, ProbingIsCleared, WillClear
<1>2. CASE MainGoto(s, "cas") /\ stolen' = TRUE
  <2>1. sc' = [sc EXCEPT ![s] = q]
    BY <1>2 DEF ScorerIInv, ScorerTypes, MainGoto
  <2>2. q \in Process /\ q.probing = sc[s].probing /\ q.probe = sc[s].probe
    BY <1>0 DEF Process, MainPlace
  <2> HIDE DEF q
  <2>3. /\ sc' \in [Scorer -> Process] /\ sc'[s] = q
        /\ \A r \in Scorer \ {s} : sc'[r] = sc[r]
    BY <2>1, <2>2, Becoming DEF ScorerIInv
  <2> QED
    BY <1>2, <2>2, <2>3 DEF ScorerIInv, ScorerTypes, LockIsHeld, ProbingIsCleared, WillClear, Start
<1> QED
  BY <1>1, <1>2 DEF Start

\* A process that has ended is as good as one that was never there.
LEMMA NoScorerIsProcess ==
    /\ NoScorer \in Process /\ NoScorer.pc = "none" /\ NoScorer.guard = "none"
    /\ NoScorer.bound = FALSE /\ NoScorer.probing = FALSE
  BY DEF NoScorer, Process, MainPlace, ProbePlace, Connection

\* The lock: only who finds it free goes on.
LEMMA LockFileKeepsIInv == ASSUME ScorerIInv, NEW s \in Scorer, LockFile(s) PROVE ScorerIInv'
<1> DEFINE q == [sc[s] EXCEPT !.pc = "cas"]
<1>0. sc[s] \in Process /\ sc[s].pc = "lock" /\ UNCHANGED <<socket, stolen>>
  BY DEF ScorerIInv, ScorerTypes, LockFile, MainAt
<1>1. q \in Process /\ q.pc = "cas" /\ q.guard = sc[s].guard /\ q.bound = sc[s].bound
      /\ q.probing = sc[s].probing /\ q.probe = sc[s].probe
  BY <1>0 DEF Process, MainPlace
<1>2. MainGoto(s, "cas") => sc' = [sc EXCEPT ![s] = q]
  BY DEF ScorerIInv, ScorerTypes, MainGoto
<1> HIDE DEF q
<1>3. CASE /\ MainGoto(s, "cas")
           /\ \/ sc[s].guard = "removed" /\ UNCHANGED lock
              \/ sc[s].guard = "path" /\ lock = "none" /\ lock' = s
  <2>1. /\ sc' \in [Scorer -> Process] /\ sc'[s] = q
        /\ \A r \in Scorer \ {s} : sc'[r] = sc[r]
    BY <1>1, <1>2, <1>3, Becoming DEF ScorerIInv
  <2>2. LockIsHeld'
    BY <1>0, <1>1, <1>3, <2>1, ScorerAssumption DEF ScorerIInv, LockIsHeld, Serving, Locked
  <2> QED
    BY <1>0, <1>1, <1>3, <2>1, <2>2 DEF ScorerIInv, ScorerTypes, ProbingIsCleared, WillClear
<1>4. CASE sc' = [sc EXCEPT ![s] = NoScorer] /\ UNCHANGED lock
  <2>1. /\ sc' \in [Scorer -> Process] /\ sc'[s] = NoScorer
        /\ \A r \in Scorer \ {s} : sc'[r] = sc[r]
    BY <1>4, NoScorerIsProcess, Becoming DEF ScorerIInv
  <2> QED
    BY <1>0, <1>4, <2>1, NoScorerIsProcess
    DEF ScorerIInv, ScorerTypes, LockIsHeld, Serving, Locked, ProbingIsCleared, WillClear
<1> QED
  BY <1>3, <1>4 DEF LockFile

\* llama-server and the threads that probe it are started.
LEMMA LaunchingKeepsIInv ==
    ASSUME ScorerIInv, NEW s \in Scorer, StartLlama(s) \/ ForkLlama(s) \/ RecordLlama(s)
    PROVE  ScorerIInv'
<1>0. sc[s] \in Process /\ sc \in [Scorer -> Process]
  BY DEF ScorerIInv, ScorerTypes
<1>1. CASE StartLlama(s)
  <2> DEFINE p == [sc[s] EXCEPT !.launched = TRUE, !.pc = "fork"]
  <2>1. sc[s].pc = "cas" /\ UNCHANGED outside
    BY <1>1 DEF StartLlama, MainAt
  <2>2. CASE MainGoto(s, "probe") \/ MainGoto(s, "stop")
    BY <2>1, <2>2, GoingKeepsIInv DEF Locked, Closing
  <2>3. CASE sc' = [sc EXCEPT ![s].launched = TRUE, ![s].pc = "fork"]
    <3>1. sc' = [sc EXCEPT ![s] = p]
      BY <2>3, <1>0
    <3>2. p \in Process /\ Keeps(sc[s], p)
      BY <1>0, <2>1 DEF Process, MainPlace, Keeps, Locked, Closing
    <3> HIDE DEF p
    <3> QED
      BY <2>1, <3>1, <3>2, OneKeepsIInv
  <2> QED
    BY <1>1, <2>2, <2>3 DEF StartLlama
<1>2. CASE ForkLlama(s)
  <2> DEFINE p == [sc[s] EXCEPT !.llama = IF @ = "none" THEN "loading" ELSE @,
                                !.forked = IF sc[s].llama = "none" THEN "port" ELSE "other",
                                !.pc = "record"]
             q == [sc[s] EXCEPT !.launched = FALSE, !.probing = FALSE, !.ready = FALSE,
                                !.pc = LlamaStarted(s)]
  <2>1. sc[s].pc = "fork" /\ UNCHANGED outside
    BY <1>2 DEF ForkLlama, MainAt
  <2>2. sc' = [sc EXCEPT ![s] = p] \/ sc' = [sc EXCEPT ![s] = q]
    BY <1>2, <1>0 DEF ForkLlama
  <2>3. p \in Process /\ Keeps(sc[s], p)
    <3>1. p \in Process
      BY ZenonT(60), <1>0, <2>1 DEF Process, MainPlace
    <3>2. Keeps(sc[s], p)
      BY <1>0, <2>1 DEF Keeps, Locked, Closing, Process
    <3> QED
      BY <3>1, <3>2
  <2>4. q \in Process /\ Keeps(sc[s], q)
    <3>1. q \in Process
      BY ZenonT(60), <1>0, <2>1 DEF Process, MainPlace, LlamaStarted
    <3>2. Keeps(sc[s], q)
      BY <1>0, <2>1 DEF Keeps, Locked, Closing, LlamaStarted, Process
    <3> QED
      BY <3>1, <3>2
  <2> HIDE DEF p, q
  <2> QED
    BY <2>1, <2>2, <2>3, <2>4, OneKeepsIInv
<1>3. CASE RecordLlama(s)
  <2> DEFINE p == [sc[s] EXCEPT !.recorded = sc[s].forked, !.forked = "none", !.pc = "probe"]
  <2>1. sc[s].pc = "record" /\ UNCHANGED outside
    BY <1>3 DEF RecordLlama, MainAt
  <2>2. sc' = [sc EXCEPT ![s] = p]
    BY <1>3, <1>0 DEF RecordLlama
  <2>3. p \in Process /\ Keeps(sc[s], p)
    BY <1>0, <2>1 DEF Process, MainPlace, Keeps, Locked, Closing
  <2> HIDE DEF p
  <2> QED
    BY <2>1, <2>2, <2>3, OneKeepsIInv
<1> QED
  BY <1>1, <1>2, <1>3

\* A thread is started that will clear g_llama_ready_probe_started, or there is one.
LEMMA StartProbeKeepsIInv ==
    ASSUME ScorerIInv, NEW s \in Scorer, StartProbe(s) PROVE ScorerIInv'
<1> DEFINE next == IF MainAt(s, "probe") THEN LlamaStarted(s) ELSE "wait"
           free == {t \in Thread : sc[s].probe[t] = "none"}
<1>0. sc[s] \in Process /\ sc \in [Scorer -> Process]
  BY DEF ScorerIInv, ScorerTypes
<1>1. sc[s].pc \in {"probe", "probe2"} /\ UNCHANGED outside /\ next \in Locked /\ next \in MainPlace
      /\ next \notin Closing
  BY DEF StartProbe, LlamaStarted, Locked, MainPlace, Closing
<1>2. CASE MainGoto(s, next)
  BY <1>1, <1>2, GoingKeepsIInv DEF Locked, Closing
<1>3. CASE \E t \in Thread :
              sc' = [sc EXCEPT ![s].probing = TRUE, ![s].probe[t] = "try", ![s].pc = next]
  <2> HIDE DEF next
  <2>1. PICK t \in Thread :
           sc' = [sc EXCEPT ![s].probing = TRUE, ![s].probe[t] = "try", ![s].pc = next]
    BY <1>3
  <2> DEFINE p == [sc[s] EXCEPT !.probing = TRUE, !.probe[t] = "try", !.pc = next]
  <2>2. sc' = [sc EXCEPT ![s] = p]
    BY <2>1, <1>0
  <2>3. /\ p \in Process /\ p.guard = sc[s].guard /\ p.bound = sc[s].bound /\ p.pc = next
        /\ p.probe[t] = "try"
    BY <1>0, <1>1 DEF Process, ProbePlace
  <2> HIDE DEF p
  <2>4. Keeps(sc[s], p)
    BY <1>1, <2>3 DEF Keeps, WillClear, Locked, Closing
  <2> QED
    BY <1>1, <2>2, <2>3, <2>4, OneKeepsIInv
<1> QED
  BY <1>2, <1>3 DEF StartProbe

\* The socket goes to the process that has the lock.
LEMMA BindKeepsIInv == ASSUME ScorerIInv, NEW s \in Scorer, Bind(s) PROVE ScorerIInv'
<1> DEFINE p == [sc[s] EXCEPT !.bound = TRUE, !.pc = "check"]
           q == [sc[s] EXCEPT !.pc = "stop"]
<1>0. /\ sc[s] \in Process /\ sc \in [Scorer -> Process] /\ sc[s].pc = "bind"
      /\ UNCHANGED <<lock, stolen>>
  BY DEF ScorerIInv, ScorerTypes, Bind, MainAt
<1>1. /\ p \in Process /\ p.pc = "check" /\ p.guard = sc[s].guard
      /\ p.probing = sc[s].probing /\ p.probe = sc[s].probe
  BY <1>0 DEF Process, MainPlace
<1>2. /\ q \in Process /\ q.pc = "stop" /\ q.guard = sc[s].guard
      /\ q.probing = sc[s].probing /\ q.probe = sc[s].probe
  BY <1>0 DEF Process, MainPlace
<1>3. \/ socket' = s /\ sc' = [sc EXCEPT ![s] = p]
      \/ socket' \in {socket, "none", "dead"} /\ sc' = [sc EXCEPT ![s] = q]
  BY <1>0 DEF Bind, MainGoto
<1> HIDE DEF p, q
<1>4. /\ sc' \in [Scorer -> Process] /\ sc'[s] \in {p, q}
      /\ \A r \in Scorer \ {s} : sc'[r] = sc[r]
      /\ sc'[s] = p => socket' = s
  BY <1>1, <1>2, <1>3, Becoming DEF ScorerIInv
<1>5. ~stolen => \A r \in Scorer \ {s} : ~Serving(r)
  BY <1>0 DEF ScorerIInv, LockIsHeld, Serving, Locked, Process, MainPlace, ScorerTypes
<1>6. LockIsHeld'
  BY <1>0, <1>1, <1>2, <1>4, <1>5 DEF ScorerIInv, LockIsHeld, Serving, Locked
<1>7. ProbingIsCleared'
  BY <1>1, <1>2, <1>4 DEF ScorerIInv, ProbingIsCleared, WillClear
<1>8. socket' \in Scorer \cup {"none", "dead"}
  BY <1>3 DEF ScorerIInv, ScorerTypes
<1> QED
  BY <1>0, <1>4, <1>6, <1>7, <1>8 DEF ScorerIInv, ScorerTypes

\* RunServer's loop and HandleClient.
LEMMA ServingKeepsIInv ==
    ASSUME ScorerIInv, NEW s \in Scorer,
           Check(s) \/ Accept(s) \/ ReadRequest(s) \/ WaitReady(s) \/ Post(s)
    PROVE  ScorerIInv'
<1>0. sc[s] \in Process /\ sc \in [Scorer -> Process]
  BY DEF ScorerIInv, ScorerTypes
<1>1. CASE Check(s)
  <2>1. sc[s].pc = "check" /\ UNCHANGED outside
    BY <1>1 DEF Check, MainAt
  <2>2. MainGoto(s, "close") \/ MainGoto(s, "accept")
    BY <1>1 DEF Check
  <2> QED
    BY <2>1, <2>2, GoingKeepsIInv DEF Locked, Closing
<1>2. CASE Accept(s)
  <2> DEFINE p == [sc[s] EXCEPT !.served = Head(sc[s].queue), !.queue = Tail(@), !.pc = "read"]
  <2>1. sc[s].pc = "accept" /\ UNCHANGED outside /\ sc' = [sc EXCEPT ![s] = p]
        /\ sc[s].queue # << >>
    BY <1>0, <1>2 DEF Accept, MainAt
  <2>2. sc[s].queue \in Seq(Connection)
    BY <1>0 DEF Process
  <2>3. Head(sc[s].queue) \in Connection /\ Tail(sc[s].queue) \in Seq(Connection)
    BY <2>1, <2>2
  <2>4. p \in Process /\ Keeps(sc[s], p)
    BY <1>0, <2>1, <2>3 DEF Process, MainPlace, Keeps, Locked, Closing
  <2> HIDE DEF p
  <2> QED
    BY <2>1, <2>4, OneKeepsIInv
<1>3. ASSUME sc[s].pc \in {"read", "wait", "post"}, UNCHANGED outside,
             sc' = [sc EXCEPT ![s].served = "none", ![s].pc = "check"]
      PROVE  ScorerIInv'
  <2> DEFINE p == [sc[s] EXCEPT !.served = "none", !.pc = "check"]
  <2>1. sc' = [sc EXCEPT ![s] = p]
    BY <1>0, <1>3
  <2>2. p \in Process /\ Keeps(sc[s], p)
    BY <1>0, <1>3 DEF Process, MainPlace, Keeps, Locked, Closing, Connection
  <2> HIDE DEF p
  <2> QED
    BY <1>3, <2>1, <2>2, OneKeepsIInv
<1>4. CASE ReadRequest(s)
  <2>1. sc[s].pc = "read" /\ UNCHANGED outside
    BY <1>4 DEF ReadRequest, MainAt
  <2>2. \/ MainGoto(s, "post") \/ MainGoto(s, "cas") \/ sc' = sc
        \/ sc' = [sc EXCEPT ![s].served = "none", ![s].pc = "check"]
    BY <1>4 DEF ReadRequest, Respond
  <2>3. CASE sc' = sc
    BY <2>1, <2>3 DEF ScorerIInv, ScorerTypes, LockIsHeld, ProbingIsCleared, Serving, outside
  <2> QED
    BY <1>3, <2>1, <2>2, <2>3, GoingKeepsIInv DEF Locked, Closing
<1>5. CASE WaitReady(s)
  <2>1. sc[s].pc = "wait" /\ UNCHANGED outside
    BY <1>5 DEF WaitReady, MainAt
  <2>2. \/ MainGoto(s, "post")
        \/ sc' = [sc EXCEPT ![s].served = "none", ![s].pc = "check"]
    BY <1>5 DEF WaitReady, Respond
  <2> QED
    BY <1>3, <2>1, <2>2, GoingKeepsIInv DEF Locked, Closing
<1>6. CASE Post(s)
  <2>1. sc[s].pc = "post" /\ UNCHANGED outside
    BY <1>6 DEF Post, MainAt
  <2>2. sc' = [sc EXCEPT ![s].served = "none", ![s].pc = "check"]
    BY <1>6 DEF Post, Respond
  <2> QED
    BY <1>3, <2>1, <2>2
<1> QED
  BY <1>1, <1>2, <1>4, <1>5, <1>6

\* The end of RunServer: nobody else serves when the path is removed.
LEMMA CloseSocketKeepsIInv ==
    ASSUME ScorerIInv, NEW s \in Scorer, CloseSocket(s) PROVE ScorerIInv'
<1>0. /\ sc[s] \in Process /\ sc \in [Scorer -> Process] /\ sc[s].pc = "close"
      /\ socket' = "none" /\ UNCHANGED <<lock, stolen>>
  BY DEF ScorerIInv, ScorerTypes, CloseSocket, MainAt
<1>1. PICK queue \in Seq(Connection) :
        sc' = [sc EXCEPT ![s] = [sc[s] EXCEPT !.queue = queue, !.pc = "stop"]]
  <2>1. << >> \in Seq(Connection) /\ sc[s].queue \in Seq(Connection)
    BY <1>0 DEF Process
  <2>2. CASE sc' = [sc EXCEPT ![s].queue = << >>, ![s].pc = "stop"]
    BY <1>0, <2>1, <2>2
  <2>3. CASE sc' = [sc EXCEPT ![s].pc = "stop"]
    <3>1. [sc[s] EXCEPT !.queue = sc[s].queue, !.pc = "stop"] = [sc[s] EXCEPT !.pc = "stop"]
      BY <1>0 DEF Process
    <3> QED
      BY <1>0, <2>1, <2>3, <3>1
  <2> QED
    BY <2>2, <2>3 DEF CloseSocket, MainGoto
<1> DEFINE p == [sc[s] EXCEPT !.queue = queue, !.pc = "stop"]
<1>2. /\ p \in Process /\ p.pc = "stop" /\ p.guard = sc[s].guard
      /\ p.probing = sc[s].probing /\ p.probe = sc[s].probe
  BY <1>0, <1>1 DEF Process, MainPlace
<1>3. sc' = [sc EXCEPT ![s] = p]
  BY <1>1
<1> HIDE DEF p
<1>4. /\ sc' \in [Scorer -> Process] /\ sc'[s] = p
      /\ \A r \in Scorer \ {s} : sc'[r] = sc[r]
  BY <1>2, <1>3, Becoming DEF ScorerIInv
<1>5. ~stolen => \A r \in Scorer \ {s} : ~Serving(r)
  BY <1>0 DEF ScorerIInv, LockIsHeld, Serving, Locked, Process, MainPlace, ScorerTypes
<1>6. LockIsHeld'
  BY <1>0, <1>2, <1>4, <1>5 DEF ScorerIInv, LockIsHeld, Serving, Locked
<1>7. ProbingIsCleared'
  BY <1>2, <1>4 DEF ScorerIInv, ProbingIsCleared, WillClear
<1> QED
  BY <1>0, <1>4, <1>6, <1>7 DEF ScorerIInv, ScorerTypes

\* What StopLlamaServer leaves alone.
LEMMA KilledIsProcess ==
    ASSUME NEW p \in Process
    PROVE  /\ Killed(p) \in Process
           /\ Killed(p).pc = p.pc /\ Killed(p).guard = p.guard /\ Killed(p).bound = p.bound
           /\ Killed(p).probing = p.probing /\ Killed(p).probe = p.probe
  BY DEF Killed, Process

\* StopLlamaServer by the main thread: no probe is due after it.
LEMMA StopLlamaKeepsIInv ==
    ASSUME ScorerIInv, NEW s \in Scorer, StopLlama(s) PROVE ScorerIInv'
<1> DEFINE k == Killed(sc[s])
           p == [k EXCEPT !.queue = << >>, !.launched = FALSE, !.probing = FALSE,
                          !.ready = FALSE, !.pc = "unlock"]
<1>1. sc[s] \in Process /\ sc[s].pc = "stop" /\ UNCHANGED outside
  BY DEF ScorerIInv, ScorerTypes, StopLlama, MainAt
<1>2. sc' = [sc EXCEPT ![s] = p]
  BY DEF StopLlama
<1>3. /\ k \in Process /\ k.guard = sc[s].guard /\ k.bound = sc[s].bound
  BY <1>1, KilledIsProcess
<1> HIDE DEF k
<1>4. p \in Process /\ Keeps(sc[s], p)
  <2>1. p \in Process
    <3>1. << >> \in Seq(Connection)
      OBVIOUS
    <3> QED
      BY <1>1, <1>3, <3>1 DEF Process, MainPlace
  <2>2. Keeps(sc[s], p)
    BY <1>1, <1>3 DEF Keeps, Locked, Closing, Process
  <2> QED
    BY <2>1, <2>2
<1> HIDE DEF p
<1> QED
  BY <1>1, <1>2, <1>4, OneKeepsIInv

\* main closes the lock file ...
LEMMA UnlockKeepsIInv == ASSUME ScorerIInv, NEW s \in Scorer, Unlock(s) PROVE ScorerIInv'
<1> DEFINE p == [sc[s] EXCEPT !.pc = "unlink"]
<1>0. /\ sc[s] \in Process /\ sc \in [Scorer -> Process] /\ sc[s].pc = "unlock"
      /\ UNCHANGED <<socket, stolen>> /\ lock' = IF lock = s THEN "none" ELSE lock
  BY DEF ScorerIInv, ScorerTypes, Unlock, MainAt
<1>1. /\ p \in Process /\ p.pc = "unlink" /\ p.guard = sc[s].guard
      /\ p.probing = sc[s].probing /\ p.probe = sc[s].probe
  BY <1>0 DEF Process, MainPlace
<1>2. sc' = [sc EXCEPT ![s] = p]
  BY <1>0 DEF Unlock, MainGoto
<1> HIDE DEF p
<1>3. /\ sc' \in [Scorer -> Process] /\ sc'[s] = p
      /\ \A r \in Scorer \ {s} : sc'[r] = sc[r]
  BY <1>1, <1>2, Becoming DEF ScorerIInv
<1>4. LockIsHeld'
  BY <1>0, <1>1, <1>3 DEF ScorerIInv, LockIsHeld, Serving, Locked
<1>5. ProbingIsCleared'
  BY <1>1, <1>3 DEF ScorerIInv, ProbingIsCleared, WillClear
<1> QED
  BY <1>0, <1>3, <1>4, <1>5 DEF ScorerIInv, ScorerTypes

\* ... and removes the file at its path: who has another lock has a file open that
\* goes with it, and then stolen is set.
LEMMA UnlinkLockKeepsIInv ==
    ASSUME ScorerIInv, NEW s \in Scorer, UnlinkLock(s) PROVE ScorerIInv'
<1>0. /\ sc \in [Scorer -> Process] /\ sc[s].pc = "unlink" /\ UNCHANGED socket
  BY DEF ScorerIInv, ScorerTypes, UnlinkLock, MainAt
<1>1. CASE sc[s].guard = "none"
  <2>1. sc' = [sc EXCEPT ![s] = NoScorer] /\ UNCHANGED <<lock, stolen>>
    BY <1>1 DEF UnlinkLock
  <2>2. /\ sc' \in [Scorer -> Process] /\ sc'[s] = NoScorer
        /\ \A r \in Scorer \ {s} : sc'[r] = sc[r]
    BY <2>1, NoScorerIsProcess, Becoming DEF ScorerIInv
  <2> QED
    BY <1>0, <2>1, <2>2, NoScorerIsProcess
    DEF ScorerIInv, ScorerTypes, LockIsHeld, Serving, Locked, ProbingIsCleared, WillClear
<1>2. CASE sc[s].guard # "none"
  <2> DEFINE open == {r \in Scorer \ {s} : sc[r].guard = "path"}
             removed(r) == [sc[r] EXCEPT !.guard = "removed"]
  <2>1. /\ stolen' = (stolen \/ open # {})
        /\ lock' = "none"
        /\ sc' = [r \in Scorer |-> CASE r = s -> NoScorer
                                     [] r \in open -> removed(r)
                                     [] OTHER -> sc[r]]
    BY <1>2 DEF UnlinkLock
  <2>2. \A r \in Scorer :
          /\ removed(r) \in Process
          /\ removed(r).probing = sc[r].probing /\ removed(r).probe = sc[r].probe
    <3> SUFFICES ASSUME NEW r \in Scorer
                 PROVE  /\ removed(r) \in Process
                        /\ removed(r).probing = sc[r].probing /\ removed(r).probe = sc[r].probe
      OBVIOUS
    <3>1. sc[r] \in Process
      BY <1>0
    <3> QED
      BY <3>1 DEF Process
  <2> HIDE DEF removed
  <2>3. /\ sc'[s] = NoScorer
        /\ \A r \in open : sc'[r] = removed(r)
        /\ \A r \in Scorer \ (open \cup {s}) : sc'[r] = sc[r]
    BY <2>1
  <2>4. sc' \in [Scorer -> Process]
    BY <1>0, <2>1, <2>2, NoScorerIsProcess
  <2>5. ProbingIsCleared'
    BY <2>2, <2>3, NoScorerIsProcess DEF ScorerIInv, ProbingIsCleared, WillClear
  <2>6. LockIsHeld'
    <3> SUFFICES ASSUME ~stolen, open = {} PROVE LockIsHeld'
      BY <2>1 DEF LockIsHeld
    <3>1. \A r \in Scorer \ {s} : sc'[r] = sc[r] /\ sc[r].guard # "path"
      BY <2>3
    <3>2. \A r \in Scorer \ {s} : sc[r].pc \notin Locked
      BY <3>1 DEF ScorerIInv, LockIsHeld
    <3> QED
      BY <1>0, <2>3, <3>1, <3>2, NoScorerIsProcess DEF ScorerIInv, LockIsHeld, Serving, Locked
  <2>7. stolen' \in BOOLEAN
    BY <2>1 DEF ScorerIInv, ScorerTypes
  <2> QED
    BY <1>0, <2>1, <2>4, <2>5, <2>6, <2>7 DEF ScorerIInv, ScorerTypes
<1> QED
  BY <1>1, <1>2

-----------------------------------------------------------------------------
\* A probe thread sets the flags of its process and nothing else: it clears
\* g_llama_ready_probe_started before it ends.
LEMMA ProbeKeepsIInv ==
    ASSUME ScorerIInv, NEW s \in Scorer, NEW t \in Thread, ProbeStep(s, t)
    PROVE  ScorerIInv'
<1>0. sc[s] \in Process /\ sc \in [Scorer -> Process] /\ t # 0
  BY ScorerAssumption DEF ScorerIInv, ScorerTypes
<1>1. ASSUME NEW flags \in Process, NEW place \in ProbePlace,
             flags.probe = sc[s].probe, flags.guard = sc[s].guard,
             flags.bound = sc[s].bound, flags.pc = sc[s].pc,
             flags.probing => /\ sc[s].probing
                              /\ place \notin {"none", "reset3"} \/ sc[s].probe[t] = "reset3",
             sc' = [sc EXCEPT ![s] = [flags EXCEPT !.probe[t] = place]]
      PROVE  ScorerIInv'
  <2> DEFINE p == [flags EXCEPT !.probe[t] = place]
  <2>1. /\ p \in Process /\ p.guard = sc[s].guard /\ p.bound = sc[s].bound /\ p.pc = sc[s].pc
        /\ p.probing = flags.probing /\ p.probe[t] = place
        /\ \A u \in Thread \ {t} : p.probe[u] = sc[s].probe[u]
    BY <1>1 DEF Process
  <2> HIDE DEF p
  <2>2. ASSUME p.probing PROVE WillClear(p)
    <3>1. CASE place \notin {"none", "reset3"}
      BY <2>1, <3>1 DEF WillClear
    <3>2. CASE sc[s].probe[t] = "reset3"
      <4>1. PICK u \in Thread : sc[s].probe[u] \notin {"none", "reset3"}
        BY <1>1, <2>1, <2>2 DEF ScorerIInv, ProbingIsCleared, WillClear
      <4>2. u # t
        BY <3>2, <4>1
      <4> QED
        BY <2>1, <4>1, <4>2 DEF WillClear
    <3> QED
      BY <1>1, <2>1, <2>2, <3>1, <3>2
  <2>3. Keeps(sc[s], p)
    BY <2>1, <2>2 DEF Keeps
  <2>4. UNCHANGED outside
    BY DEF ProbeStep, ProbeSucceeds, ProbeEnds, ProbeGivesUp, ProbeStops, ProbeResets, probes
  <2> QED
    BY <1>1, <2>1, <2>3, <2>4, OneKeepsIInv DEF p
<1>2. CASE ProbeSucceeds(s, t)
  <2>1. sc' = [sc EXCEPT ![s] = [sc[s] EXCEPT !.probe[t] = "answered"]]
    BY <1>0, <1>2 DEF ProbeSucceeds
  <2> QED
    BY <1>0, <1>1, <2>1 DEF ProbePlace
<1>3. CASE ProbeEnds(s, t)
  <2>1. CASE /\ sc[s].probe[t] = "answered"
             /\ sc' = [sc EXCEPT ![s].ready = TRUE, ![s].probe[t] = "done"]
    <3> DEFINE flags == [sc[s] EXCEPT !.ready = TRUE]
    <3>1. sc' = [sc EXCEPT ![s] = [flags EXCEPT !.probe[t] = "done"]]
      BY <1>0, <2>1
    <3>2. /\ flags \in Process /\ flags.probe = sc[s].probe /\ flags.guard = sc[s].guard
          /\ flags.bound = sc[s].bound /\ flags.pc = sc[s].pc /\ flags.probing = sc[s].probing
      BY <1>0 DEF Process
    <3> HIDE DEF flags
    <3> QED
      BY <1>1, <3>1, <3>2 DEF ProbePlace
  <2>2. CASE /\ sc[s].probe[t] = "done"
             /\ sc' = [sc EXCEPT ![s].probing = FALSE, ![s].probe[t] = "none"]
    <3> DEFINE flags == [sc[s] EXCEPT !.probing = FALSE]
    <3>1. sc' = [sc EXCEPT ![s] = [flags EXCEPT !.probe[t] = "none"]]
      BY <1>0, <2>2
    <3>2. /\ flags \in Process /\ flags.probe = sc[s].probe /\ flags.guard = sc[s].guard
          /\ flags.bound = sc[s].bound /\ flags.pc = sc[s].pc /\ flags.probing = FALSE
      BY <1>0 DEF Process
    <3> HIDE DEF flags
    <3> QED
      BY <1>1, <3>1, <3>2 DEF ProbePlace
  <2> QED
    BY <1>3, <2>1, <2>2 DEF ProbeEnds
<1>4. CASE ProbeGivesUp(s, t)
  <2>1. sc' = [sc EXCEPT ![s] = [sc[s] EXCEPT !.probe[t] = "stop"]]
    BY <1>0, <1>4 DEF ProbeGivesUp
  <2> QED
    BY <1>0, <1>1, <2>1 DEF ProbePlace
<1>5. CASE ProbeStops(s, t)
  <2> DEFINE k == Killed(sc[s])
             flags == [k EXCEPT !.mutex = t]
  <2>1. k \in Process /\ k.pc = sc[s].pc /\ k.guard = sc[s].guard /\ k.bound = sc[s].bound
        /\ k.probing = sc[s].probing /\ k.probe = sc[s].probe
    BY <1>0, KilledIsProcess
  <2>2. sc' = [sc EXCEPT ![s] = [k EXCEPT !.mutex = t, !.probe[t] = "reset1"]]
    BY <1>5 DEF ProbeStops
  <2> HIDE DEF k
  <2>3. [k EXCEPT !.mutex = t, !.probe[t] = "reset1"] = [flags EXCEPT !.probe[t] = "reset1"]
    BY <2>1
  <2>4. /\ flags \in Process /\ flags.probe = sc[s].probe /\ flags.guard = sc[s].guard
        /\ flags.bound = sc[s].bound /\ flags.pc = sc[s].pc /\ flags.probing = sc[s].probing
    BY <2>1 DEF Process
  <2> HIDE DEF flags
  <2> QED
    BY <1>1, <2>2, <2>3, <2>4 DEF ProbePlace
<1>6. CASE ProbeResets(s, t)
  <2>1. CASE /\ sc[s].probe[t] = "reset1"
             /\ sc' = [sc EXCEPT ![s].launched = FALSE, ![s].probe[t] = "reset2"]
    <3> DEFINE flags == [sc[s] EXCEPT !.launched = FALSE]
    <3>1. sc' = [sc EXCEPT ![s] = [flags EXCEPT !.probe[t] = "reset2"]]
      BY <1>0, <2>1
    <3>2. /\ flags \in Process /\ flags.probe = sc[s].probe /\ flags.guard = sc[s].guard
          /\ flags.bound = sc[s].bound /\ flags.pc = sc[s].pc /\ flags.probing = sc[s].probing
      BY <1>0 DEF Process
    <3> HIDE DEF flags
    <3> QED
      BY <1>1, <3>1, <3>2 DEF ProbePlace
  <2>2. CASE /\ sc[s].probe[t] = "reset2"
             /\ sc' = [sc EXCEPT ![s].probing = FALSE, ![s].probe[t] = "reset3"]
    <3> DEFINE flags == [sc[s] EXCEPT !.probing = FALSE]
    <3>1. sc' = [sc EXCEPT ![s] = [flags EXCEPT !.probe[t] = "reset3"]]
      BY <1>0, <2>2
    <3>2. /\ flags \in Process /\ flags.probe = sc[s].probe /\ flags.guard = sc[s].guard
          /\ flags.bound = sc[s].bound /\ flags.pc = sc[s].pc /\ flags.probing = FALSE
      BY <1>0 DEF Process
    <3> HIDE DEF flags
    <3> QED
      BY <1>1, <3>1, <3>2 DEF ProbePlace
  <2>3. CASE /\ sc[s].probe[t] = "reset3"
             /\ sc' = [sc EXCEPT ![s].ready = FALSE, ![s].mutex = 0, ![s].probe[t] = "none"]
    <3> DEFINE flags == [sc[s] EXCEPT !.ready = FALSE, !.mutex = 0]
    <3>1. sc' = [sc EXCEPT ![s] = [flags EXCEPT !.probe[t] = "none"]]
      BY <1>0, <2>3
    <3>2. /\ flags \in Process /\ flags.probe = sc[s].probe /\ flags.guard = sc[s].guard
          /\ flags.bound = sc[s].bound /\ flags.pc = sc[s].pc /\ flags.probing = sc[s].probing
      BY <1>0 DEF Process
    <3> HIDE DEF flags
    <3> QED
      BY <1>1, <2>3, <3>1, <3>2 DEF ProbePlace
  <2> QED
    BY <1>6, <2>1, <2>2, <2>3 DEF ProbeResets
<1> QED
  BY <1>2, <1>3, <1>4, <1>5, <1>6 DEF ProbeStep

\* llama-server and the signals of the scorer leave the lock and the socket alone.
LEMMA LlamaKeepsIInv ==
    ASSUME ScorerIInv, NEW s \in Scorer, LlamaLoads(s) \/ LlamaEnds(s) \/ Signal(s)
    PROVE  ScorerIInv'
<1>0. sc[s] \in Process /\ sc \in [Scorer -> Process]
  BY DEF ScorerIInv, ScorerTypes
<1>1. UNCHANGED outside
  BY DEF LlamaLoads, LlamaEnds, Signal, probes
<1>2. CASE LlamaLoads(s)
  <2> DEFINE p == [sc[s] EXCEPT !.llama = "ready"]
  <2>1. sc' = [sc EXCEPT ![s] = p]
    BY <1>0, <1>2 DEF LlamaLoads
  <2>2. p \in Process /\ Keeps(sc[s], p)
    BY <1>0 DEF Process, Keeps
  <2> HIDE DEF p
  <2> QED
    BY <1>1, <2>1, <2>2, OneKeepsIInv
<1>3. CASE LlamaEnds(s)
  <2> DEFINE other(child) == IF child = "port" THEN "other" ELSE child
             forked == other(sc[s].forked)
             recorded == other(sc[s].recorded)
             p == [sc[s] EXCEPT !.llama = "none", !.forked = forked, !.recorded = recorded]
  <2>1. sc' = [sc EXCEPT ![s] = p]
    BY <1>0, <1>3 DEF LlamaEnds
  <2>2. {forked, recorded} \subseteq {"none", "port", "other"}
    BY <1>0 DEF Process
  <2> HIDE DEF forked, recorded
  <2>3. p \in Process /\ Keeps(sc[s], p)
    <3>1. p \in Process
      BY <1>0, <2>2 DEF Process
    <3>2. Keeps(sc[s], p)
      BY <1>0 DEF Keeps, Locked, Closing, Process
    <3> QED
      BY <3>1, <3>2
  <2> HIDE DEF p
  <2> QED
    BY <1>1, <2>1, <2>3, OneKeepsIInv
<1>4. CASE Signal(s)
  <2>1. PICK inside \in BOOLEAN :
          sc' = [sc EXCEPT ![s].shutdown = TRUE,
                           ![s].eintr = @ \/ (inside /\ MainAt(s, "read")),
                           ![s].pc = IF inside /\ @ = "accept" THEN "check" ELSE @]
    BY <1>4 DEF Signal
  <2> DEFINE interrupted == sc[s].eintr \/ (inside /\ MainAt(s, "read"))
             place == IF inside /\ sc[s].pc = "accept" THEN "check" ELSE sc[s].pc
             p == [sc[s] EXCEPT !.shutdown = TRUE, !.eintr = interrupted, !.pc = place]
  <2>2. sc' = [sc EXCEPT ![s] = p]
    BY <1>0, <2>1
  <2>3. /\ interrupted \in BOOLEAN /\ place \in MainPlace
        /\ place = sc[s].pc \/ (sc[s].pc = "accept" /\ place = "check")
    BY <1>0 DEF Process, MainPlace
  <2> HIDE DEF interrupted, place
  <2>4. p \in Process /\ Keeps(sc[s], p)
    <3>1. p \in Process
      BY <1>0, <2>3 DEF Process
    <3>2. Keeps(sc[s], p)
      BY <1>0, <2>3 DEF Keeps, Locked, Closing, Process
    <3> QED
      BY <3>1, <3>2
  <2> HIDE DEF p
  <2> QED
    BY <1>1, <2>2, <2>4, OneKeepsIInv
<1> QED
  BY <1>2, <1>3, <1>4

\* With a process that crashes its lock goes, and its socket leads to nobody.
LEMMA CrashKeepsIInv == ASSUME ScorerIInv, NEW s \in Scorer, Crash(s) PROVE ScorerIInv'
<1>1. /\ sc' = [sc EXCEPT ![s] = NoScorer] /\ stolen' = stolen
      /\ lock' = IF lock = s THEN "none" ELSE lock
      /\ socket' = IF socket = s THEN "dead" ELSE socket
  BY DEF Crash
<1>2. /\ sc' \in [Scorer -> Process] /\ sc'[s] = NoScorer
      /\ \A r \in Scorer \ {s} : sc'[r] = sc[r]
  BY <1>1, NoScorerIsProcess, Becoming DEF ScorerIInv
<1>3. LockIsHeld'
  BY <1>1, <1>2, NoScorerIsProcess DEF ScorerIInv, LockIsHeld, Serving, Locked
<1>4. ProbingIsCleared'
  BY <1>2, NoScorerIsProcess DEF ScorerIInv, ProbingIsCleared, WillClear
<1> QED
  BY <1>1, <1>2, <1>3, <1>4 DEF ScorerIInv, ScorerTypes

-----------------------------------------------------------------------------
\* The callers: they connect and start processes.
LEMMA CallerKeepsIInv ==
    ASSUME ScorerIInv, NEW c \in Caller, Convert(c) \/ CallerStep(c) \/ HangUp(c)
    PROVE  ScorerIInv'
<1>0. sc \in [Scorer -> Process]
  BY DEF ScorerIInv, ScorerTypes
<1>1. UNCHANGED outside
  BY DEF Convert, CallerStep, HangUp, TryOpen, Launch, Send, TimeOut, Return
<1>2. ASSUME sc' = sc PROVE ScorerIInv'
  BY <1>0, <1>1, <1>2, KeepingKeepsIInv DEF Keeps
<1>3. ASSUME NEW as \in {"gone", "hung"}, sc' = Left(c, as) PROVE ScorerIInv'
  <2> DEFINE Renamed(x) == IF x = c THEN as ELSE x
             renamed(s) == [i \in DOMAIN sc[s].queue |-> Renamed(sc[s].queue[i])]
             left(s) == [sc[s] EXCEPT !.served = Renamed(sc[s].served), !.queue = renamed(s)]
  <2>1. sc' = [s \in Scorer |-> left(s)]
    BY <1>3 DEF Left
  <2>2. ASSUME NEW s \in Scorer PROVE left(s) \in Process /\ Keeps(sc[s], left(s))
    <3>1. sc[s] \in Process
      BY <1>0
    <3>2. sc[s].served \in Connection /\ sc[s].queue \in Seq(Connection)
      BY <3>1 DEF Process
    <3>3. \A x \in Connection : Renamed(x) \in Connection
      BY DEF Connection
    <3>4. DOMAIN sc[s].queue = 1 .. Len(sc[s].queue) /\ Len(sc[s].queue) \in Nat
      BY <3>2
    <3>5. renamed(s) \in [1 .. Len(sc[s].queue) -> Connection]
      <4>1. \A i \in 1 .. Len(sc[s].queue) : sc[s].queue[i] \in Connection
        BY <3>2
      <4> HIDE DEF Renamed
      <4> QED
        BY <3>3, <3>4, <4>1
    <3>6. renamed(s) \in Seq(Connection)
      <4> HIDE DEF renamed
      <4> QED
        BY <3>4, <3>5, SeqDef
    <3> HIDE DEF Renamed, renamed
    <3> QED
      BY <3>1, <3>2, <3>3, <3>6 DEF Process, Keeps
  <2> HIDE DEF left
  <2> QED
    BY <1>1, <2>1, <2>2, KeepingKeepsIInv
<1>4. CASE TryOpen(c)
  <2>1. CASE Connected(c)
    <3>1. PICK s \in Scorer : sc' = [sc EXCEPT ![s].queue = Append(@, c)]
      BY <2>1 DEF Connected
    <3> DEFINE p == [sc[s] EXCEPT !.queue = Append(sc[s].queue, c)]
    <3>2. sc' = [sc EXCEPT ![s] = p]
      BY <1>0, <3>1
    <3>3. sc[s] \in Process /\ c \in Connection
      BY <1>0 DEF Connection
    <3>4. sc[s].queue \in Seq(Connection)
      BY <3>3 DEF Process
    <3>5. Append(sc[s].queue, c) \in Seq(Connection)
      BY <3>3, <3>4
    <3>6. p \in Process /\ Keeps(sc[s], p)
      BY <3>3, <3>5 DEF Process, Keeps
    <3> HIDE DEF p
    <3> QED
      BY <1>1, <3>2, <3>6, OneKeepsIInv
  <2> QED
    BY <1>2, <1>4, <2>1 DEF TryOpen
<1>5. CASE Launch(c)
  <2>1. CASE sc' = sc
    BY <1>2, <2>1
  <2>2. CASE \E s \in FreePlaces : sc' = [sc EXCEPT ![s].pc = "start"]
    <3>1. PICK s \in Scorer : sc[s] = NoScorer /\ sc' = [sc EXCEPT ![s].pc = "start"]
      BY <2>2 DEF FreePlaces
    <3> DEFINE p == [sc[s] EXCEPT !.pc = "start"]
    <3>2. sc' = [sc EXCEPT ![s] = p]
      BY <1>0, <3>1
    <3>3. sc[s] \in Process /\ sc[s].pc = "none"
      BY <3>1, NoScorerIsProcess
    <3>4. p \in Process /\ Keeps(sc[s], p)
      BY <3>3 DEF Process, Keeps, MainPlace
    <3> HIDE DEF p
    <3> QED
      BY <1>1, <3>2, <3>4, OneKeepsIInv
  <2> QED
    BY <1>5, <2>1, <2>2 DEF Launch
<1> QED
  BY <1>2, <1>3, <1>4, <1>5 DEF Convert, CallerStep, HangUp, Send, TimeOut, Return

\* No process, no socket, no lock.
LEMMA ScorerInitHasIInv == ScorerInit => ScorerIInv
<1> SUFFICES ASSUME ScorerInit PROVE ScorerIInv
  OBVIOUS
<1>1. \A s \in Scorer : sc[s] = NoScorer
  BY DEF ScorerInit
<1>2. ScorerTypes
  BY NoScorerIsProcess DEF ScorerInit, ScorerTypes
<1> QED
  BY <1>1, <1>2, NoScorerIsProcess
  DEF ScorerIInv, LockIsHeld, Serving, Locked, ProbingIsCleared

\* The invariant holds in every state, whatever faults there are.
THEOREM ScorerInvariant == ScorerSpec => []ScorerIInv
<1>1. ScorerIInv /\ [ScorerNext]_scorerVars => ScorerIInv'
  <2> SUFFICES ASSUME ScorerIInv, [ScorerNext]_scorerVars PROVE ScorerIInv'
    OBVIOUS
  <2>1. ASSUME UNCHANGED <<sc, outside>> PROVE ScorerIInv'
    BY <2>1, KeepingKeepsIInv DEF Keeps, ScorerIInv, ScorerTypes
  <2>2. CASE UNCHANGED scorerVars
    BY <2>1, <2>2 DEF scorerVars, outside
  <2>3. CASE TwoSecondsPass
    BY <2>1, <2>3 DEF TwoSecondsPass
  <2>4. ASSUME NEW s \in Scorer, MainStep(s) PROVE ScorerIInv'
    BY <2>4, StartKeepsIInv, LockFileKeepsIInv, LaunchingKeepsIInv, StartProbeKeepsIInv,
       BindKeepsIInv, ServingKeepsIInv, CloseSocketKeepsIInv, StopLlamaKeepsIInv,
       UnlockKeepsIInv, UnlinkLockKeepsIInv
    DEF MainStep
  <2> QED
    BY <2>2, <2>3, <2>4, ProbeKeepsIInv, LlamaKeepsIInv, CrashKeepsIInv, CallerKeepsIInv
    DEF ScorerNext, Probing
<1> QED
  BY <1>1, ScorerInitHasIInv, PTL DEF ScorerSpec

\* A scorer that serves is the one the socket path leads to, although another may be
\* starting or ending: unless the lock file was removed under a third one.
THEOREM ScorerIsReachable == ScorerSpec => []ServingIsReachable
<1>1. ScorerIInv => ServingIsReachable
  BY DEF ScorerIInv, LockIsHeld, ServingIsReachable
<1> QED
  BY <1>1, ScorerInvariant, PTL

\* g_llama_ready_probe_started is set only while a thread probes that will clear it.
THEOREM ProbingAlwaysHasThread == ScorerSpec => []ProbingHasThread
<1>1. ScorerIInv => ProbingHasThread
  BY DEF ScorerIInv, ProbingIsCleared, WillClear, ProbingHasThread
<1> QED
  BY <1>1, ScorerInvariant, PTL
-----------------------------------------------------------------------------
(***************************************************************************)
(* The calls: every open one is at one place of the process it goes to.    *)
(***************************************************************************)
CallTypes ==
    /\ caller \in [Caller -> Call] /\ throttled \in BOOLEAN
    /\ scorerFaults \in 0 .. scorerBound.faults /\ scorerBound \in ScorerBounds

\* The connections a process has: the one it serves and those it has not accepted,
\* none twice.
Has(p, c) == p.served = c \/ \E i \in DOMAIN p.queue : p.queue[i] = c
HasOnce(p) ==
    \A c \in Caller :
        /\ p.served = c => \A i \in DOMAIN p.queue : p.queue[i] # c
        /\ \A i, j \in DOMAIN p.queue : p.queue[i] = c /\ p.queue[j] = c => i = j

\* Where the main thread may be with them: it has none before the socket is bound,
\* serves none in accept and has none left once llama-server is stopped.
Ended == {"stop", "unlock", "unlink"}
FitsItsPlace(p) ==
    /\ p.pc \in {"none", "start", "lock", "bind"} => ~p.bound
    /\ ~p.bound => p.served = "none" /\ p.queue = << >>
    /\ p.pc \in {"check", "accept", "close"} => p.served = "none"
    /\ p.pc \in Ended => p.served = "none"
    /\ p.pc \in {"unlock", "unlink"} => p.queue = << >>
    /\ Len(p.queue) <= Backlog
Listening(p) == p.bound /\ p.pc \notin Ended

\* A caller that is connected is served by, or in the queue of, the process it
\* connected to and no other; who is not connected is nowhere.
Open(call) == call.at \in {"connected", "sent"}
HeldAtOnePlace(call, c) ==
    /\ IF Open(call) THEN call.to \in Scorer ELSE call.to = "none"
    /\ \A s \in Scorer : Has(sc[s], c) <=> call.to = s

CallIInv ==
    /\ CallTypes
    /\ \A s \in Scorer : FitsItsPlace(sc[s]) /\ HasOnce(sc[s])
    /\ socket \in Scorer => Listening(sc[socket])
    /\ \A c \in Caller : HeldAtOnePlace(caller[c], c)

\* A process becomes another and only its own connections change.
LEMMA ProcessGoesOn ==
    ASSUME CallIInv, CallTypes', NEW s \in Scorer,
           \A r \in Scorer \ {s} : sc'[r] = sc[r],
           FitsItsPlace(sc'[s]), HasOnce(sc'[s]),
           \/ socket' = socket /\ (socket = s /\ Listening(sc[s]) => Listening(sc'[s]))
           \/ socket' = s /\ Listening(sc'[s])
           \/ socket' \in {"none", "dead"},
           \A c \in Caller :
               /\ IF Open(caller'[c]) THEN caller'[c].to \in Scorer ELSE caller'[c].to = "none"
               /\ Has(sc'[s], c) <=> caller'[c].to = s
               /\ caller'[c].to # caller[c].to => {caller'[c].to, caller[c].to} = {s, "none"}
    PROVE  CallIInv'
<1>1. "none" \notin Scorer /\ "dead" \notin Scorer
  BY ScorerAssumption
<1>2. \A r \in Scorer : FitsItsPlace(sc'[r]) /\ HasOnce(sc'[r])
  BY DEF CallIInv
<1>3. socket' \in Scorer => Listening(sc'[socket'])
  BY <1>1 DEF CallIInv
<1>4. ASSUME NEW c \in Caller, NEW r \in Scorer PROVE Has(sc'[r], c) <=> caller'[c].to = r
  <2>1. CASE r = s
    BY <2>1
  <2>2. CASE r # s
    <3>1. Has(sc'[r], c) <=> caller[c].to = r
      BY <2>2 DEF CallIInv, HeldAtOnePlace
    <3> QED
      BY <1>1, <2>2, <3>1
  <2> QED
    BY <2>1, <2>2
<1>5. \A c \in Caller : HeldAtOnePlace(caller[c], c)'
  BY <1>4 DEF HeldAtOnePlace
<1> QED
  BY <1>2, <1>3, <1>5 DEF CallIInv

\* It keeps its connections.
LEMMA MainGoesOn ==
    ASSUME CallIInv, CallTypes', caller' = caller, NEW s \in Scorer,
           \A r \in Scorer \ {s} : sc'[r] = sc[r],
           sc'[s].served = sc[s].served, sc'[s].queue = sc[s].queue,
           FitsItsPlace(sc'[s]),
           \/ socket' = socket /\ (socket = s /\ Listening(sc[s]) => Listening(sc'[s]))
           \/ socket' = s /\ Listening(sc'[s])
           \/ socket' \in {"none", "dead"}
    PROVE  CallIInv'
<1> DEFINE p == sc[s]
           q == sc'[s]
<1>1. HasOnce(p) /\ \A c \in Caller : Has(q, c) <=> Has(p, c)
  BY DEF CallIInv, Has
<1>2. HasOnce(q)
  BY <1>1 DEF HasOnce
<1>3. \A c \in Caller :
        /\ IF Open(caller'[c]) THEN caller'[c].to \in Scorer ELSE caller'[c].to = "none"
        /\ Has(sc'[s], c) <=> caller'[c].to = s
        /\ caller'[c].to = caller[c].to
  BY <1>1 DEF CallIInv, HeldAtOnePlace
<1> QED
  BY <1>2, <1>3, ProcessGoesOn

\* Every step counts its fault and leaves the bounds alone.
LEMMA FaultsAreCounted ==
    ASSUME CallTypes, ScorerNext
    PROVE  /\ throttled' \in BOOLEAN
           /\ scorerFaults' \in 0 .. scorerBound'.faults /\ scorerBound' \in ScorerBounds
<1>1. scorerBound' = scorerBound
  BY DEF ScorerNext
<1>2. throttled' \in {throttled, TRUE, FALSE} /\ (ScorerFault \/ Faultless)
  <2>1. ASSUME NEW s \in Scorer, MainStep(s)
        PROVE  throttled' = throttled /\ (ScorerFault \/ Faultless)
    BY <2>1 DEF MainStep, Start, LockFile, StartLlama, ForkLlama, RecordLlama, StartProbe, Bind,
      Check, Accept, ReadRequest, WaitReady, Post, CloseSocket, StopLlama, Unlock, UnlinkLock
  <2>2. ASSUME NEW s \in Scorer, NEW t \in Thread, ProbeStep(s, t)
        PROVE  throttled' = throttled /\ (ScorerFault \/ Faultless)
    BY <2>2 DEF ProbeStep, ProbeSucceeds, ProbeEnds, ProbeGivesUp, ProbeStops, ProbeResets, probes
  <2>3. ASSUME NEW s \in Scorer, LlamaLoads(s) \/ LlamaEnds(s) \/ Signal(s) \/ Crash(s)
        PROVE  throttled' = throttled /\ (ScorerFault \/ Faultless)
    BY <2>3 DEF LlamaLoads, LlamaEnds, Signal, Crash, probes
  <2>4. ASSUME NEW c \in Caller, Convert(c) \/ CallerStep(c) \/ HangUp(c)
        PROVE  throttled' \in {throttled, TRUE} /\ (ScorerFault \/ Faultless)
    BY <2>4 DEF Convert, CallerStep, HangUp, TryOpen, Launch, Send, TimeOut, Return
  <2>5. ASSUME TwoSecondsPass PROVE throttled' = FALSE /\ (ScorerFault \/ Faultless)
    BY <2>5 DEF TwoSecondsPass
  <2> QED
    BY <2>1, <2>2, <2>3, <2>4, <2>5 DEF ScorerNext, Probing
<1>3. throttled' \in BOOLEAN
  BY <1>2 DEF CallTypes
<1>4. scorerFaults' \in 0 .. scorerBound.faults
  <2>1. scorerBound.faults \in Nat
    BY ScorerAssumption DEF CallTypes
  <2>2. scorerFaults' = scorerFaults
        \/ (scorerFaults < scorerBound.faults /\ scorerFaults' = scorerFaults + 1)
    BY <1>2 DEF ScorerFault, Faultless
  <2> QED
    BY <2>1, <2>2 DEF CallTypes
<1> QED
  BY <1>1, <1>3, <1>4 DEF CallTypes

\* The main thread starts, launches llama-server, probes, looks for a signal and ends.
LEMMA MainKeepsCalls ==
    ASSUME ScorerTypes, CallIInv, CallTypes', NEW s \in Scorer,
           \/ Start(s) \/ StartLlama(s) \/ ForkLlama(s) \/ RecordLlama(s) \/ StartProbe(s)
           \/ Check(s) \/ Unlock(s)
    PROVE  CallIInv'
<1>1. sc \in [Scorer -> Process] /\ sc[s] \in Process
  BY DEF ScorerTypes
<1>2. UNCHANGED <<socket, caller>>
  BY DEF Start, StartLlama, ForkLlama, RecordLlama, StartProbe, Check, Unlock, outside
<1>3. FitsItsPlace(sc[s])
  BY DEF CallIInv
<1> DEFINE Goes == /\ \A r \in Scorer \ {s} : sc'[r] = sc[r]
                   /\ sc'[s].served = sc[s].served /\ sc'[s].queue = sc[s].queue
                   /\ sc'[s].bound = sc[s].bound
<1>4. CASE Start(s)
  <2>1. Goes /\ sc[s].pc = "start" /\ sc'[s].pc \in {"lock", "cas"}
    BY <1>1, <1>4 DEF Start, MainGoto, MainAt, Process
  <2> QED
    BY <1>2, <1>3, <2>1, MainGoesOn DEF FitsItsPlace, Listening, Ended
<1>5. CASE StartLlama(s)
  <2>1. /\ Goes /\ sc[s].pc = "cas" /\ sc'[s].pc \in {"probe", "fork", "stop"}
        /\ sc'[s].pc = "stop" => ~sc[s].bound
    BY <1>1, <1>5 DEF StartLlama, MainGoto, MainAt, Process
  <2> QED
    BY <1>2, <1>3, <2>1, MainGoesOn DEF FitsItsPlace, Listening, Ended
<1>6. CASE ForkLlama(s)
  <2>1. Goes /\ sc[s].pc = "fork" /\ sc'[s].pc \in {"record", LlamaStarted(s)}
    BY <1>1, <1>6 DEF ForkLlama, MainAt, Process
  <2> QED
    BY <1>2, <1>3, <2>1, MainGoesOn DEF FitsItsPlace, Listening, Ended, LlamaStarted
<1>7. CASE RecordLlama(s)
  <2>1. Goes /\ sc[s].pc = "record" /\ sc'[s].pc = "probe"
    BY <1>1, <1>7 DEF RecordLlama, MainAt, Process
  <2> QED
    BY <1>2, <1>3, <2>1, MainGoesOn DEF FitsItsPlace, Listening, Ended
<1>8. CASE StartProbe(s)
  <2> DEFINE next == IF MainAt(s, "probe") THEN LlamaStarted(s) ELSE "wait"
  <2>1. /\ sc[s].pc \in {"probe", "probe2"}
        /\ \/ MainGoto(s, next)
           \/ \E t : sc' = [sc EXCEPT ![s].probing = TRUE, ![s].probe[t] = "try", ![s].pc = next]
    BY <1>8 DEF StartProbe
  <2>2. next \in {"bind", "probe2", "wait"} /\ (next = "bind" => ~sc[s].bound)
    BY DEF LlamaStarted
  <2> HIDE DEF next
  <2>3. CASE MainGoto(s, next)
    <3>1. Goes /\ sc'[s].pc = next
      BY <1>1, <2>3 DEF MainGoto, Process
    <3> QED
      BY <1>2, <1>3, <2>1, <2>2, <3>1, MainGoesOn DEF FitsItsPlace, Listening, Ended
  <2>4. ASSUME NEW t, sc' = [sc EXCEPT ![s].probing = TRUE, ![s].probe[t] = "try", ![s].pc = next]
        PROVE  CallIInv'
    <3>1. Goes /\ sc'[s].pc = next
      BY <1>1, <2>4 DEF Process
    <3> QED
      BY <1>2, <1>3, <2>1, <2>2, <3>1, MainGoesOn DEF FitsItsPlace, Listening, Ended
  <2> QED
    BY <2>1, <2>3, <2>4
<1>9. CASE Check(s)
  <2>1. Goes /\ sc[s].pc = "check" /\ sc'[s].pc \in {"close", "accept"}
    BY <1>1, <1>9 DEF Check, MainGoto, MainAt, Process
  <2> QED
    BY <1>2, <1>3, <2>1, MainGoesOn DEF FitsItsPlace, Listening, Ended
<1>10. CASE Unlock(s)
  <2>1. Goes /\ sc[s].pc = "unlock" /\ sc'[s].pc = "unlink"
    BY <1>1, <1>10 DEF Unlock, MainGoto, MainAt, Process
  <2> QED
    BY <1>2, <1>3, <2>1, MainGoesOn DEF FitsItsPlace, Listening, Ended
<1> QED
  BY <1>4, <1>5, <1>6, <1>7, <1>8, <1>9, <1>10

\* Probe threads, llama-server and signals.
LEMMA OthersKeepCalls ==
    ASSUME ScorerTypes, CallIInv, CallTypes', NEW s \in Scorer,
           \/ \E t \in Thread : ProbeStep(s, t)
           \/ LlamaLoads(s) \/ LlamaEnds(s) \/ Signal(s)
    PROVE  CallIInv'
<1>1. sc \in [Scorer -> Process] /\ sc[s] \in Process
  BY DEF ScorerTypes
<1>2. UNCHANGED <<socket, caller>>
  BY DEF ProbeStep, ProbeSucceeds, ProbeEnds, ProbeGivesUp, ProbeStops, ProbeResets, LlamaLoads,
         LlamaEnds, Signal, probes, outside
<1>3. FitsItsPlace(sc[s])
  BY DEF CallIInv
<1> DEFINE Goes == /\ \A r \in Scorer \ {s} : sc'[r] = sc[r]
                   /\ sc'[s].served = sc[s].served /\ sc'[s].queue = sc[s].queue
                   /\ sc'[s].bound = sc[s].bound
           Stays == Goes /\ sc'[s].pc = sc[s].pc
<1>4. ASSUME Stays PROVE CallIInv'
  BY <1>2, <1>3, <1>4, MainGoesOn DEF FitsItsPlace, Listening
<1>5. ASSUME NEW t \in Thread, ProbeStep(s, t) PROVE Stays
  <2>1. CASE ProbeSucceeds(s, t) \/ ProbeEnds(s, t) \/ ProbeGivesUp(s, t)
    BY <1>1, <2>1 DEF ProbeSucceeds, ProbeEnds, ProbeGivesUp, Process
  <2>2. CASE ProbeStops(s, t)
    BY <1>1, <2>2 DEF ProbeStops, Killed, Process
  <2>3. CASE ProbeResets(s, t)
    BY <1>1, <2>3 DEF ProbeResets, Process
  <2> QED
    BY <1>5, <2>1, <2>2, <2>3 DEF ProbeStep
<1>6. CASE LlamaLoads(s) \/ LlamaEnds(s)
  <2>1. Stays
    BY <1>1, <1>6 DEF LlamaLoads, LlamaEnds, Process
  <2> QED
    BY <1>4, <2>1
<1>7. CASE Signal(s)
  <2>1. Goes /\ (sc'[s].pc = sc[s].pc \/ (sc[s].pc = "accept" /\ sc'[s].pc = "check"))
    <3>1. PICK inside \in BOOLEAN :
            sc' = [sc EXCEPT ![s].shutdown = TRUE,
                             ![s].eintr = @ \/ (inside /\ MainAt(s, "read")),
                             ![s].pc = IF inside /\ @ = "accept" THEN "check" ELSE @]
      BY <1>7 DEF Signal
    <3> DEFINE interrupted == sc[s].eintr \/ (inside /\ MainAt(s, "read"))
               place == IF inside /\ sc[s].pc = "accept" THEN "check" ELSE sc[s].pc
    <3>2. sc' = [sc EXCEPT ![s].shutdown = TRUE, ![s].eintr = interrupted, ![s].pc = place]
      BY <1>1, <3>1
    <3>3. place = sc[s].pc \/ (sc[s].pc = "accept" /\ place = "check")
      OBVIOUS
    <3> HIDE DEF interrupted, place
    <3> QED
      BY <1>1, <3>2, <3>3 DEF Process
  <2> QED
    BY <1>2, <1>3, <2>1, MainGoesOn DEF FitsItsPlace, Listening, Ended
<1> QED
  BY <1>4, <1>5, <1>6, <1>7

\* Callers whose connection is closed are connected no more.
LEMMA CutOffIsClosed ==
    ASSUME CallIInv, NEW s \in Scorer, caller' = CutOff(s), NEW c \in Caller
    PROVE  /\ IF Open(caller'[c]) THEN caller'[c].to \in Scorer ELSE caller'[c].to = "none"
           /\ caller'[c].to # s
           /\ caller'[c].to # caller[c].to => {caller'[c].to, caller[c].to} = {s, "none"}
<1>1. "none" \notin Scorer
  BY ScorerAssumption
<1>2. IF Open(caller[c]) THEN caller[c].to \in Scorer ELSE caller[c].to = "none"
  BY DEF CallIInv, HeldAtOnePlace
<1>3. CASE caller[c].to = s
  <2>1. caller'[c] = [NoCall EXCEPT !.at = "failed"]
    BY <1>1, <1>2, <1>3 DEF CutOff, Open
  <2> QED
    BY <1>1, <1>3, <2>1 DEF NoCall, Open
<1>4. CASE caller[c].to # s
  BY <1>2, <1>4 DEF CutOff
<1> QED
  BY <1>3, <1>4

\* The lock is taken or the process ends; a crash ends it at any place.
LEMMA EndingKeepsCalls ==
    ASSUME ScorerTypes, CallIInv, CallTypes', NEW s \in Scorer,
           LockFile(s) \/ UnlinkLock(s) \/ Crash(s)
    PROVE  CallIInv'
<1>1. sc \in [Scorer -> Process] /\ sc[s] \in Process
  BY DEF ScorerTypes
<1>2. /\ NoScorer.pc = "none" /\ NoScorer.served = "none" /\ NoScorer.queue = << >>
      /\ NoScorer.bound = FALSE
  BY DEF NoScorer
<1>3. FitsItsPlace(NoScorer)
  BY <1>2, ScorerAssumption DEF FitsItsPlace, Ended
<1>4. FitsItsPlace(sc[s])
  BY DEF CallIInv
<1>5. ASSUME \A r \in Scorer \ {s} : sc'[r] = sc[r], sc'[s] = NoScorer, caller' = caller,
             socket' = socket, sc[s].pc \in {"lock", "unlink"}
      PROVE  CallIInv'
  BY <1>2, <1>3, <1>4, <1>5, MainGoesOn DEF FitsItsPlace, Listening, Ended
<1>6. CASE LockFile(s)
  <2>1. sc[s].pc = "lock" /\ socket' = socket /\ caller' = caller
    BY <1>6 DEF LockFile, MainAt
  <2>2. CASE sc' = [sc EXCEPT ![s] = NoScorer]
    BY <1>1, <1>5, <2>1, <2>2
  <2>3. CASE MainGoto(s, "cas")
    <3>1. /\ \A r \in Scorer \ {s} : sc'[r] = sc[r]
          /\ sc'[s].served = sc[s].served /\ sc'[s].queue = sc[s].queue
          /\ sc'[s].bound = sc[s].bound /\ sc'[s].pc = "cas"
      BY <1>1, <2>3 DEF MainGoto, Process
    <3> QED
      BY <1>4, <2>1, <3>1, MainGoesOn DEF FitsItsPlace, Listening, Ended
  <2> QED
    BY <1>6, <2>2, <2>3 DEF LockFile
<1>7. CASE UnlinkLock(s)
  <2>1. sc[s].pc = "unlink" /\ socket' = socket /\ caller' = caller
    BY <1>7 DEF UnlinkLock, MainAt
  <2>2. CASE sc[s].guard = "none"
    BY <1>1, <1>5, <1>7, <2>1, <2>2 DEF UnlinkLock
  <2>3. CASE sc[s].guard # "none"
    <3> DEFINE open == {r \in Scorer \ {s} : sc[r].guard = "path"}
    <3>1. sc' = [r \in Scorer |-> CASE r = s -> NoScorer
                                    [] r \in open -> [sc[r] EXCEPT !.guard = "removed"]
                                    [] OTHER -> sc[r]]
      BY <1>7, <2>3 DEF UnlinkLock
    <3>2. sc'[s] = NoScorer
      BY <3>1
    <3>3. ASSUME NEW r \in Scorer \ {s}
          PROVE  /\ sc'[r].served = sc[r].served /\ sc'[r].queue = sc[r].queue
                 /\ sc'[r].bound = sc[r].bound /\ sc'[r].pc = sc[r].pc
      <4>1. sc[r] \in Process
        BY <1>1
      <4>2. sc'[r] \in {sc[r], [sc[r] EXCEPT !.guard = "removed"]}
        BY <3>1
      <4> QED
        BY <4>1, <4>2 DEF Process
    <3>4. sc[s].served = "none" /\ sc[s].queue = << >>
      BY <1>4, <2>1 DEF FitsItsPlace, Ended
    <3>5. \A r \in Scorer : FitsItsPlace(sc'[r])
      BY <1>3, <3>2, <3>3 DEF CallIInv, FitsItsPlace
    <3>6. \A r \in Scorer : HasOnce(sc'[r])
      BY <1>2, <3>2, <3>3, <3>4 DEF CallIInv, HasOnce
    <3>7. \A r \in Scorer, c \in Caller : Has(sc'[r], c) <=> Has(sc[r], c)
      BY <1>2, <3>2, <3>3, <3>4 DEF Has
    <3>8. socket \in Scorer => Listening(sc'[socket])
      BY <2>1, <3>3 DEF CallIInv, Listening, Ended
    <3>9. \A c \in Caller : HeldAtOnePlace(caller[c], c)'
      BY <2>1, <3>7 DEF CallIInv, HeldAtOnePlace
    <3> QED
      BY <2>1, <3>5, <3>6, <3>8, <3>9 DEF CallIInv
  <2> QED
    BY <2>2, <2>3
<1>8. CASE Crash(s)
  <2>1. /\ sc' = [sc EXCEPT ![s] = NoScorer] /\ caller' = CutOff(s)
        /\ socket' = (IF socket = s THEN "dead" ELSE socket)
    BY <1>8 DEF Crash
  <2>2. /\ \A r \in Scorer \ {s} : sc'[r] = sc[r]
        /\ sc'[s] = NoScorer
    BY <1>1, <2>1
  <2>3. HasOnce(sc'[s]) /\ \A c \in Caller : ~Has(sc'[s], c)
    BY <1>2, <2>2, ScorerAssumption DEF HasOnce, Has
  <2>4. \/ socket' = socket /\ socket # s
        \/ socket' = "dead"
    BY <2>1
  <2> QED
    BY <1>3, <2>1, <2>2, <2>3, <2>4, CutOffIsClosed, ProcessGoesOn
<1> QED
  BY <1>6, <1>7, <1>8

\* The socket is bound, before which nobody could connect, closed, and forgotten by
\* llama-server.
LEMMA SocketKeepsCalls ==
    ASSUME ScorerTypes, CallIInv, CallTypes', NEW s \in Scorer,
           Bind(s) \/ CloseSocket(s) \/ StopLlama(s)
    PROVE  CallIInv'
<1>1. sc \in [Scorer -> Process] /\ sc[s] \in Process
  BY DEF ScorerTypes
<1>2. FitsItsPlace(sc[s])
  BY DEF CallIInv
<1>3. CASE Bind(s)
  <2>1. sc[s].pc = "bind" /\ caller' = caller
    BY <1>3 DEF Bind, MainAt
  <2>2. ~sc[s].bound /\ sc[s].served = "none" /\ sc[s].queue = << >> /\ ~Listening(sc[s])
    BY <1>2, <2>1 DEF FitsItsPlace, Listening
  <2>3. \/ /\ socket' = s /\ sc' = [sc EXCEPT ![s].bound = TRUE, ![s].pc = "check"]
        \/ /\ socket' \in {socket, "none", "dead"} /\ sc' = [sc EXCEPT ![s].pc = "stop"]
    BY <1>3 DEF Bind, MainGoto
  <2>4. /\ \A r \in Scorer \ {s} : sc'[r] = sc[r]
        /\ sc'[s].served = sc[s].served /\ sc'[s].queue = sc[s].queue
        /\ \/ socket' = s /\ sc'[s].bound /\ sc'[s].pc = "check"
           \/ /\ socket' \in {socket, "none", "dead"}
              /\ sc'[s].bound = sc[s].bound /\ sc'[s].pc = "stop"
    BY <1>1, <2>3 DEF Process
  <2>5. FitsItsPlace(sc'[s])
    BY <1>2, <2>2, <2>4 DEF FitsItsPlace, Ended
  <2>6. \/ socket' = socket /\ ~Listening(sc[s])
        \/ socket' = s /\ Listening(sc'[s])
        \/ socket' \in {"none", "dead"}
    BY <2>2, <2>4 DEF Listening, Ended
  <2> QED
    BY <2>1, <2>4, <2>5, <2>6, MainGoesOn
<1>4. ASSUME NEW place \in {"stop", "unlock"}, sc[s].served = "none", caller' = CutOff(s),
             \A r \in Scorer \ {s} : sc'[r] = sc[r],
             sc'[s].served = sc[s].served, sc'[s].queue = << >>, sc'[s].pc = place,
             sc'[s].bound = sc[s].bound,
             socket' = "none" \/ (socket' = socket /\ ~Listening(sc[s]))
      PROVE  CallIInv'
  <2>1. FitsItsPlace(sc'[s])
    BY <1>4, ScorerAssumption DEF FitsItsPlace
  <2>2. HasOnce(sc'[s]) /\ \A c \in Caller : ~Has(sc'[s], c)
    BY <1>4, ScorerAssumption DEF HasOnce, Has
  <2> QED
    BY <1>4, <2>1, <2>2, CutOffIsClosed, ProcessGoesOn
<1>5. CASE CloseSocket(s)
  <2>1. sc[s].pc = "close" /\ socket' = "none" /\ sc[s].served = "none"
    BY <1>2, <1>5 DEF CloseSocket, MainAt, FitsItsPlace
  <2>2. CASE sc' = [sc EXCEPT ![s].queue = << >>, ![s].pc = "stop"] /\ caller' = CutOff(s)
    <3>1. /\ \A r \in Scorer \ {s} : sc'[r] = sc[r]
          /\ sc'[s].served = sc[s].served /\ sc'[s].queue = << >> /\ sc'[s].pc = "stop"
          /\ sc'[s].bound = sc[s].bound
      BY <1>1, <2>2 DEF Process
    <3> QED
      BY <1>4, <2>1, <2>2, <3>1
  <2>3. CASE sc' = [sc EXCEPT ![s].pc = "stop"] /\ caller' = caller
    <3>1. /\ \A r \in Scorer \ {s} : sc'[r] = sc[r]
          /\ sc'[s].served = sc[s].served /\ sc'[s].queue = sc[s].queue /\ sc'[s].pc = "stop"
          /\ sc'[s].bound = sc[s].bound
      BY <1>1, <2>3 DEF Process
    <3>2. FitsItsPlace(sc'[s])
      BY <1>2, <2>1, <3>1 DEF FitsItsPlace
    <3> QED
      BY <2>1, <2>3, <3>1, <3>2, MainGoesOn
  <2> QED
    BY <1>5, <2>2, <2>3 DEF CloseSocket, MainGoto
<1>6. CASE StopLlama(s)
  <2> DEFINE k == Killed(sc[s])
             p == [k EXCEPT !.queue = << >>, !.launched = FALSE, !.probing = FALSE,
                            !.ready = FALSE, !.pc = "unlock"]
  <2>1. /\ sc[s].pc = "stop" /\ socket' = socket /\ caller' = CutOff(s)
        /\ sc' = [sc EXCEPT ![s] = p]
    BY <1>6 DEF StopLlama, MainAt, outside
  <2>2. sc[s].served = "none" /\ ~Listening(sc[s])
    BY <1>2, <2>1 DEF FitsItsPlace, Listening, Ended
  <2>3. /\ p.served = sc[s].served /\ p.queue = << >> /\ p.pc = "unlock"
        /\ p.bound = sc[s].bound
    BY <1>1 DEF Killed, Process
  <2> HIDE DEF p
  <2>4. sc'[s] = p /\ \A r \in Scorer \ {s} : sc'[r] = sc[r]
    BY <1>1, <2>1
  <2> QED
    BY <1>4, <2>1, <2>2, <2>3, <2>4
<1> QED
  BY <1>3, <1>5, <1>6

\* A connection is accepted: it was in the queue and is served now.
LEMMA AcceptKeepsCalls ==
    ASSUME ScorerTypes, CallIInv, CallTypes', NEW s \in Scorer, Accept(s) PROVE CallIInv'
<1> DEFINE queue == sc[s].queue
<1>1. /\ sc \in [Scorer -> Process] /\ sc[s] \in Process
      /\ FitsItsPlace(sc[s]) /\ HasOnce(sc[s])
  BY DEF ScorerTypes, CallIInv
<1>2. /\ sc[s].pc = "accept" /\ queue # << >> /\ caller' = caller /\ socket' = socket
      /\ sc' = [sc EXCEPT ![s].served = Head(queue), ![s].queue = Tail(queue), ![s].pc = "read"]
  BY <1>1 DEF Accept, MainAt, outside
<1>3. sc[s].served = "none" /\ sc[s].bound
  BY <1>1, <1>2 DEF FitsItsPlace
<1>4. /\ \A r \in Scorer \ {s} : sc'[r] = sc[r]
      /\ sc'[s].served = Head(queue) /\ sc'[s].queue = Tail(queue) /\ sc'[s].pc = "read"
      /\ sc'[s].bound = sc[s].bound
  BY <1>1, <1>2 DEF Process
<1>5. queue \in Seq(Connection)
  BY <1>1 DEF Process
<1> DEFINE n == Len(queue)
           rest == Tail(queue)
<1>6. /\ n \in Nat /\ n > 0 /\ DOMAIN queue = 1 .. n /\ Head(queue) = queue[1]
      /\ DOMAIN rest = 1 .. n - 1 /\ Len(rest) = n - 1
      /\ \A i \in 1 .. n - 1 : rest[i] = queue[i + 1]
  BY <1>2, <1>5
<1>7. n <= Backlog /\ Backlog \in Nat
  BY <1>1, ScorerAssumption DEF FitsItsPlace
<1>8. FitsItsPlace(sc'[s])
  <2>1. Len(sc'[s].queue) <= Backlog
    BY <1>4, <1>6, <1>7
  <2> QED
    BY <1>3, <1>4, <2>1 DEF FitsItsPlace, Ended
<1> HIDE DEF n, rest, queue
<1>9. \A c \in Caller : \A i, j \in 1 .. n : queue[i] = c /\ queue[j] = c => i = j
  BY <1>1, <1>6 DEF HasOnce, queue
<1>10. \A c \in Caller : c # "none"
  BY ScorerAssumption
<1>11. \A c \in Caller : Has(sc[s], c) <=> (\E i \in 1 .. n : queue[i] = c)
  BY <1>3, <1>6, <1>10 DEF Has, queue
<1>12. /\ sc'[s].served = queue[1] /\ DOMAIN sc'[s].queue = 1 .. n - 1
       /\ \A i \in 1 .. n - 1 : sc'[s].queue[i] = queue[i + 1]
  BY <1>4, <1>6 DEF rest
<1>13. \A c \in Caller :
           Has(sc'[s], c) <=> (queue[1] = c \/ \E i \in 1 .. n - 1 : queue[i + 1] = c)
  BY <1>12 DEF Has
<1>14. HasOnce(sc'[s])
  <2> SUFFICES ASSUME NEW c \in Caller
               PROVE  /\ queue[1] = c => \A i \in 1 .. n - 1 : queue[i + 1] # c
                      /\ \A i, j \in 1 .. n - 1 : queue[i + 1] = c /\ queue[j + 1] = c => i = j
    <3> DEFINE q == sc'[s]
    <3>1. /\ q.served = queue[1] /\ DOMAIN q.queue = 1 .. n - 1
          /\ \A i \in 1 .. n - 1 : q.queue[i] = queue[i + 1]
      BY <1>12
    <3> HIDE DEF q
    <3>2. HasOnce(q)
      BY <3>1 DEF HasOnce
    <3> QED
      BY <3>2 DEF q
  <2>1. \A i \in 1 .. n - 1 : i + 1 \in 1 .. n /\ i + 1 # 1
    BY <1>6
  <2>2. 1 \in 1 .. n
    BY <1>6
  <2>3. \A i, j \in 1 .. n - 1 : i + 1 = j + 1 => i = j
    BY <1>6
  <2> QED
    BY <1>9, <2>1, <2>2, <2>3
<1>15. \A c \in Caller : Has(sc'[s], c) <=> Has(sc[s], c)
  <2> SUFFICES ASSUME NEW c \in Caller
               PROVE  (queue[1] = c \/ \E i \in 1 .. n - 1 : queue[i + 1] = c)
                        <=> \E i \in 1 .. n : queue[i] = c
    BY <1>11, <1>13
  <2>1. ASSUME NEW i \in 1 .. n, queue[i] = c, i # 1
        PROVE  i - 1 \in 1 .. n - 1 /\ queue[(i - 1) + 1] = c
    BY <1>6, <2>1
  <2>2. 1 \in 1 .. n /\ \A i \in 1 .. n - 1 : i + 1 \in 1 .. n
    BY <1>6
  <2> QED
    BY <2>1, <2>2
<1>16. ASSUME NEW c \in Caller
       PROVE  /\ IF Open(caller'[c]) THEN caller'[c].to \in Scorer ELSE caller'[c].to = "none"
              /\ Has(sc'[s], c) <=> caller'[c].to = s
              /\ caller'[c].to = caller[c].to
  BY <1>2, <1>15 DEF CallIInv, HeldAtOnePlace
<1>17. Listening(sc[s]) => Listening(sc'[s])
  BY <1>4 DEF Listening, Ended
<1> QED
  BY <1>2, <1>4, <1>8, <1>14, <1>16, <1>17, ProcessGoesOn

\* HandleClient is done with the connection it serves.
LEMMA ServedEnds ==
    ASSUME ScorerTypes, CallIInv, CallTypes', NEW s \in Scorer,
           sc[s].pc \in {"read", "wait", "post"},
           sc' = [sc EXCEPT ![s].served = "none", ![s].pc = "check"], socket' = socket,
           NEW at \in {"answered", "failed"},
           caller' = [c \in Caller |-> IF c = sc[s].served THEN [NoCall EXCEPT !.at = at]
                                                           ELSE caller[c]]
    PROVE  CallIInv'
<1>1. /\ sc \in [Scorer -> Process] /\ sc[s] \in Process
      /\ FitsItsPlace(sc[s]) /\ HasOnce(sc[s])
  BY DEF ScorerTypes, CallIInv
<1>2. /\ \A r \in Scorer \ {s} : sc'[r] = sc[r]
      /\ sc'[s].served = "none" /\ sc'[s].queue = sc[s].queue /\ sc'[s].pc = "check"
      /\ sc'[s].bound = sc[s].bound
  BY <1>1 DEF Process
<1>3. FitsItsPlace(sc'[s]) /\ (Listening(sc[s]) => Listening(sc'[s]))
  BY <1>1, <1>2 DEF FitsItsPlace, Listening, Ended
<1>4. "none" \notin Scorer /\ "none" \notin Caller
  BY ScorerAssumption
<1>5. HasOnce(sc'[s])
  BY <1>1, <1>2, <1>4 DEF HasOnce
<1>6. ASSUME NEW c \in Caller
      PROVE  /\ IF Open(caller'[c]) THEN caller'[c].to \in Scorer ELSE caller'[c].to = "none"
             /\ Has(sc'[s], c) <=> caller'[c].to = s
             /\ caller'[c].to # caller[c].to => {caller'[c].to, caller[c].to} = {s, "none"}
  <2>1. /\ IF Open(caller[c]) THEN caller[c].to \in Scorer ELSE caller[c].to = "none"
        /\ Has(sc[s], c) <=> caller[c].to = s
    BY DEF CallIInv, HeldAtOnePlace
  <2>2. CASE c = sc[s].served
    <3>1. caller'[c] = [NoCall EXCEPT !.at = at]
      BY <2>2
    <3>2. caller'[c].to = "none" /\ ~Open(caller'[c])
      BY <3>1 DEF NoCall, Open
    <3>3. Has(sc[s], c) /\ ~Has(sc'[s], c)
      BY <1>1, <1>2, <1>4, <2>2 DEF HasOnce, Has
    <3> QED
      BY <1>4, <2>1, <3>2, <3>3
  <2>3. CASE c # sc[s].served
    <3>1. caller'[c] = caller[c]
      BY <2>3
    <3>2. Has(sc[s], c) <=> Has(sc'[s], c)
      BY <1>2, <1>4, <2>3 DEF Has
    <3> QED
      BY <2>1, <3>1, <3>2
  <2> QED
    BY <2>2, <2>3
<1> QED
  BY <1>2, <1>3, <1>5, <1>6, ProcessGoesOn

\* HandleClient, which answers or fails the caller it serves, if that is still there.
LEMMA ServingKeepsCalls ==
    ASSUME ScorerTypes, CallIInv, CallTypes', NEW s \in Scorer,
           ReadRequest(s) \/ WaitReady(s) \/ Post(s)
    PROVE  CallIInv'
<1>1. /\ sc \in [Scorer -> Process] /\ sc[s] \in Process /\ FitsItsPlace(sc[s])
      /\ caller \in [Caller -> Call]
  BY DEF ScorerTypes, CallIInv, CallTypes
<1>2. sc[s].pc \in {"read", "wait", "post"} /\ socket' = socket
  BY DEF ReadRequest, WaitReady, Post, MainAt, outside
<1>3. ASSUME NEW place \in {"post", "cas"}, MainGoto(s, place), caller' = caller PROVE CallIInv'
  <2>1. /\ \A r \in Scorer \ {s} : sc'[r] = sc[r]
        /\ sc'[s].served = sc[s].served /\ sc'[s].queue = sc[s].queue
        /\ sc'[s].bound = sc[s].bound /\ sc'[s].pc = place
    BY <1>1, <1>3 DEF MainGoto, Process
  <2> QED
    BY <1>1, <1>2, <1>3, <2>1, MainGoesOn DEF FitsItsPlace, Listening, Ended
<1>4. ASSUME NEW ok \in BOOLEAN, Respond(s, ok) PROVE CallIInv'
  <2> DEFINE at == IF ok THEN "answered" ELSE "failed"
  <2>1. /\ at \in {"answered", "failed"}
        /\ sc' = [sc EXCEPT ![s].served = "none", ![s].pc = "check"]
        /\ caller' = [c \in Caller |-> IF c = sc[s].served THEN [NoCall EXCEPT !.at = at]
                                                           ELSE caller[c]]
    BY <1>4 DEF Respond
  <2> HIDE DEF at
  <2> QED
    BY <1>2, <2>1, ServedEnds
<1>5. ASSUME sc[s].served = "hung", caller' = caller,
             sc' = [sc EXCEPT ![s].served = "none", ![s].pc = "check"]
      PROVE  CallIInv'
  <2>1. \A c \in Caller : c # sc[s].served
    BY <1>5, ScorerAssumption
  <2>2. caller' = [c \in Caller |-> IF c = sc[s].served THEN [NoCall EXCEPT !.at = "failed"]
                                                        ELSE caller[c]]
    BY <1>1, <1>5, <2>1
  <2> QED
    BY <1>2, <1>5, <2>2, ServedEnds
<1>6. CASE ReadRequest(s)
  <2>1. \/ MainGoto(s, "post") /\ caller' = caller
        \/ MainGoto(s, "cas") /\ caller' = caller
        \/ sc' = sc /\ caller' = caller
        \/ /\ sc[s].served = "hung" /\ caller' = caller
           /\ sc' = [sc EXCEPT ![s].served = "none", ![s].pc = "check"]
        \/ Respond(s, FALSE)
    BY <1>6 DEF ReadRequest
  <2>2. CASE sc' = sc /\ caller' = caller
    BY <1>1, <1>2, <2>2, MainGoesOn
  <2> QED
    BY <1>3, <1>4, <1>5, <2>1, <2>2
<1>7. CASE WaitReady(s)
  BY <1>3, <1>4, <1>7 DEF WaitReady
<1>8. CASE Post(s)
  BY <1>4, <1>8 DEF Post
<1> QED
  BY <1>6, <1>7, <1>8

\* A caller that does not connect and is not connected has no connection before and after.
LEMMA CallersGoOn ==
    ASSUME CallIInv, CallTypes', UNCHANGED <<sc, socket>>, NEW c \in Caller, NEW call,
           caller' = [caller EXCEPT ![c] = call],
           call.to = caller[c].to, Open(call) <=> Open(caller[c])
    PROVE  CallIInv'
<1>1. /\ caller'[c] = call
      /\ \A d \in Caller \ {c} : caller'[d] = caller[d]
  BY DEF CallIInv, CallTypes
<1>2. \A d \in Caller :
        /\ IF Open(caller'[d]) THEN caller'[d].to \in Scorer ELSE caller'[d].to = "none"
        /\ caller'[d].to = caller[d].to
  BY <1>1 DEF CallIInv, HeldAtOnePlace
<1>3. \A d \in Caller : HeldAtOnePlace(caller[d], d)'
  BY <1>2 DEF CallIInv, HeldAtOnePlace
<1> QED
  BY <1>3 DEF CallIInv

\* It connects: at the end of a queue where it is not yet, nor anywhere else.
LEMMA ConnectingKeepsCalls ==
    ASSUME ScorerTypes, CallIInv, CallTypes', socket' = socket, NEW c \in Caller,
           ~Open(caller[c]), Connected(c)
    PROVE  CallIInv'
<1>1. PICK s \in Scorer :
        /\ socket = s /\ Len(sc[s].queue) < Backlog
        /\ sc' = [sc EXCEPT ![s].queue = Append(@, c)]
        /\ caller' = [caller EXCEPT ![c] = [NoCall EXCEPT !.at = "connected", !.to = s]]
  BY DEF Connected
<1>2. /\ sc \in [Scorer -> Process] /\ sc[s] \in Process /\ Listening(sc[s])
      /\ FitsItsPlace(sc[s]) /\ HasOnce(sc[s])
  BY <1>1 DEF ScorerTypes, CallIInv
<1> DEFINE queue == sc[s].queue
           n == Len(queue)
           more == Append(queue, c)
<1>3. queue \in Seq(Connection) /\ c \in Connection
  BY <1>2 DEF Process, Connection
<1>4. /\ n \in Nat /\ DOMAIN queue = 1 .. n /\ Len(more) = n + 1 /\ DOMAIN more = 1 .. n + 1
      /\ more[n + 1] = c /\ \A i \in 1 .. n : more[i] = queue[i]
  BY <1>3
<1>5. /\ \A r \in Scorer \ {s} : sc'[r] = sc[r]
      /\ sc'[s].served = sc[s].served /\ sc'[s].queue = more /\ sc'[s].bound = sc[s].bound
      /\ sc'[s].pc = sc[s].pc
  BY <1>1, <1>2 DEF Process
<1>6. FitsItsPlace(sc'[s]) /\ Listening(sc'[s])
  <2>1. Len(sc'[s].queue) <= Backlog
    BY <1>1, <1>4, <1>5, ScorerAssumption
  <2> QED
    BY <1>2, <1>5, <2>1 DEF FitsItsPlace, Listening, Ended
<1> HIDE DEF more, n, queue
<1>7. "none" \notin Scorer
  BY ScorerAssumption
<1>8. caller[c].to = "none" /\ \A d \in Caller : Has(sc[s], d) <=> caller[d].to = s
  BY DEF CallIInv, HeldAtOnePlace
<1>9. sc[s].served # c /\ \A i \in 1 .. n : queue[i] # c
  BY <1>4, <1>7, <1>8 DEF Has, queue
<1>10. /\ DOMAIN sc'[s].queue = 1 .. n + 1 /\ sc'[s].queue[n + 1] = c
       /\ \A i \in 1 .. n : sc'[s].queue[i] = queue[i]
       /\ \A i \in 1 .. n + 1 : i = n + 1 \/ i \in 1 .. n
       /\ \A i \in 1 .. n : i \in 1 .. n + 1
       /\ n + 1 \in 1 .. n + 1
  BY <1>4, <1>5
<1>11. \A d \in Caller \ {c} : Has(sc'[s], d) <=> Has(sc[s], d)
  BY <1>4, <1>5, <1>10 DEF Has, queue
<1>12. Has(sc'[s], c)
  BY <1>10 DEF Has
<1>13. HasOnce(sc'[s])
  <2>1. \A d \in Caller :
          /\ sc[s].served = d => \A i \in 1 .. n : queue[i] # d
          /\ \A i, j \in 1 .. n : queue[i] = d /\ queue[j] = d => i = j
    BY <1>2, <1>4 DEF HasOnce, queue
  <2> QED
    BY <1>5, <1>9, <1>10, <2>1 DEF HasOnce
<1>14. /\ caller'[c] = [NoCall EXCEPT !.at = "connected", !.to = s]
       /\ \A d \in Caller \ {c} : caller'[d] = caller[d]
  BY <1>1 DEF CallIInv, CallTypes
<1>15. Open(caller'[c]) /\ caller'[c].to = s
  BY <1>14 DEF NoCall, Open
<1>16. ASSUME NEW d \in Caller
       PROVE  /\ IF Open(caller'[d]) THEN caller'[d].to \in Scorer ELSE caller'[d].to = "none"
              /\ Has(sc'[s], d) <=> caller'[d].to = s
              /\ caller'[d].to # caller[d].to => {caller'[d].to, caller[d].to} = {s, "none"}
  <2>1. CASE d = c
    BY <1>8, <1>12, <1>15, <2>1
  <2>2. CASE d # c
    <3>1. IF Open(caller[d]) THEN caller[d].to \in Scorer ELSE caller[d].to = "none"
      BY DEF CallIInv, HeldAtOnePlace
    <3> QED
      BY <1>8, <1>11, <1>14, <2>2, <3>1
  <2> QED
    BY <2>1, <2>2
<1> QED
  BY <1>1, <1>5, <1>6, <1>13, <1>16, ProcessGoesOn

\* Queues with the same places are of one length.
LEMMA SameLength ==
    ASSUME NEW S, NEW q \in Seq(S), NEW r \in Seq(S), DOMAIN q = DOMAIN r
    PROVE  Len(q) = Len(r) /\ (q = << >> => r = << >>)
<1>1. DOMAIN q = 1 .. Len(q) /\ DOMAIN r = 1 .. Len(r) /\ Len(q) \in Nat /\ Len(r) \in Nat
  OBVIOUS
<1>2. \A m, n \in Nat : 1 .. m = 1 .. n => m = n
  <2> SUFFICES ASSUME NEW m \in Nat, NEW n \in Nat, 1 .. m = 1 .. n PROVE m = n
    OBVIOUS
  <2>1. m > 0 => m \in 1 .. n
    OBVIOUS
  <2>2. n > 0 => n \in 1 .. m
    OBVIOUS
  <2> QED
    BY <2>1, <2>2
<1>3. Len(q) = Len(r)
  BY <1>1, <1>2
<1>4. ASSUME q = << >> PROVE r = << >>
  BY <1>3, <1>4, EmptySeq
<1> QED
  BY <1>3, <1>4

\* It leaves: its connection is nobody's then.
LEMMA LeavingKeepsCalls ==
    ASSUME ScorerTypes, ScorerTypes', CallIInv, CallTypes', socket' = socket, NEW c \in Caller,
           NEW as \in {"gone", "hung"}, sc' = Left(c, as), Open(caller[c]), NEW call,
           caller' = [caller EXCEPT ![c] = call], call.to = "none", ~Open(call)
    PROVE  CallIInv'
<1> DEFINE Renamed(x) == IF x = c THEN as ELSE x
           renamed(s) == [i \in DOMAIN sc[s].queue |-> Renamed(sc[s].queue[i])]
           left(s) == [sc[s] EXCEPT !.served = Renamed(sc[s].served), !.queue = renamed(s)]
<1>1. sc' = [s \in Scorer |-> left(s)]
  BY DEF Left
<1>2. c # "none" /\ as \notin Caller /\ "none" \notin Scorer
  BY ScorerAssumption
<1>3. ASSUME NEW s \in Scorer
      PROVE  /\ sc'[s].pc = sc[s].pc /\ sc'[s].bound = sc[s].bound
             /\ sc'[s].served = Renamed(sc[s].served) /\ sc'[s].queue = renamed(s)
  <2>1. sc[s] \in Process /\ sc'[s] = left(s)
    BY <1>1 DEF ScorerTypes
  <2> HIDE DEF Renamed, renamed
  <2> QED
    BY <2>1 DEF Process
<1>4. ASSUME NEW s \in Scorer
      PROVE  /\ DOMAIN sc'[s].queue = DOMAIN sc[s].queue
             /\ \A i \in DOMAIN sc[s].queue : sc'[s].queue[i] = Renamed(sc[s].queue[i])
  BY <1>3
<1>5. ASSUME NEW s \in Scorer
      PROVE  /\ Len(sc'[s].queue) = Len(sc[s].queue)
             /\ sc[s].queue = << >> => sc'[s].queue = << >>
  <2>1. sc[s] \in Process /\ sc'[s] \in Process
    BY DEF ScorerTypes
  <2>2. sc[s].queue \in Seq(Connection) /\ sc'[s].queue \in Seq(Connection)
    BY <2>1 DEF Process
  <2> QED
    BY <1>4, <2>2, SameLength
<1>6. \A s \in Scorer : FitsItsPlace(sc'[s])
  BY <1>2, <1>3, <1>5 DEF CallIInv, FitsItsPlace
<1>7. socket \in Scorer => Listening(sc'[socket])
  BY <1>3 DEF CallIInv, Listening
<1>8. ASSUME NEW s \in Scorer, NEW d \in Caller
      PROVE  /\ sc'[s].served = d <=> (sc[s].served = d /\ d # c)
             /\ \A i \in DOMAIN sc[s].queue :
                  sc'[s].queue[i] = d <=> (sc[s].queue[i] = d /\ d # c)
  <2>1. sc'[s].served = d <=> (sc[s].served = d /\ d # c)
    <3>1. sc'[s].served = Renamed(sc[s].served)
      BY <1>3
    <3> QED
      BY <1>2, <3>1
  <2>2. ASSUME NEW i \in DOMAIN sc[s].queue
        PROVE  sc'[s].queue[i] = d <=> (sc[s].queue[i] = d /\ d # c)
    <3>1. sc'[s].queue[i] = Renamed(sc[s].queue[i])
      BY <1>4
    <3> QED
      BY <1>2, <3>1
  <2> QED
    BY <2>1, <2>2
<1>9. ASSUME NEW s \in Scorer
       PROVE  HasOnce(sc'[s]) /\ \A d \in Caller : Has(sc'[s], d) <=> (Has(sc[s], d) /\ d # c)
  <2> DEFINE p == sc[s]
             q == sc'[s]
  <2>1. HasOnce(p) /\ DOMAIN q.queue = DOMAIN p.queue
    BY <1>4 DEF CallIInv
  <2>2. \A d \in Caller : /\ q.served = d <=> (p.served = d /\ d # c)
                         /\ \A i \in DOMAIN p.queue :
                              q.queue[i] = d <=> (p.queue[i] = d /\ d # c)
    BY <1>8
  <2> HIDE DEF p, q
  <2>3. HasOnce(q)
    BY ONLY <2>1, <2>2 DEF HasOnce
  <2>4. \A d \in Caller : Has(q, d) <=> (Has(p, d) /\ d # c)
    BY ONLY <2>1, <2>2 DEF Has
  <2> QED
    BY <2>3, <2>4 DEF p, q
<1>10. /\ caller'[c] = call
       /\ \A d \in Caller \ {c} : caller'[d] = caller[d]
  BY DEF CallIInv, CallTypes
<1>11. ASSUME NEW d \in Caller PROVE HeldAtOnePlace(caller[d], d)'
  <2>1. CASE d = c
    <3>1. caller'[d].to = "none" /\ ~Open(caller'[d])
      BY <1>10, <2>1
    <3>2. \A s \in Scorer : ~Has(sc'[s], d)
      BY <1>9, <2>1
    <3> QED
      BY <1>2, <3>1, <3>2 DEF HeldAtOnePlace
  <2>2. CASE d # c
    <3>1. caller'[d] = caller[d]
      BY <1>10, <2>2
    <3>2. \A s \in Scorer : Has(sc'[s], d) <=> Has(sc[s], d)
      BY <1>9, <2>2
    <3> QED
      BY <3>1, <3>2 DEF CallIInv, HeldAtOnePlace
  <2> QED
    BY <2>1, <2>2
<1> QED
  BY <1>6, <1>7, <1>9, <1>11 DEF CallIInv

\* The callers: they connect, launch, send, give up and return.
LEMMA CallerKeepsCalls ==
    ASSUME ScorerTypes, ScorerTypes', CallIInv, CallTypes', NEW c \in Caller,
           Convert(c) \/ CallerStep(c) \/ HangUp(c)
    PROVE  CallIInv'
<1> DEFINE Ats == {"idle", "connect", "launch", "retry", "sent", "failed"}
<1>1. /\ caller[c] \in Call /\ socket' = socket
      /\ IF Open(caller[c]) THEN caller[c].to \in Scorer ELSE caller[c].to = "none"
  BY DEF CallIInv, CallTypes, HeldAtOnePlace, Convert, CallerStep, HangUp, TryOpen, Launch, Send,
         TimeOut, Return, outside
<1>2. ASSUME NEW at \in Ats, caller' = [caller EXCEPT ![c] = [NoCall EXCEPT !.at = at]], sc' = sc,
             ~Open(caller[c]), at \notin {"connected", "sent"}
      PROVE  CallIInv'
  <2> DEFINE call == [NoCall EXCEPT !.at = at]
  <2>1. call.to = caller[c].to /\ ~Open(call)
    BY <1>1, <1>2 DEF NoCall, Open
  <2> HIDE DEF call
  <2> QED
    BY <1>1, <1>2, <2>1, CallersGoOn DEF call
<1>3. ASSUME NEW at \in Ats, sc' = sc,
             caller' = [caller EXCEPT ![c] = [caller[c] EXCEPT !.at = at]],
             at \in {"connected", "sent"} <=> Open(caller[c])
      PROVE  CallIInv'
  <2> DEFINE call == [caller[c] EXCEPT !.at = at]
  <2>1. call.to = caller[c].to /\ (Open(call) <=> Open(caller[c]))
    BY <1>1, <1>3 DEF Call, Open
  <2> HIDE DEF call
  <2> QED
    BY <1>1, <1>3, <2>1, CallersGoOn DEF call
<1>4. ASSUME NEW at \in Ats, caller' = [caller EXCEPT ![c] = [NoCall EXCEPT !.at = at]],
             Open(caller[c]), at \notin {"connected", "sent"},
             NEW as \in {"gone", "hung"}, sc' = Left(c, as)
      PROVE  CallIInv'
  <2> DEFINE call == [NoCall EXCEPT !.at = at]
  <2>1. call.to = "none" /\ ~Open(call)
    BY <1>4 DEF NoCall, Open
  <2> HIDE DEF call
  <2> QED
    BY <1>1, <1>4, <2>1, LeavingKeepsCalls DEF call
<1>5. CASE Convert(c)
  BY <1>2, <1>5 DEF Convert, Open
<1>6. CASE TryOpen(c)
  <2>1. ~Open(caller[c])
    BY <1>6 DEF TryOpen, Open
  <2>2. CASE Connected(c)
    BY <1>1, <2>1, <2>2, ConnectingKeepsCalls
  <2>3. CASE sc' = sc /\ caller' = [caller EXCEPT ![c] = [caller[c] EXCEPT !.at = "launch"]]
    BY <1>3, <2>1, <2>3
  <2>4. CASE sc' = sc /\ caller' = [caller EXCEPT ![c] = Retry(c)]
    <3>1. CASE Retry(c) = [NoCall EXCEPT !.at = "failed"]
      BY <1>2, <2>1, <2>4, <3>1
    <3>2. CASE Retry(c) = [caller[c] EXCEPT !.tries = @ + 1]
      <4>1. Retry(c).to = caller[c].to /\ ~Open(Retry(c))
        BY <1>1, <2>1, <3>2 DEF Call, Open
      <4> QED
        BY <1>1, <2>1, <2>4, <4>1, CallersGoOn
    <3> QED
      BY <3>1, <3>2 DEF Retry
  <2>5. \/ Connected(c)
        \/ sc' = sc /\ caller' = [caller EXCEPT ![c] = [caller[c] EXCEPT !.at = "launch"]]
        \/ sc' = sc /\ caller' = [caller EXCEPT ![c] = Retry(c)]
    BY <1>6 DEF TryOpen, CallIInv, CallTypes
  <2> QED
    BY <2>2, <2>3, <2>4, <2>5
<1>7. CASE Launch(c)
  <2>1. ~Open(caller[c]) /\ caller' = [caller EXCEPT ![c] = [caller[c] EXCEPT !.at = "retry"]]
    BY <1>7 DEF Launch, Open, CallIInv, CallTypes
  <2>2. CASE sc' = sc
    BY <1>3, <2>1, <2>2
  <2>3. CASE sc' # sc
    <3>1. PICK s \in Scorer : sc[s] = NoScorer /\ sc' = [sc EXCEPT ![s].pc = "start"]
      BY <1>7, <2>3 DEF Launch, FreePlaces
    <3>2. /\ \A r \in Scorer \ {s} : sc'[r] = sc[r]
          /\ sc'[s].served = "none" /\ sc'[s].queue = << >> /\ sc'[s].bound = FALSE
          /\ sc'[s].pc = "start"
          /\ sc[s].served = "none" /\ sc[s].queue = << >> /\ sc[s].bound = FALSE
      BY <3>1 DEF ScorerTypes, NoScorer
    <3>3. FitsItsPlace(sc'[s]) /\ HasOnce(sc'[s])
      BY <3>2, ScorerAssumption DEF FitsItsPlace, HasOnce, Ended
    <3>4. ~Listening(sc[s]) /\ \A d \in Caller : Has(sc'[s], d) <=> Has(sc[s], d)
      BY <3>2 DEF Listening, Has
    <3>5. /\ caller'[c].to = caller[c].to /\ ~Open(caller'[c])
          /\ \A d \in Caller \ {c} : caller'[d] = caller[d]
      BY <1>1, <2>1 DEF CallIInv, CallTypes, Call, Open
    <3>6. ASSUME NEW d \in Caller
          PROVE  /\ IF Open(caller'[d]) THEN caller'[d].to \in Scorer ELSE caller'[d].to = "none"
                 /\ Has(sc'[s], d) <=> caller'[d].to = s
                 /\ caller'[d].to = caller[d].to
      <4>1. /\ IF Open(caller[d]) THEN caller[d].to \in Scorer ELSE caller[d].to = "none"
            /\ Has(sc[s], d) <=> caller[d].to = s
        BY DEF CallIInv, HeldAtOnePlace
      <4> QED
        BY <2>1, <3>4, <3>5, <4>1
    <3> QED
      BY <1>1, <3>2, <3>3, <3>4, <3>6, ProcessGoesOn
  <2> QED
    BY <2>2, <2>3
<1>8. CASE Send(c)
  <2>1. Open(caller[c]) /\ caller' = [caller EXCEPT ![c] = [caller[c] EXCEPT !.at = "sent"]]
    BY <1>8 DEF Send, Open, CallIInv, CallTypes
  <2> QED
    BY <1>3, <1>8, <2>1 DEF Send
<1>9. CASE TimeOut(c)
  BY <1>4, <1>9 DEF TimeOut, Open
<1>10. CASE HangUp(c)
  <2>1. NoCall = [NoCall EXCEPT !.at = "idle"]
    BY DEF NoCall
  <2> QED
    BY <1>4, <1>10, <2>1 DEF HangUp, Open
<1>11. CASE Return(c)
  <2>1. NoCall = [NoCall EXCEPT !.at = "idle"]
    BY DEF NoCall
  <2> QED
    BY <1>2, <1>11, <2>1 DEF Return, Open
<1> QED
  BY <1>5, <1>6, <1>7, <1>8, <1>9, <1>10, <1>11 DEF CallerStep

\* What the callers know stays in their types.
LEMMA CallsAreTyped ==
    ASSUME ScorerTypes, CallTypes, ScorerNext PROVE CallTypes'
<1>1. caller \in [Caller -> Call]
  BY DEF CallTypes
<1>2. \A at \in {"idle", "connect", "answered", "failed"} : [NoCall EXCEPT !.at = at] \in Call
  <2>1. 0 \in 0 .. MaxRetry - 1
    BY ScorerAssumption
  <2> QED
    BY <2>1 DEF NoCall, Call
<1>3. ASSUME NEW s \in Scorer, MainStep(s) \/ Crash(s) PROVE caller' \in [Caller -> Call]
  <2>1. CutOff(s) \in [Caller -> Call]
    BY <1>1, <1>2 DEF CutOff
  <2>2. ASSUME NEW ok \in BOOLEAN, Respond(s, ok) PROVE caller' \in [Caller -> Call]
    <3> DEFINE at == IF ok THEN "answered" ELSE "failed"
    <3>1. caller' = [c \in Caller |-> IF c = sc[s].served THEN [NoCall EXCEPT !.at = at]
                                                          ELSE caller[c]]
      BY <2>2 DEF Respond
    <3>2. [NoCall EXCEPT !.at = at] \in Call
      BY <1>2
    <3> QED
      BY <1>1, <3>1, <3>2
  <2>3. \/ caller' = caller \/ caller' = CutOff(s)
        \/ Respond(s, TRUE) \/ Respond(s, FALSE)
    BY <1>3 DEF MainStep, Crash, Start, LockFile, StartLlama, ForkLlama, RecordLlama, StartProbe,
      Bind, Check, Accept, ReadRequest, WaitReady, Post, CloseSocket, StopLlama, Unlock, UnlinkLock
  <2> QED
    BY <1>1, <2>1, <2>2, <2>3
<1>4. ASSUME NEW s \in Scorer, Probing(s) \/ LlamaEnds(s) \/ Signal(s)
      PROVE  caller' = caller
  BY <1>4 DEF Probing, ProbeStep, ProbeSucceeds, ProbeEnds, ProbeGivesUp, ProbeStops, ProbeResets,
    LlamaLoads, LlamaEnds, Signal, probes
<1>5. ASSUME NEW c \in Caller, Convert(c) \/ CallerStep(c) \/ HangUp(c)
      PROVE  caller' \in [Caller -> Call]
  <2>1. caller[c] \in Call
    BY <1>1
  <2>2. \A at \in {"launch", "retry", "sent"} : [caller[c] EXCEPT !.at = at] \in Call
    BY <2>1 DEF Call
  <2>3. Retry(c) \in Call
    <3>1. CASE caller[c].tries + 1 < MaxRetry
      <4>1. caller[c].tries \in 0 .. MaxRetry - 1
        BY <2>1 DEF Call
      <4>2. caller[c].tries + 1 \in 0 .. MaxRetry - 1
        BY <3>1, <4>1, ScorerAssumption
      <4> QED
        BY <2>1, <3>1, <4>2 DEF Retry, Call
    <3>2. CASE ~(caller[c].tries + 1 < MaxRetry)
      BY <1>2, <3>2 DEF Retry
    <3> QED
      BY <3>1, <3>2
  <2>4. \A s \in Scorer : [NoCall EXCEPT !.at = "connected", !.to = s] \in Call
    <3>1. 0 \in 0 .. MaxRetry - 1
      BY ScorerAssumption
    <3> QED
      BY <3>1 DEF NoCall, Call
  <2>5. NoCall = [NoCall EXCEPT !.at = "idle"]
    BY DEF NoCall
  <2>6. ASSUME NEW call \in Call, caller' = [caller EXCEPT ![c] = call]
        PROVE  caller' \in [Caller -> Call]
    BY <1>1, <2>6
  <2>7. CASE Convert(c) \/ TimeOut(c)
    BY <1>2, <2>6, <2>7 DEF Convert, TimeOut
  <2>8. CASE HangUp(c) \/ Return(c)
    BY <1>2, <2>5, <2>6, <2>8 DEF HangUp, Return
  <2>9. CASE Launch(c) \/ Send(c)
    <3>1. \/ caller' = [caller EXCEPT ![c] = [caller[c] EXCEPT !.at = "retry"]]
          \/ caller' = [caller EXCEPT ![c] = [caller[c] EXCEPT !.at = "sent"]]
      BY <1>1, <2>9 DEF Launch, Send
    <3> QED
      BY <2>2, <2>6, <3>1
  <2>10. CASE TryOpen(c)
    <3>1. \/ \E s \in Scorer :
               caller' = [caller EXCEPT ![c] = [NoCall EXCEPT !.at = "connected", !.to = s]]
          \/ caller' = [caller EXCEPT ![c] = [caller[c] EXCEPT !.at = "launch"]]
          \/ caller' = [caller EXCEPT ![c] = Retry(c)]
      BY <1>1, <2>10 DEF TryOpen, Connected
    <3> QED
      BY <2>2, <2>3, <2>4, <2>6, <3>1
  <2> QED
    BY <1>5, <2>7, <2>8, <2>9, <2>10 DEF CallerStep
<1>6. caller' \in [Caller -> Call]
  BY <1>1, <1>3, <1>4, <1>5 DEF ScorerNext, TwoSecondsPass
<1> QED
  BY <1>6, FaultsAreCounted DEF CallTypes

\* In every state, whatever crashes, ends, is interrupted or gives up: an open call is at
\* one place of the process it connected to, and that process has not closed its socket.
THEOREM CallsInvariant == ScorerSpec => []CallIInv
<1>1. ScorerInit => CallIInv
  <2> SUFFICES ASSUME ScorerInit PROVE CallIInv
    OBVIOUS
  <2>1. CallTypes
    <3>1. 0 \in 0 .. MaxRetry - 1
      BY ScorerAssumption
    <3>2. NoCall \in Call
      BY <3>1 DEF NoCall, Call
    <3>3. 0 \in 0 .. scorerBound.faults
      BY ScorerAssumption DEF ScorerInit
    <3> QED
      BY <3>2, <3>3 DEF ScorerInit, CallTypes
  <2>2. \A s \in Scorer :
          /\ sc[s].pc = "none" /\ sc[s].served = "none" /\ sc[s].queue = << >>
          /\ sc[s].bound = FALSE
    BY DEF ScorerInit, NoScorer
  <2>3. \A c \in Caller : caller[c].to = "none" /\ ~Open(caller[c])
    BY DEF ScorerInit, NoCall, Open
  <2>4. \A s \in Scorer : FitsItsPlace(sc[s]) /\ HasOnce(sc[s])
    BY <2>2, ScorerAssumption DEF FitsItsPlace, HasOnce, Ended
  <2>5. socket \notin Scorer
    BY ScorerAssumption DEF ScorerInit
  <2>6. \A c \in Caller : HeldAtOnePlace(caller[c], c)
    BY <2>2, <2>3, ScorerAssumption DEF HeldAtOnePlace, Has
  <2> QED
    BY <2>1, <2>4, <2>5, <2>6 DEF CallIInv
<1>2. ScorerTypes /\ ScorerTypes' /\ CallIInv /\ [ScorerNext]_scorerVars => CallIInv'
  <2> SUFFICES ASSUME ScorerTypes, ScorerTypes', CallIInv, [ScorerNext]_scorerVars PROVE CallIInv'
    OBVIOUS
  <2>1. ASSUME UNCHANGED <<sc, socket, caller>>, CallTypes' PROVE CallIInv'
    BY <2>1 DEF CallIInv, HeldAtOnePlace
  <2>2. CASE UNCHANGED scorerVars
    <3>1. CallTypes'
      BY <2>2 DEF scorerVars, CallIInv, CallTypes
    <3> QED
      BY <2>1, <2>2, <3>1 DEF scorerVars
  <2>3. CASE ScorerNext
    <3>1. CallTypes'
      BY <2>3, CallsAreTyped DEF CallIInv
    <3>2. CASE TwoSecondsPass
      BY <2>1, <3>1, <3>2 DEF TwoSecondsPass, outside
    <3>3. ASSUME NEW s \in Scorer, MainStep(s) PROVE CallIInv'
      BY <3>1, <3>3, MainKeepsCalls, EndingKeepsCalls, SocketKeepsCalls, AcceptKeepsCalls,
         ServingKeepsCalls DEF MainStep
    <3> QED
      BY <2>3, <3>1, <3>2, <3>3, OthersKeepCalls, EndingKeepsCalls, CallerKeepsCalls
      DEF ScorerNext, Probing
  <2> QED
    BY <2>2, <2>3
<1>3. ScorerIInv => ScorerTypes
  BY DEF ScorerIInv
<1> QED
  BY <1>1, <1>2, <1>3, ScorerInvariant, PTL DEF ScorerSpec

\* Every variable of callers and scorers has its type; no queue is longer than the backlog.
THEOREM ScorerTypeCorrect == ScorerSpec => []ScorerTypeOK
<1>1. ScorerIInv /\ CallIInv => ScorerTypeOK
  BY DEF ScorerIInv, ScorerTypes, CallIInv, CallTypes, FitsItsPlace, ScorerTypeOK
<1> QED
  BY <1>1, ScorerInvariant, CallsInvariant, PTL

\* A caller that waits for an answer is known to a process that is still to answer it
\* or to close its connection, once, and to no other.
OpenCallsAreHeld ==
    \A c \in Caller : Open(caller[c]) =>
        LET to == sc[caller[c].to]
        IN  /\ to.bound /\ to.pc \notin {"unlock", "unlink"} /\ HasOnce(to)
            /\ \A s \in Scorer : Has(sc[s], c) <=> s = caller[c].to

\* This is so whoever crashes, closes its socket, leaves or is signalled meanwhile.
THEOREM NoCallIsForgotten == ScorerSpec => []OpenCallsAreHeld
<1>1. CallIInv => OpenCallsAreHeld
  <2> SUFFICES ASSUME CallIInv, NEW c \in Caller, Open(caller[c])
               PROVE  LET to == sc[caller[c].to]
                      IN  /\ to.bound /\ to.pc \notin {"unlock", "unlink"} /\ HasOnce(to)
                          /\ \A s \in Scorer : Has(sc[s], c) <=> s = caller[c].to
    BY DEF OpenCallsAreHeld
  <2>1. caller[c].to \in Scorer /\ \A s \in Scorer : Has(sc[s], c) <=> caller[c].to = s
    BY DEF CallIInv, HeldAtOnePlace
  <2>2. PICK s \in Scorer : s = caller[c].to /\ Has(sc[s], c)
    BY <2>1
  <2>3. FitsItsPlace(sc[s]) /\ HasOnce(sc[s]) /\ "none" # c
    BY ScorerAssumption DEF CallIInv
  <2>4. sc[s].bound /\ sc[s].pc \notin {"unlock", "unlink"}
    <3>1. sc[s].bound
      BY <2>2, <2>3 DEF FitsItsPlace, Has
    <3>2. CASE sc[s].pc \in {"unlock", "unlink"}
      <4>1. sc[s].queue = << >> /\ sc[s].served = "none"
        BY <2>3, <3>2 DEF FitsItsPlace, Ended
      <4>2. ~Has(sc[s], c)
        BY <2>3, <4>1 DEF Has
      <4> QED
        BY <2>2, <4>2
    <3> QED
      BY <3>1, <3>2
  <2> QED
    BY <2>1, <2>2, <2>3, <2>4
<1> QED
  BY <1>1, CallsInvariant, PTL
=============================================================================
