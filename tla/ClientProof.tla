---------------------------- MODULE ClientProof ----------------------------
(***************************************************************************)
(* Proofs about Client with Ipc, for any places for servers, any sessions, *)
(* any kinds of inputs and any bounds on inputs, faults and the journal: a *)
(* saved server is found, the session a client holds is of a server of its *)
(* own version, and the composition it shows stays in order and free of    *)
(* what was committed, over every crash, retry and replay.                 *)
(*                                                                         *)
(* The invariant has three layers: the servers and what is known of them,  *)
(* the nesting of the calls on the stack, and the journal with the text in *)
(* the session, of which each label of the stack promises something else.  *)
(***************************************************************************)
EXTENDS Client, FiniteSetTheorems, SequenceTheorems, TLAPS

-----------------------------------------------------------------------------
\* The servers, the key file and the sessions.
Serving(p) == proc[p].st = "ready"

\* The "server" mutex is held from before the socket is bound until Run returns.
OneServer ==
    \A p \in Proc : proc[p].st \in {"locked", "ready", "saving"} => server_mutex = p

\* Whoever has written a key, and the version with it, is still there.
Published(kept) ==
    kept.key \in Proc =>
        /\ proc[kept.key].st \in {"ready", "saving", "unlocked", "closed"}
        /\ kept.version = proc[kept.key].version
KeysAreTrue ==
    Published(file) /\ Published(path) /\ (path # NoPath => last_modified \in Stamp)

\* The key file is the serving process's, unless somebody else has removed it.
FileOfServer == \A p \in Proc : Serving(p) => file = NoFile \/ file.key = p

\* A session lives as long as the server that made it, and only one is of interest.
SessionsAreServed ==
    /\ session \in [DOMAIN session -> Seq(1 .. bound.keys)] /\ DOMAIN session \subseteq SessionId
    /\ \A s, t \in DOMAIN session : s = t
    /\ DOMAIN session # {} => \E p \in Proc : Serving(p)

World == IpcTypeOK /\ OneServer /\ KeysAreTrue /\ FileOfServer /\ SessionsAreServed

-----------------------------------------------------------------------------
\* The stack: the operations of the client by the labels they are at, and where
\* each may be called from.
StartLabels == {"StartServer", "Spawn", "StartWait", "WaitEvent", "LastPing", "StartTry"}
ConnectionLabels == {"EnsureConnection", "ConnectionStarted"}
SessionLabels == {"EnsureSession", "SessionConnected", "SessionCreated", "ReturnFalse", "SetRequest"}
VersionLabels == {"CheckVersion", "Shutdown", "WaitServer", "ForceTerminate", "Reconnected"}
CallLabels == {"EnsureCall", "SessionRestored", "Playback", "SecondTrial"}

Calls(above, below) ==
    \/ above \in StartLabels /\ below = "ConnectionStarted"
    \/ above \in ConnectionLabels /\ below \in {"SessionConnected", "ReturnFalse", "Reconnected", "Done"}
    \/ above \in SessionLabels /\ below \in {"EnsureCall", "SessionRestored", "Done"}
    \/ above \in VersionLabels /\ below \in {"SessionCreated", "VersionChecked"}
    \/ above \in CallLabels \cup {"VersionChecked"} /\ below = "Done"

Nested(st) == \A i \in 1 .. Len(st) - 1 : Calls(st[i], st[i + 1])

\* An input is under way; its replay waits for a new session.
Inputting(st) == \E i \in 1 .. Len(st) : st[i] \in CallLabels
Restoring(st) == \E i \in 2 .. Len(st) : st[i] = "SessionRestored"

-----------------------------------------------------------------------------
\* The journal.
\* The inputs that have been answered or given up: all but the one under way.
Over == IF Inputting(stack) THEN keys - 1 ELSE keys

Increasing(text) == \A i, j \in DOMAIN text : i < j => text[i] < text[j]
Commits(in) == Type(in) # "TEST_SEND_KEY" /\ Effect(in) = "commit"

\* What the first k inputs of a journal may have left in a composition: those that
\* no later one of them commits.
Alive(h, k) == {h[i].n : i \in {j \in 1 .. k : \A l \in j .. k : ~Commits(h[l])}}

Types ==
    /\ ClientTypeOK /\ keys \in 0 .. bound.keys /\ committed \subseteq 1 .. bound.keys
    /\ shown \in Seq(1 .. bound.keys)

InputIsLast == Inputting(stack) => input \in Input /\ input.n = keys

\* What the journal brings back was not committed, unless it is cut off.
JournalIsOver ==
    /\ \A i, j \in 1 .. Len(history) : i < j => history[i].n < history[j].n
    /\ \A i \in 1 .. Len(history) : history[i].n <= Over
    /\ committed \subseteq 1 .. Over
    /\ ~TooLong => Alive(history, Len(history)) \cap committed = {}

\* Whatever holds of a text holds of the session's, if the session is there.
Blank(sid) == sid \in DOMAIN session => session[sid] = << >>
Holds(text) == Increasing(text) /\ Range(text) \subseteq (1 .. Over) \ committed
Replays(text, k) == Increasing(text) /\ Range(text) \subseteq Alive(history, k)
OfSameVersion(sid) ==
    sid \in DOMAIN session => \A p \in Proc : Serving(p) => proc[p].version = "same"

\* A session is only called good when it holds what was shown.
GoodSessionHolds ==
    server_status = "OK" /\ ~At("Playback") /\ ~At("SecondTrial")
        => (id \in DOMAIN session => Holds(session[id]))

\* A session is empty from its creation to the replay, ...
NewSessionIsEmpty ==
    /\ At("SessionCreated") /\ ret => Blank(output.id) /\ OfSameVersion(output.id)
    /\ At("SetRequest") => Blank(id)
    /\ At("SessionRestored") /\ ret => Blank(id)
    /\ At("EnsureCall") /\ ret => server_status = "OK"
    /\ Restoring(stack) => server_status # "OK"

\* ... during which it holds what was replayed. A replay that fails half way leaves
\* a session that cannot be reached any more.
Unreachable == server_status \in Dead \/ file = NoFile
ReplayIsInOrder ==
    /\ At("Playback") =>
         /\ ~TooLong /\ played < Len(history)
         /\ id \in DOMAIN session => Replays(session[id], played)
    /\ At("SecondTrial") =>
         /\ ~TooLong
         /\ id \in DOMAIN session => Replays(session[id], Len(history)) \/ Unreachable

Calling == Types /\ Nested(stack) /\ InputIsLast
Journal ==
    /\ JournalIsOver /\ ShownIsInOrder /\ CommittedStaysCommitted /\ OfSameVersion(id)
    /\ GoodSessionHolds /\ NewSessionIsEmpty /\ ReplayIsInOrder

ClientIInv == World /\ Calling /\ Journal

-----------------------------------------------------------------------------
\* Names: what is not a process, and the values the records start with.
Paths == {NoPath} \cup [key : Proc \cup {Stale}, version : Version]
Files == {NoFile} \cup [key : Proc \cup {Stale, Empty}, version : Version, stamp : Stamp]

LEMMA NamesDiffer ==
    /\ {NoProc, Stale, NoFile.key, NoPath.key, Empty} \cap Proc = {}
    /\ NoFile.key = "no file" /\ NoPath.key = "no path" /\ NoFile.stamp = 2
    /\ Stale = "stale" /\ Empty = "truncated" /\ NoProc = "no process"
    /\ NoVersion \in Version
BY ProcAssumption DEF NoProc, Stale, NoFile, NoPath, Empty, NoVersion

\* IpcTypeOK, part by part.
LEMMA IpcTypes ==
    IpcTypeOK <=>
        /\ proc \in [Proc -> [st : State, version : Version]]
        /\ server_mutex \in Proc \cup {NoProc} /\ file_lock \in Proc \cup {NoProc}
        /\ file \in Files /\ path \in Paths /\ last_modified \in Stamp \cup {2}
BY DEF IpcTypeOK, Files, Paths

\* The key of a process, as a path.
LEMMA KeyOfIsPath ==
    ASSUME World, NEW p \in Proc
    PROVE  /\ KeyOf(p) \in Paths /\ KeyOf(p) # NoPath
           /\ KeyOf(p).key = p /\ KeyOf(p).version = proc[p].version /\ proc[p].version \in Version
<1>1. proc[p].version \in Version
  BY IpcTypes DEF World
<1> DEFINE k == KeyOf(p)
<1>2. k \in Paths /\ k.key = p /\ k.version = proc[p].version
  BY <1>1 DEF KeyOf, Paths
<1> HIDE DEF k
<1>3. k # NoPath
  BY <1>2, NamesDiffer
<1> QED
  BY <1>1, <1>2, <1>3 DEF k

-----------------------------------------------------------------------------
\* Connecting.
\* What a client knows before it tries to connect, and after.
Link(c) ==
    /\ c \in [path : Paths, stamp : Stamp \cup {2}, to : Proc \cup {NoProc}]
    /\ Published(c.path) /\ (c.path # NoPath => c.stamp \in Stamp)
    /\ \A p \in Proc : c.to = p => Serving(p) /\ file.key = p /\ c.path = KeyOf(p)

\* Forgetting a path is always right.
LEMMA NoPathLinks ==
    ASSUME NEW c, Link(c), c.to = NoProc PROVE Link([c EXCEPT !.path = NoPath])
<1> DEFINE d == [c EXCEPT !.path = NoPath]
<1>1. NoPath \in Paths /\ NoPath.key \notin Proc /\ NoProc \notin Proc
  BY NamesDiffer DEF Paths
<1>2. /\ d \in [path : Paths, stamp : Stamp \cup {2}, to : Proc \cup {NoProc}]
      /\ d.path = NoPath /\ d.to = NoProc
  BY <1>1 DEF Link
<1> QED
  BY <1>1, <1>2 DEF Link, Published

\* Whoever serves and has its key in the file is found, unless an older key is known,
\* which is then forgotten.
LEMMA TryConnectFinds ==
    ASSUME World, NEW c, Link(c), c.to = NoProc
    PROVE  /\ Link(TryConnect(c))
           /\ \A p \in Proc :
                Serving(p) /\ file.key = p =>
                    \/ TryConnect(c).to = p
                    \/ c.path # NoPath /\ TryConnect(c).to = NoProc /\ TryConnect(c).path = NoPath
<1> DEFINE l == Loaded(c)
           found == {p \in Proc : proc[p].st = "ready" /\ p = l.path.key}
           d == TryConnect(c)
<1>0. /\ proc \in [Proc -> [st : State, version : Version]]
      /\ file \in Files /\ path \in Paths /\ NoProc \notin Proc
  BY NamesDiffer, IpcTypes DEF World
<1>1. CASE c.path # NoPath /\ file.stamp = c.stamp
  <2>1. l = c /\ ~LoadFails(c)
    BY <1>1 DEF Loaded, LoadFails
  <2>2. file # NoFile
    <3>1. c.stamp \in Stamp
      BY <1>1 DEF Link
    <3>2. c.stamp # 2
      BY <3>1 DEF Stamp
    <3>3. NoFile.stamp = 2
      BY NamesDiffer
    <3> QED
      BY <1>1, <3>2, <3>3
  <2>3. CASE found = {}
    <3>1. d = [c EXCEPT !.path = NoPath]
      BY <2>1, <2>3 DEF TryConnect
    <3>2. Link(d) /\ d.to = NoProc /\ d.path = NoPath
      BY <3>1, NoPathLinks DEF Link
    <3> QED
      BY <1>1, <3>2
  <2>4. CASE found # {}
    <3>1. PICK q \in Proc : Serving(q) /\ q = c.path.key
      BY <2>1, <2>4 DEF Serving
    <3>2. found = {q}
      BY <2>1, <3>1 DEF Serving
    <3>3. d = [c EXCEPT !.to = q]
      BY <2>1, <3>2 DEF TryConnect
    <3>4. file.key = q
      BY <2>2, <3>1 DEF World, FileOfServer
    <3>5. c.path = KeyOf(q)
      BY <1>1, <3>1 DEF Link, Paths, Published, KeyOf
    <3>6. Link(d)
      BY <1>0, <3>1, <3>3, <3>4, <3>5 DEF Link
    <3> QED
      BY <1>0, <3>3, <3>4, <3>6 DEF Link
  <2> QED
    BY <2>3, <2>4
<1>2. CASE ~(c.path # NoPath /\ file.stamp = c.stamp) /\ (file = NoFile \/ file.key = Empty)
  <2>1. LoadFails(c) /\ d = l
    BY <1>2 DEF LoadFails, TryConnect
  <2>2. l = c \/ l = [c EXCEPT !.path = NoPath]
    BY <1>2 DEF Loaded
  <2>3. Link([c EXCEPT !.path = NoPath])
    BY NoPathLinks
  <2>5. Link(d)
    BY <2>1, <2>2, <2>3
  <2>4. file.key \notin Proc
    BY <1>2, NamesDiffer
  <2> QED
    BY <2>4, <2>5
<1>3. CASE ~(c.path # NoPath /\ file.stamp = c.stamp) /\ file # NoFile /\ file.key # Empty
  <2> DEFINE k == [key |-> file.key, version |-> file.version]
  <2>1. ~LoadFails(c) /\ l = [c EXCEPT !.path = k, !.stamp = file.stamp]
    BY <1>3 DEF LoadFails, Loaded
  <2>2. /\ file.key \in Proc \cup {Stale} /\ file.version \in Version /\ file.stamp \in Stamp
        /\ k \in Paths /\ k # NoPath
    <3>1. file \in [key : Proc \cup {Stale, Empty}, version : Version, stamp : Stamp]
      BY <1>0, <1>3 DEF Files
    <3>2. file.key \in Proc \cup {Stale} /\ file.version \in Version /\ file.stamp \in Stamp
      BY <1>3, <3>1
    <3>3. file.key # NoPath.key
      BY <3>2, NamesDiffer
    <3> HIDE DEF k
    <3>4. k.key # NoPath.key /\ k \in [key : Proc \cup {Stale}, version : Version]
      BY <3>2, <3>3 DEF k
    <3> QED
      BY <3>2, <3>4 DEF Paths
  <2>3. Published(k)
    BY DEF World, KeysAreTrue, Published
  <2>4. /\ l \in [path : Paths, stamp : Stamp \cup {2}, to : Proc \cup {NoProc}]
        /\ l.path = k /\ l.stamp \in Stamp /\ l.to = NoProc
    BY <2>1, <2>2 DEF Link
  <2> HIDE DEF l
  <2>7. Link(l)
    BY <1>0, <2>3, <2>4 DEF Link
  <2>5. CASE found = {}
    <3>1. d = [l EXCEPT !.path = NoPath]
      BY <2>1, <2>5 DEF TryConnect, l
    <3>2. Link(d)
      BY <2>4, <2>7, <3>1, NoPathLinks
    <3>3. \A p \in Proc : ~(Serving(p) /\ file.key = p)
      BY <2>4, <2>5 DEF Serving
    <3> QED
      BY <3>2, <3>3
  <2>6. CASE found # {}
    <3>1. PICK q \in Proc : Serving(q) /\ q = file.key
      BY <2>4, <2>6 DEF Serving
    <3>2. found = {q}
      BY <2>4, <3>1 DEF Serving
    <3>3. d = [l EXCEPT !.to = q]
      BY <2>1, <3>2 DEF TryConnect, l
    <3>4. k = KeyOf(q)
      BY <2>3, <3>1 DEF Published, KeyOf
    <3>5. Link(d)
      BY <1>0, <2>3, <2>4, <3>1, <3>3, <3>4 DEF Link
    <3> QED
      BY <1>0, <2>4, <3>1, <3>3, <3>5
  <2> QED
    BY <2>5, <2>6
<1> QED
  BY <1>1, <1>2, <1>3

\* Connect finds exactly the serving process with its key in the file, if any.
LEMMA ConnectFinds ==
    ASSUME World
    PROVE  /\ Link(Connect)
           /\ \A p \in Proc : Serving(p) /\ file.key = p => Connect.to = p
<1>0. NoProc \notin Proc
  BY NamesDiffer
<1>1. Link(Cache) /\ Cache.to = NoProc
  BY <1>0, IpcTypes DEF World, KeysAreTrue, Link, Cache
<1> DEFINE first == TryConnect(Cache)
<1>2. /\ Link(first)
      /\ \A p \in Proc : Serving(p) /\ file.key = p =>
           first.to = p \/ (first.to = NoProc /\ first.path = NoPath)
  BY <1>1, TryConnectFinds
<1>3. Connect = IF first.to # NoProc THEN first ELSE TryConnect(first)
  BY DEF Connect
<1> HIDE DEF first
<1>4. CASE first.to # NoProc
  BY <1>0, <1>2, <1>3, <1>4
<1>5. CASE first.to = NoProc
  BY <1>0, <1>2, <1>3, <1>5, TryConnectFinds
<1> QED
  BY <1>4, <1>5

\* A saved server is found, whatever the client remembers.
LEMMA WorldFindsServer == World => SavedServerIsFound
BY ConnectFinds DEF SavedServerIsFound, Serving

-----------------------------------------------------------------------------
\* What happens to the servers.

\* Sessions are dropped at most; while one is left the server that has it serves on,
\* alone, and a key file that was removed is not written again.
Kept ==
    /\ \A s \in DOMAIN session' : s \in DOMAIN session /\ session'[s] = session[s]
    /\ DOMAIN session' # {} =>
         /\ \A p \in Proc : Serving(p)' => Serving(p) /\ proc'[p].version = proc[p].version
         /\ file = NoFile => file' = NoFile

\* Sessions that EvalCommand may leave.
Sessions(ss) ==
    /\ ss \in [DOMAIN ss -> Seq(1 .. bound.keys)] /\ DOMAIN ss \subseteq SessionId
    /\ \A s, t \in DOMAIN ss : s = t

LEMMA NoSessions == Sessions(<< >>) /\ DOMAIN << >> = {}
<1>1. DOMAIN << >> = {}
  OBVIOUS
<1> QED
  BY <1>1 DEF Sessions

\* What the client remembers of the servers is a path of a process that is there.
LEMMA OutlivedIsTrue ==
    ASSUME NEW p \in Proc, NEW kept \in Paths \cup Files
    PROVE  /\ kept \in Paths => Outlived(kept, p) \in Paths
           /\ kept \in Files => Outlived(kept, p) \in Files
           /\ Outlived(kept, p).key # p
           /\ kept.key # p => Outlived(kept, p) = kept
           /\ kept.key = p => Outlived(kept, p).key = Stale /\ kept # NoPath /\ kept # NoFile
<1>1. /\ NoPath.key \notin Proc /\ NoFile.key \notin Proc /\ Stale \notin Proc
      /\ NoVersion \in Version
  BY NamesDiffer
<1>2. CASE kept.key # p
  BY <1>2 DEF Outlived
<1>3. CASE kept.key = p
  <2> DEFINE o == [kept EXCEPT !.key = Stale, !.version = NoVersion]
  <2>1. Outlived(kept, p) = o /\ kept # NoPath /\ kept # NoFile
    BY <1>1, <1>3 DEF Outlived
  <2>2. ASSUME kept \in Paths PROVE o \in Paths /\ o.key = Stale
    <3>1. kept \in [key : Proc \cup {Stale}, version : Version]
      BY <2>1, <2>2 DEF Paths
    <3> QED
      BY <1>1, <3>1 DEF Paths
  <2>3. ASSUME kept \in Files PROVE o \in Files /\ o.key = Stale
    <3>1. kept \in [key : Proc \cup {Stale, Empty}, version : Version, stamp : Stamp]
      BY <2>1, <2>3 DEF Files
    <3> QED
      BY <1>1, <3>1 DEF Files
  <2> QED
    BY <1>1, <1>3, <2>1, <2>2, <2>3
<1> QED
  BY <1>2, <1>3

\* A process ends at once, and its keys lead nowhere; other processes are as before.
LEMMA DeathKeepsWorld ==
    ASSUME World, bound' = bound, NEW p \in Proc, NEW known \in Paths, Published(known),
           known # NoPath => last_modified' \in Stamp, last_modified' \in Stamp \cup {2},
           Died(p, known), session' = << >> \/ (session' = session /\ ~Serving(p))
    PROVE  World' /\ Kept
<1>1. /\ proc \in [Proc -> [st : State, version : Version]]
      /\ server_mutex \in Proc \cup {NoProc} /\ file_lock \in Proc \cup {NoProc}
      /\ file \in Files /\ NoProc \notin Proc /\ Stale \notin Proc
      /\ Gone \in [st : State, version : Version] /\ Gone.st = "none"
  BY NamesDiffer, IpcTypes DEF World, Gone, State
<1>2. /\ proc' \in [Proc -> [st : State, version : Version]] /\ proc'[p].st = "none"
      /\ \A q \in Proc \ {p} : proc'[q] = proc[q]
      /\ server_mutex' = MutexWithout(p) /\ file_lock' = LockWithout(p)
      /\ file' = Outlived(file, p) /\ path' = Outlived(known, p)
  BY <1>1 DEF Died
<1>3. IpcTypeOK'
  <2>1. server_mutex' \in Proc \cup {NoProc} /\ file_lock' \in Proc \cup {NoProc}
    BY <1>1, <1>2 DEF MutexWithout, LockWithout
  <2>2. file' \in Files /\ path' \in Paths
    BY <1>1, <1>2, OutlivedIsTrue
  <2> QED
    BY <1>2, <2>1, <2>2 DEF IpcTypeOK, Files, Paths
<1>4. OneServer'
  BY <1>1, <1>2 DEF World, OneServer, MutexWithout
<1>5. KeysAreTrue'
  <2>1. Published(file)'
    BY <1>1, <1>2, OutlivedIsTrue DEF World, KeysAreTrue, Published
  <2>2. Published(path)'
    BY <1>1, <1>2, OutlivedIsTrue DEF Published
  <2>3. path' # NoPath => known # NoPath
    BY <1>1, <1>2, OutlivedIsTrue
  <2> QED
    BY <2>1, <2>2, <2>3 DEF KeysAreTrue
<1>6. ASSUME file = NoFile PROVE file' = NoFile
  <2>1. file.key # p
    BY <1>6, NamesDiffer
  <2>2. Outlived(file, p) = file
    BY <1>1, <2>1, OutlivedIsTrue
  <2> QED
    BY ONLY <1>2, <1>6, <2>2
<1>7. FileOfServer'
  <2>1. file = NoFile => file' = NoFile
    BY ONLY <1>6
  <2>2. \A q \in Proc : file.key = q /\ q # p => file' = file
    BY <1>1, <1>2, OutlivedIsTrue
  <2> QED
    BY <1>2, <2>1, <2>2 DEF World, FileOfServer, Serving
<1>8. SessionsAreServed' /\ Kept
  <2>1. CASE session' = << >>
    BY <2>1, NoSessions DEF SessionsAreServed, Kept, Sessions
  <2>2. CASE session' = session /\ ~Serving(p)
    <3>1. \A q \in Proc : Serving(q) <=> Serving(q)'
      BY <1>2, <2>2 DEF Serving
    <3>2. file = NoFile => file' = NoFile
      BY ONLY <1>6
    <3>3. \A q \in Proc : Serving(q)' => proc'[q].version = proc[q].version
      BY <1>2 DEF Serving
    <3> QED
      BY <2>2, <3>1, <3>2, <3>3 DEF World, SessionsAreServed, Kept
  <2> QED
    BY <2>1, <2>2
<1> QED
  BY <1>3, <1>4, <1>5, <1>7, <1>8 DEF World

\* A process goes on to a state in which it serves no more.
LEMMA RetiringKeepsWorld ==
    ASSUME World, bound' = bound, NEW p \in Proc, NEW st \in {"saving", "unlocked", "closed"},
           proc' = [proc EXCEPT ![p].st = st],
           proc[p].st \in {"ready", "saving", "unlocked"},
           st = "saving" => proc[p].st = "ready" /\ server_mutex' = server_mutex,
           server_mutex' \in {server_mutex, MutexWithout(p)},
           file_lock' \in {file_lock, LockWithout(p)}, file' = file,
           \/ path' = path /\ last_modified' = last_modified
           \/ path' = KeyOf(p) /\ last_modified' \in Stamp,
           last_modified' \in Stamp \cup {2},
           session' = << >> \/ (session' = session /\ ~Serving(p))
    PROVE  World' /\ Kept
<1>1. /\ proc \in [Proc -> [st : State, version : Version]]
      /\ server_mutex \in Proc \cup {NoProc} /\ file_lock \in Proc \cup {NoProc}
      /\ file \in Files /\ path \in Paths /\ NoProc \notin Proc
  BY NamesDiffer, IpcTypes DEF World
<1>2. /\ proc' \in [Proc -> [st : State, version : Version]]
      /\ proc'[p].st = st /\ proc'[p].version = proc[p].version
      /\ \A q \in Proc \ {p} : proc'[q] = proc[q]
  BY <1>1 DEF State
<1>3. \A q \in Proc : proc'[q].version = proc[q].version /\ (Serving(q)' => Serving(q))
  BY <1>2 DEF Serving
<1>4. IpcTypeOK'
  <2>1. server_mutex' \in Proc \cup {NoProc} /\ file_lock' \in Proc \cup {NoProc}
    BY <1>1 DEF MutexWithout, LockWithout
  <2>2. path' \in Paths
    BY <1>1 DEF KeyOf, Paths
  <2> QED
    BY <1>1, <1>2, <2>1, <2>2 DEF IpcTypeOK, Files, Paths
<1>5. OneServer'
  <2>1. ASSUME NEW q \in Proc, proc'[q].st \in {"locked", "ready", "saving"}
        PROVE  server_mutex' = q
    <3>1. CASE q = p
      BY <1>2, <2>1, <3>1 DEF World, OneServer
    <3>2. CASE q # p
      BY <1>2, <2>1, <3>2 DEF World, OneServer, MutexWithout
    <3> QED
      BY <3>1, <3>2
  <2> QED
    BY <2>1 DEF OneServer
<1>6. KeysAreTrue'
  <2>1. Published(file)'
    BY <1>2 DEF World, KeysAreTrue, Published
  <2>2. Published(path)' /\ (path' # NoPath => last_modified' \in Stamp)
    BY <1>2 DEF World, KeysAreTrue, Published, KeyOf
  <2> QED
    BY <2>1, <2>2 DEF KeysAreTrue
<1>7. FileOfServer'
  BY <1>3 DEF World, FileOfServer
<1>8. SessionsAreServed' /\ Kept
  <2>1. CASE session' = << >>
    BY <2>1, NoSessions DEF SessionsAreServed, Kept, Sessions
  <2>2. CASE session' = session /\ ~Serving(p)
    <3>1. \A q \in Proc : Serving(q) <=> Serving(q)'
      BY <1>2, <2>2 DEF Serving
    <3> QED
      BY <1>3, <2>2, <3>1 DEF World, SessionsAreServed, Kept
  <2> QED
    BY <2>1, <2>2
<1> QED
  BY <1>4, <1>5, <1>6, <1>7, <1>8 DEF World

\* A process that starts, or that takes the mutex.
LEMMA StartingKeepsWorld ==
    ASSUME World, bound' = bound, UNCHANGED <<file, file_lock, ipcClient, session>>, NEW p \in Proc,
           \/ /\ proc[p].st = "none" /\ UNCHANGED server_mutex
              /\ \E v \in Version : proc' = Spawned(p, v)
           \/ LockServer(p)
    PROVE  World' /\ Kept
<1>1. /\ proc \in [Proc -> [st : State, version : Version]]
      /\ server_mutex \in Proc \cup {NoProc} /\ NoProc \notin Proc
      /\ Gone \in [st : State, version : Version] /\ Gone.st = "none"
  BY NamesDiffer, IpcTypes DEF World, Gone, State
<1>2. /\ proc' \in [Proc -> [st : State, version : Version]]
      /\ proc[p].st \in {"none", "spawned"} /\ proc'[p].st \in {"none", "spawned", "locked"}
      /\ \A q \in Proc \ {p} : proc'[q] = proc[q]
      /\ \/ server_mutex' = server_mutex /\ proc'[p].st # "locked"
         \/ server_mutex = NoProc /\ server_mutex' = p
  BY <1>1 DEF Spawned, LockServer, State
<1>3. \A q \in Proc : Serving(q) <=> Serving(q)'
  BY <1>2 DEF Serving
<1>4. IpcTypeOK'
  BY <1>1, <1>2 DEF World, IpcTypeOK, ipcClient
<1>5. OneServer'
  BY <1>1, <1>2 DEF World, OneServer
<1>6. KeysAreTrue'
  BY <1>2 DEF World, KeysAreTrue, Published, ipcClient
<1>7. FileOfServer' /\ SessionsAreServed'
  BY <1>3 DEF World, FileOfServer, SessionsAreServed
<1>8. Kept
  BY <1>2, <1>3 DEF Kept, Serving
<1> QED
  BY <1>4, <1>5, <1>6, <1>7, <1>8 DEF World

\* The key file is written, or truncated and left; nobody served before.
LEMMA SavingKeepsWorld ==
    ASSUME World, bound' = bound, UNCHANGED session, NEW p \in Proc, SavePathName(p, Stamp)
    PROVE  World' /\ Kept
<1>1. /\ proc \in [Proc -> [st : State, version : Version]]
      /\ server_mutex \in Proc \cup {NoProc} /\ file_lock \in Proc \cup {NoProc}
      /\ NoProc \notin Proc /\ Gone \in [st : State, version : Version] /\ Gone.st = "none"
      /\ NoVersion \in Version /\ Empty \notin Proc
  BY NamesDiffer, IpcTypes DEF World, Gone, State
<1>2. proc[p].st = "locked" /\ server_mutex = p
  BY DEF SavePathName, World, OneServer
<1>3. \A q \in Proc : ~Serving(q)
  BY <1>2 DEF World, OneServer, Serving
<1>4. session = << >> \/ DOMAIN session = {}
  BY <1>3 DEF World, SessionsAreServed
<1>5. PICK s \in Stamp :
        IF file_lock = NoProc
        THEN /\ file' = [key |-> p, version |-> proc[p].version, stamp |-> s]
             /\ file_lock' = p /\ proc' = [proc EXCEPT ![p].st = "ready"] /\ UNCHANGED server_mutex
        ELSE /\ file' = [key |-> Empty, version |-> NoVersion, stamp |-> s]
             /\ proc' = [proc EXCEPT ![p] = Gone] /\ server_mutex' = NoProc /\ UNCHANGED file_lock
  BY DEF SavePathName
<1>6. UNCHANGED ipcClient
  BY DEF SavePathName
<1>7. CASE file_lock = NoProc
  <2>1. /\ proc' \in [Proc -> [st : State, version : Version]]
        /\ proc'[p].st = "ready" /\ proc'[p].version = proc[p].version
        /\ \A q \in Proc \ {p} : proc'[q] = proc[q]
        /\ file' = [key |-> p, version |-> proc[p].version, stamp |-> s]
        /\ server_mutex' = server_mutex /\ file_lock' = p
    BY <1>1, <1>5, <1>7 DEF State
  <2>2. IpcTypeOK' /\ OneServer'
    BY <1>1, <1>2, <1>6, <2>1 DEF World, IpcTypeOK, OneServer, ipcClient
  <2>3. KeysAreTrue'
    BY <1>2, <1>6, <2>1 DEF World, KeysAreTrue, Published, ipcClient
  <2>4. FileOfServer'
    BY <1>3, <2>1 DEF FileOfServer, Serving
  <2> QED
    BY <1>4, <2>2, <2>3, <2>4 DEF World, SessionsAreServed, Kept
<1>8. CASE file_lock # NoProc
  <2>1. /\ proc' \in [Proc -> [st : State, version : Version]] /\ proc'[p].st = "none"
        /\ \A q \in Proc \ {p} : proc'[q] = proc[q]
        /\ file' = [key |-> Empty, version |-> NoVersion, stamp |-> s]
        /\ server_mutex' = NoProc /\ file_lock' = file_lock
    BY <1>1, <1>5, <1>8
  <2>2. IpcTypeOK' /\ OneServer'
    BY <1>1, <1>2, <1>6, <2>1 DEF World, IpcTypeOK, OneServer, ipcClient
  <2>3. KeysAreTrue'
    BY <1>1, <1>2, <1>6, <2>1 DEF World, KeysAreTrue, Published, ipcClient
  <2>4. FileOfServer'
    BY <1>3, <2>1 DEF FileOfServer, Serving
  <2> QED
    BY <1>4, <2>2, <2>3, <2>4 DEF World, SessionsAreServed, Kept
<1> QED
  BY <1>7, <1>8

\* The key file is removed, whosever it is.
LEMMA UnlinkingKeepsWorld ==
    ASSUME World, bound' = bound, UNCHANGED session, NEW p \in Proc, UnlinkFile(p)
    PROVE  World' /\ Kept
<1>1. /\ proc \in [Proc -> [st : State, version : Version]] /\ path \in Paths
      /\ NoFile \in Files /\ NoFile.key \notin Proc /\ Stale \notin Proc
      /\ Gone \in [st : State, version : Version] /\ Gone.st = "none"
  BY NamesDiffer, IpcTypes DEF World, Gone, State, Files
<1>2. /\ proc' \in [Proc -> [st : State, version : Version]] /\ proc'[p].st = "none"
      /\ proc[p].st = "closed" /\ \A q \in Proc \ {p} : proc'[q] = proc[q]
      /\ file' = NoFile /\ file_lock' = NoProc /\ path' = Outlived(path, p)
      /\ UNCHANGED <<server_mutex, last_modified>>
  BY <1>1 DEF UnlinkFile
<1>3. \A q \in Proc : Serving(q) <=> Serving(q)'
  BY <1>2 DEF Serving
<1>4. IpcTypeOK'
  BY <1>1, <1>2, OutlivedIsTrue, IpcTypes DEF World, IpcTypeOK, Files, Paths
<1>5. OneServer'
  BY <1>2 DEF World, OneServer
<1>6. KeysAreTrue'
  BY <1>1, <1>2, OutlivedIsTrue DEF World, KeysAreTrue, Published
<1>7. FileOfServer' /\ SessionsAreServed'
  BY <1>2, <1>3 DEF World, FileOfServer, SessionsAreServed
<1>8. Kept
  BY <1>2, <1>3 DEF Kept, Serving
<1> QED
  BY <1>4, <1>5, <1>6, <1>7, <1>8 DEF World

\* The server processes alone.
LEMMA ServersKeepWorld ==
    ASSUME World, bound' = bound, UNCHANGED session, NEW p \in Proc, NEW stamps \in SUBSET Stamp,
           ServerStep(p, stamps)
    PROVE  World' /\ Kept
<1>1. CASE LockServer(p)
  BY <1>1, StartingKeepsWorld DEF LockServer
<1>2. CASE SavePathName(p, stamps)
  <2>1. SavePathName(p, Stamp)
    BY <1>2 DEF SavePathName
  <2> QED
    BY <2>1, SavingKeepsWorld
<1>3. CASE LeaveRun(p)
  <2>1. last_modified \in Stamp \cup {2} /\ ~Serving(p)
    BY <1>3, IpcTypes DEF World, LeaveRun, Serving
  <2> QED
    BY <1>3, <2>1, RetiringKeepsWorld DEF LeaveRun, ipcClient
<1>4. CASE CloseFile(p)
  <2>1. last_modified \in Stamp \cup {2} /\ ~Serving(p)
    BY <1>4, IpcTypes DEF World, CloseFile, Serving
  <2> QED
    BY <1>4, <2>1, RetiringKeepsWorld DEF CloseFile, ipcClient
<1>5. CASE UnlinkFile(p)
  BY <1>5, UnlinkingKeepsWorld
<1> QED
  BY <1>1, <1>2, <1>3, <1>4, <1>5 DEF ServerStep

-----------------------------------------------------------------------------
\* Calls.

\* Nothing moves, or all sessions are gone.
LEMMA SameSessionsAreKept ==
    ASSUME session' = << >> \/ UNCHANGED <<proc, file, session>> PROVE Kept
BY NoSessions DEF Kept, Serving

\* Nothing but what the client remembers moves, or the sessions of a server that serves.
LEMMA RememberingKeepsWorld ==
    ASSUME World, bound' = bound, UNCHANGED ipcServer,
           path' \in Paths, Published(path'), path' # NoPath => last_modified' \in Stamp,
           last_modified' \in Stamp \cup {2},
           Sessions(session'), session' = session \/ \E p \in Proc : Serving(p)
    PROVE  World'
<1>1. IpcTypeOK'
  BY IpcTypes DEF World, IpcTypeOK, ipcServer, Files, Paths
<1>2. OneServer' /\ KeysAreTrue' /\ FileOfServer'
  BY DEF World, OneServer, KeysAreTrue, FileOfServer, Published, Serving, ipcServer
<1>3. SessionsAreServed'
  BY DEF World, SessionsAreServed, Sessions, Serving, ipcServer
<1> QED
  BY <1>1, <1>2, <1>3 DEF World

\* The server that is connected to has evaluated the request.
Evaluated(eval) ==
    /\ session' = eval.sessions /\ UNCHANGED <<proc, file>> /\ server_status \notin Dead
    /\ \E p \in Proc : Serving(p) /\ file.key = p /\ seen' = proc[p].version
    /\ seen' \notin OtherProtocol

\* Why nobody was asked.
Refused(status) ==
    \/ server_status \in Dead /\ status = server_status
    \/ /\ server_status \notin Dead /\ status \in {"UNKNOWN", "SHUTDOWN"}
       /\ status = "UNKNOWN" => server_status = "UNKNOWN"
       /\ \A p \in Proc : ~(Serving(p) /\ file.key = p)
    \/ /\ server_status \notin Dead /\ status = server_status
       /\ seen' \in OtherProtocol /\ \E p \in Proc : Serving(p) /\ proc[p].version = seen'

\* All that can become of a call.
Outcome(eval, shuts, r) ==
    \/ /\ ~shuts /\ r = Reply(TRUE, eval.reply, server_status)
       /\ Evaluated(eval)
    \/ r = Reply(TRUE, EmptyOutput, server_status) /\ session' = << >> /\ server_status \notin Dead
    \/ /\ r \in {Reply(FALSE, EmptyOutput, st) : st \in {"SHUTDOWN", "BROKEN_MESSAGE"}}
       /\ session' = << >>
    \/ r = Reply(FALSE, EmptyOutput, "TIMEOUT") /\ Evaluated(eval)
    \/ \E st \in Status :
         r = Reply(FALSE, EmptyOutput, st) /\ Refused(st) /\ UNCHANGED <<proc, file, session>>

SeenTypes == seen \in Version \cup {"unset"} /\ seen_pid \in Proc \cup {NoProc}

\* Exchange with a server that serves.
LEMMA ExchangeKeepsWorld ==
    ASSUME World, bound' = bound, NEW p \in Proc, Serving(p), last_modified' \in Stamp,
           NEW eval, Sessions(eval.sessions), NEW shuts \in BOOLEAN, NEW r,
           Exchange(p, eval, shuts, r)
    PROVE  /\ World' /\ Sessions(session')
           /\ \/ ~shuts /\ r = Reply(TRUE, eval.reply, server_status)
                 /\ session' = eval.sessions /\ UNCHANGED <<proc, file>>
              \/ r = Reply(TRUE, EmptyOutput, server_status) /\ session' = << >>
              \/ /\ r \in {Reply(FALSE, EmptyOutput, st) : st \in {"SHUTDOWN", "BROKEN_MESSAGE"}}
                 /\ session' = << >>
              \/ /\ r = Reply(FALSE, EmptyOutput, "TIMEOUT")
                 /\ session' = eval.sessions /\ UNCHANGED <<proc, file>>
<1>1. KeyOf(p) \in Paths /\ KeyOf(p) # NoPath /\ Published(KeyOf(p))
  BY KeyOfIsPath DEF Published, Serving
<1>2. ASSUME session' = eval.sessions, path' = KeyOf(p), UNCHANGED ipcServer PROVE World'
  BY <1>1, <1>2, RememberingKeepsWorld DEF Published, Sessions
<1>3. ASSUME session' = << >>, LoopEnds(p), path' = KeyOf(p) PROVE World'
  BY <1>3, RetiringKeepsWorld DEF LoopEnds, Serving
<1>4. ASSUME session' = << >>, Died(p, KeyOf(p)) PROVE World'
  BY <1>1, <1>4, DeathKeepsWorld
<1>5. World' /\ (session' = eval.sessions \/ session' = << >>)
  BY <1>2, <1>3, <1>4 DEF Exchange
<1>6. Sessions(session')
  BY <1>5, NoSessions
<1>7. \/ ~shuts /\ r = Reply(TRUE, eval.reply, server_status)
         /\ session' = eval.sessions /\ UNCHANGED <<proc, file>>
      \/ r = Reply(TRUE, EmptyOutput, server_status) /\ session' = << >>
      \/ /\ r \in {Reply(FALSE, EmptyOutput, st) : st \in {"SHUTDOWN", "BROKEN_MESSAGE"}}
         /\ session' = << >>
      \/ /\ r = Reply(FALSE, EmptyOutput, "TIMEOUT")
         /\ session' = eval.sessions /\ UNCHANGED <<proc, file>>
  BY DEF Exchange, ipcServer
<1> QED
  BY <1>5, <1>6, <1>7

LEMMA CallKeepsWorld ==
    ASSUME World, bound' = bound, SeenTypes, server_status \in Status,
           NEW eval, Sessions(eval.sessions), NEW shuts \in BOOLEAN, NEW r, Call(eval, shuts, r)
    PROVE  World' /\ SeenTypes' /\ Sessions(session') /\ Outcome(eval, shuts, r)
<1> DEFINE c == Connect
<1>0. /\ Link(c) /\ NoProc \notin Proc /\ Sessions(session)
      /\ \A p \in Proc : Serving(p) /\ file.key = p => c.to = p
  BY ConnectFinds, NamesDiffer DEF World, SessionsAreServed, Sessions
<1>1. CASE server_status \in Dead
  <2>1. /\ r = Reply(FALSE, EmptyOutput, server_status) /\ path' = path
        /\ UNCHANGED <<ipcServer, session, last_modified, seen, seen_pid>>
    BY <1>1 DEF Call, NotSent, Cache
  <2>2. World'
    BY <1>0, <2>1, RememberingKeepsWorld, IpcTypes DEF World, KeysAreTrue
  <2>3. Refused(server_status)
    BY <1>1 DEF Refused
  <2> QED
    BY <1>0, <2>1, <2>2, <2>3 DEF SeenTypes, Outcome, ipcServer
<1> HIDE DEF c
<1>2. CASE server_status \notin Dead
  <2>1. /\ last_modified' = c.stamp
        /\ seen' = (IF c.to = NoProc THEN "same" ELSE c.path.version) /\ seen_pid' = c.to
        /\ \/ /\ c.to = NoProc
              /\ NotSent(c, IF server_status = "UNKNOWN" THEN "UNKNOWN" ELSE "SHUTDOWN", r)
           \/ /\ c.to # NoProc /\ c.path.version \in OtherProtocol
              /\ NotSent(c, server_status, r)
           \/ /\ c.to # NoProc /\ c.path.version \notin OtherProtocol
              /\ Exchange(c.to, eval, shuts, r)
    BY <1>2 DEF Call, c
  <2>2. CASE c.to = NoProc
    <3> DEFINE st == IF server_status = "UNKNOWN" THEN "UNKNOWN" ELSE "SHUTDOWN"
    <3>1. r = Reply(FALSE, EmptyOutput, st) /\ path' = c.path /\ UNCHANGED <<ipcServer, session>>
      BY <2>1, <2>2 DEF NotSent
    <3>2. World'
      BY <1>0, <2>1, <3>1, RememberingKeepsWorld DEF Link
    <3>3. st \in Status /\ Refused(st)
      BY <1>0, <1>2, <2>2 DEF Refused, Status
    <3>4. SeenTypes'
      BY <2>1, <2>2, VersionAssumption DEF SeenTypes
    <3> HIDE DEF st
    <3> QED
      BY <1>0, <3>1, <3>2, <3>3, <3>4 DEF Outcome, ipcServer
  <2>3. ASSUME c.to # NoProc PROVE c.to \in Proc /\ Serving(c.to) /\ file.key = c.to
                                    /\ c.path = KeyOf(c.to) /\ c.stamp \in Stamp
                                    /\ c.path.version = proc[c.to].version
                                    /\ c.path.version \in Version
    <3>1. c.to \in Proc
      BY <1>0, <2>3 DEF Link
    <3>2. Serving(c.to) /\ file.key = c.to /\ c.path = KeyOf(c.to)
      BY <1>0, <3>1 DEF Link
    <3>3. c.path # NoPath /\ c.path.version = proc[c.to].version
      BY <3>1, <3>2, KeyOfIsPath
    <3>4. c.path.version \in Version /\ c.stamp \in Stamp
      BY <1>0, <3>1, <3>3, IpcTypes DEF World, Link
    <3> QED
      BY <3>1, <3>2, <3>3, <3>4
  <2>4. CASE c.to # NoProc /\ c.path.version \in OtherProtocol
    <3>1. /\ r = Reply(FALSE, EmptyOutput, server_status) /\ path' = c.path
          /\ UNCHANGED <<ipcServer, session>> /\ seen' = c.path.version
      BY <2>1, <2>4 DEF NotSent
    <3>2. World'
      BY <1>0, <2>1, <3>1, RememberingKeepsWorld DEF Link
    <3>3. Refused(server_status)
      BY <1>2, <2>3, <2>4, <3>1 DEF Refused
    <3>4. SeenTypes'
      BY <2>1, <2>3, <2>4 DEF SeenTypes
    <3> QED
      BY <1>0, <3>1, <3>2, <3>3, <3>4 DEF Outcome, ipcServer
  <2>5. CASE c.to # NoProc /\ c.path.version \notin OtherProtocol
    <3>1. Exchange(c.to, eval, shuts, r) /\ last_modified' \in Stamp
      BY <2>1, <2>3, <2>5
    <3>2. SeenTypes' /\ seen' = proc[c.to].version /\ seen' \notin OtherProtocol
      BY <2>1, <2>3, <2>5 DEF SeenTypes
    <3>3. /\ World' /\ Sessions(session')
          /\ \/ ~shuts /\ r = Reply(TRUE, eval.reply, server_status)
                /\ session' = eval.sessions /\ UNCHANGED <<proc, file>>
             \/ r = Reply(TRUE, EmptyOutput, server_status) /\ session' = << >>
             \/ /\ r \in {Reply(FALSE, EmptyOutput, st) : st \in {"SHUTDOWN", "BROKEN_MESSAGE"}}
                /\ session' = << >>
             \/ /\ r = Reply(FALSE, EmptyOutput, "TIMEOUT")
                /\ session' = eval.sessions /\ UNCHANGED <<proc, file>>
      BY <2>3, <2>5, <3>1, ExchangeKeepsWorld
    <3>4. session' = eval.sessions /\ UNCHANGED <<proc, file>> => Evaluated(eval)
      BY <1>2, <2>3, <2>5, <3>2 DEF Evaluated
    <3> QED
      BY <1>2, <3>2, <3>3, <3>4 DEF Outcome
  <2> QED
    BY <2>2, <2>4, <2>5
<1> QED
  BY <1>1, <1>2

\* A ping is a call that leaves no trace.
LEMMA PingKeepsWorld ==
    ASSUME World, bound' = bound, NEW ok \in BOOLEAN, PingServer(ok)
    PROVE  World' /\ Kept
<1> DEFINE c == Connect
<1>0. Link(c) /\ Sessions(session)
  BY ConnectFinds DEF World, SessionsAreServed, Sessions
<1>1. PICK r \in Replies(EvalOther(id)) :
        IF c.to = NoProc THEN NotSent(c, server_status, r)
                         ELSE Exchange(c.to, EvalOther(id), FALSE, r)
  BY DEF PingServer
<1>2. last_modified' = c.stamp
  BY DEF PingServer
<1> HIDE DEF c
<1>3. CASE c.to = NoProc
  <2>1. path' = c.path /\ UNCHANGED <<ipcServer, session>>
    BY <1>1, <1>3 DEF NotSent
  <2> QED
    BY <1>0, <1>2, <2>1, RememberingKeepsWorld, SameSessionsAreKept DEF Link, ipcServer
<1>4. CASE c.to # NoProc
  <2>1. c.to \in Proc
    BY <1>0, <1>4 DEF Link
  <2>2. Serving(c.to) /\ c.path = KeyOf(c.to) /\ c.path # NoPath
    BY <1>0, <2>1, KeyOfIsPath DEF Link
  <2>3. Exchange(c.to, EvalOther(id), FALSE, r) /\ last_modified' \in Stamp
    BY <1>0, <1>1, <1>2, <1>4, <2>2 DEF Link
  <2>4. EvalOther(id).sessions = session
    BY DEF EvalOther
  <2>5. World' /\ (session' = << >> \/ UNCHANGED <<proc, file, session>>)
    BY <1>0, <2>1, <2>2, <2>3, <2>4, ExchangeKeepsWorld
  <2> QED
    BY <2>5, SameSessionsAreKept
<1> QED
  BY <1>3, <1>4

-----------------------------------------------------------------------------
\* The stack.

LEMMA TopIsFirst ==
    ASSUME stack \in Seq(Labels), NEW l, At(l)
    PROVE  /\ stack # << >> /\ Len(stack) \in Nat \ {0} /\ stack[1] = l
           /\ Tail(stack) \in Seq(Labels) /\ Len(Tail(stack)) = Len(stack) - 1
           /\ \A i \in 1 .. Len(stack) - 1 : Tail(stack)[i] = stack[i + 1]
BY DEF At

\* The top goes on to another label of the same operation.
LEMMA GotoMoves ==
    ASSUME stack \in Seq(Labels), Nested(stack), NEW l, At(l), NEW m \in Labels, Goto(m),
           \A b \in Labels : Calls(l, b) => Calls(m, b), l \in CallLabels <=> m \in CallLabels
    PROVE  /\ stack' \in Seq(Labels) /\ Nested(stack') /\ At(m)' /\ ret' = ret
           /\ Inputting(stack') <=> Inputting(stack)
           /\ Restoring(stack') <=> Restoring(stack)
           /\ \A x : At(x)' => x = m
<1>1. /\ Len(stack) \in Nat \ {0} /\ stack[1] = l
      /\ Tail(stack) \in Seq(Labels) /\ Len(Tail(stack)) = Len(stack) - 1
      /\ \A i \in 1 .. Len(stack) - 1 : Tail(stack)[i] = stack[i + 1]
  BY TopIsFirst
<1>2. stack' = <<m>> \o Tail(stack) /\ ret' = ret
  BY DEF Goto
<1>3. /\ stack' \in Seq(Labels) /\ Len(stack') = Len(stack)
      /\ stack'[1] = m /\ \A i \in 2 .. Len(stack) : stack'[i] = stack[i]
  BY <1>1, <1>2
<1>4. Nested(stack')
  <2> SUFFICES ASSUME NEW i \in 1 .. Len(stack) - 1 PROVE Calls(stack'[i], stack'[i + 1])
    BY <1>3 DEF Nested
  <2>1. Calls(stack[i], stack[i + 1]) /\ stack[i + 1] \in Labels
    BY <1>1 DEF Nested
  <2> QED
    BY <1>1, <1>3, <2>1
<1>5. At(m)' /\ \A x : At(x)' => x = m
  BY <1>1, <1>3 DEF At
<1>6. Inputting(stack') <=> Inputting(stack)
  BY <1>1, <1>3 DEF Inputting
<1>7. Restoring(stack') <=> Restoring(stack)
  BY <1>1, <1>3 DEF Restoring
<1> QED
  BY <1>2, <1>3, <1>4, <1>5, <1>6, <1>7

\* The top calls another operation, and will go on at another label of its own.
LEMMA PerformMoves ==
    ASSUME stack \in Seq(Labels), Nested(stack), NEW l, At(l), NEW m \in Labels, NEW t \in Labels,
           Perform(m, t), Calls(m, t), \A b \in Labels : Calls(l, b) => Calls(t, b),
           l \in CallLabels <=> t \in CallLabels, m \notin CallLabels
    PROVE  /\ stack' \in Seq(Labels) /\ Nested(stack') /\ At(m)' /\ ret' = ret
           /\ Inputting(stack') <=> Inputting(stack)
           /\ Restoring(stack') => Restoring(stack) \/ t = "SessionRestored"
           /\ \A x : At(x)' => x = m
<1>1. /\ Len(stack) \in Nat \ {0} /\ stack[1] = l
      /\ Tail(stack) \in Seq(Labels) /\ Len(Tail(stack)) = Len(stack) - 1
      /\ \A i \in 1 .. Len(stack) - 1 : Tail(stack)[i] = stack[i + 1]
  BY TopIsFirst
<1>2. stack' = <<m, t>> \o Tail(stack) /\ ret' = ret
  BY DEF Perform
<1>3. /\ stack' \in Seq(Labels) /\ Len(stack') = Len(stack) + 1
      /\ stack'[1] = m /\ stack'[2] = t
      /\ \A i \in 2 .. Len(stack) : stack'[i + 1] = stack[i]
  BY <1>1, <1>2
<1>4. Nested(stack')
  <2> SUFFICES ASSUME NEW i \in 1 .. Len(stack) PROVE Calls(stack'[i], stack'[i + 1])
    BY <1>1, <1>3 DEF Nested
  <2>1. CASE i = 1
    BY <1>3, <2>1
  <2>2. CASE i # 1
    <3>1. i - 1 \in 1 .. Len(stack) - 1 /\ (i - 1) + 1 = i /\ i \in 2 .. Len(stack)
      BY <1>1, <2>2
    <3>2. Calls(stack[i - 1], stack[i]) /\ stack[i] \in Labels
      BY <1>1, <3>1 DEF Nested
    <3>3. CASE i = 2
      BY <1>1, <1>3, <3>1, <3>2, <3>3
    <3>4. CASE i # 2
      <4>1. i - 1 \in 2 .. Len(stack)
        BY <3>1, <3>4
      <4>2. stack'[i] = stack[i - 1] /\ stack'[i + 1] = stack[i]
        BY <1>3, <3>1, <4>1
      <4> QED
        BY <3>2, <4>2
    <3> QED
      BY <3>3, <3>4
  <2> QED
    BY <2>1, <2>2
<1>5. At(m)' /\ \A x : At(x)' => x = m
  BY <1>1, <1>3 DEF At
<1>6. Inputting(stack') <=> Inputting(stack)
  <2>1. ASSUME NEW i \in 1 .. Len(stack'), stack'[i] \in CallLabels
        PROVE  \E j \in 1 .. Len(stack) : stack[j] \in CallLabels
    <3>1. CASE i \in {1, 2}
      BY <1>1, <1>3, <2>1, <3>1
    <3>2. CASE i \notin {1, 2}
      <4>1. i - 1 \in 2 .. Len(stack) /\ (i - 1) + 1 = i
        BY <1>1, <1>3, <3>2
      <4>2. stack'[i] = stack[i - 1]
        BY <1>3, <4>1
      <4> QED
        BY <2>1, <4>1, <4>2
    <3> QED
      BY <3>1, <3>2
  <2>2. ASSUME NEW i \in 1 .. Len(stack), stack[i] \in CallLabels
        PROVE  stack'[i + 1] \in CallLabels /\ i + 1 \in 1 .. Len(stack')
    BY <1>1, <1>3, <2>2
  <2> QED
    BY <2>1, <2>2 DEF Inputting
<1>7. Restoring(stack') => Restoring(stack) \/ t = "SessionRestored"
  <2> SUFFICES ASSUME NEW i \in 2 .. Len(stack'), stack'[i] = "SessionRestored",
                      t # "SessionRestored"
               PROVE  Restoring(stack)
    BY DEF Restoring
  <2>1. i - 1 \in 2 .. Len(stack) /\ (i - 1) + 1 = i
    BY <1>1, <1>3
  <2>2. stack'[i] = stack[i - 1]
    BY <1>3, <2>1
  <2> QED
    BY <2>1, <2>2 DEF Restoring
<1> QED
  BY <1>2, <1>3, <1>4, <1>5, <1>6, <1>7

\* The top returns to whoever has called it.
LEMMA ReturnMoves ==
    ASSUME stack \in Seq(Labels), Nested(stack), NEW l, At(l), stack' = Tail(stack)
    PROVE  /\ stack' \in Seq(Labels) /\ Nested(stack')
           /\ l \notin CallLabels => (Inputting(stack') <=> Inputting(stack))
           /\ l \in CallLabels => ~Inputting(stack')
           /\ Restoring(stack') => Restoring(stack)
           /\ l \in SessionLabels \cup CallLabels => ~Restoring(stack')
           /\ At("SessionRestored")' => Restoring(stack)
           /\ \A x : At(x)' => Calls(l, x)
<1>1. /\ Len(stack) \in Nat \ {0} /\ stack[1] = l
      /\ Tail(stack) \in Seq(Labels) /\ Len(Tail(stack)) = Len(stack) - 1
      /\ \A i \in 1 .. Len(stack) - 1 : Tail(stack)[i] = stack[i + 1]
  BY TopIsFirst
<1>2. /\ stack' \in Seq(Labels) /\ Len(stack') = Len(stack) - 1
      /\ \A i \in 1 .. Len(stack') : stack'[i] = stack[i + 1] /\ i + 1 \in 2 .. Len(stack)
      /\ \A i \in 2 .. Len(stack) : stack[i] = stack'[i - 1] /\ i - 1 \in 1 .. Len(stack')
  BY <1>1
<1>3. Nested(stack')
  <2> SUFFICES ASSUME NEW i \in 1 .. Len(stack') - 1 PROVE Calls(stack'[i], stack'[i + 1])
    BY DEF Nested
  <2>1. Calls(stack[i + 1], stack[(i + 1) + 1])
    BY <1>1, <1>2 DEF Nested
  <2>2. stack'[i] = stack[i + 1] /\ stack'[i + 1] = stack[(i + 1) + 1]
    BY <1>1, <1>2
  <2> QED
    BY <2>1, <2>2
<1>4. \A x : At(x)' => Len(stack) >= 2 /\ x = stack[2] /\ Calls(l, x)
  <2> SUFFICES ASSUME NEW x, At(x)' PROVE Len(stack) >= 2 /\ x = stack[2] /\ Calls(l, x)
    OBVIOUS
  <2>1. Len(stack') >= 1 /\ x = stack'[1]
    BY <1>1, <1>2 DEF At
  <2>2. Calls(stack[1], stack[1 + 1])
    BY <1>1, <1>2, <2>1 DEF Nested
  <2> QED
    BY <1>1, <1>2, <2>1, <2>2
<1>5. l \notin CallLabels => (Inputting(stack') <=> Inputting(stack))
  <2>1. ASSUME Inputting(stack') PROVE Inputting(stack)
    BY <1>1, <1>2, <2>1 DEF Inputting
  <2>2. ASSUME l \notin CallLabels, NEW i \in 1 .. Len(stack), stack[i] \in CallLabels
        PROVE  Inputting(stack')
    <3>1. i \in 2 .. Len(stack)
      BY <1>1, <2>2
    <3> QED
      BY <1>2, <2>2, <3>1 DEF Inputting
  <2> QED
    BY <2>1, <2>2 DEF Inputting
<1>6. l \in CallLabels => ~Inputting(stack')
  <2> SUFFICES ASSUME l \in CallLabels, NEW i \in 1 .. Len(stack'), stack'[i] \in CallLabels
               PROVE  FALSE
    BY DEF Inputting
  <2>1. Calls(stack[1], stack[1 + 1])
    <3>1. 1 \in 1 .. Len(stack) - 1
      BY <1>1, <1>2
    <3> QED
      BY <3>1 DEF Nested
  <2>2. stack[2] = "Done"
    BY <1>1, <2>1 DEF Calls, CallLabels, StartLabels, ConnectionLabels, SessionLabels, VersionLabels
  <2>3. stack[i + 1] \in CallLabels /\ i # 1
    BY <1>2, <2>2 DEF CallLabels
  <2>4. Calls(stack[2], stack[2 + 1])
    BY <1>1, <1>2, <2>3 DEF Nested
  <2> QED
    BY <2>2, <2>4 DEF Calls, CallLabels, StartLabels, ConnectionLabels, SessionLabels, VersionLabels
<1>7. Restoring(stack') => Restoring(stack)
  <2> SUFFICES ASSUME NEW i \in 2 .. Len(stack'), stack'[i] = "SessionRestored" PROVE Restoring(stack)
    BY DEF Restoring
  <2>1. stack[i + 1] = "SessionRestored" /\ i + 1 \in 2 .. Len(stack)
    BY <1>1, <1>2
  <2> QED
    BY <2>1 DEF Restoring
<1>8. l \in SessionLabels \cup CallLabels => ~Restoring(stack')
  <2> SUFFICES ASSUME l \in SessionLabels \cup CallLabels,
                      NEW i \in 2 .. Len(stack'), stack'[i] = "SessionRestored"
               PROVE  FALSE
    BY DEF Restoring
  <2>1. /\ Len(stack) \in Nat /\ Len(stack) >= i + 1
        /\ Calls(stack[1], stack[2]) /\ Calls(stack[2], stack[3])
    <3>1. Calls(stack[1], stack[1 + 1]) /\ Calls(stack[2], stack[2 + 1]) /\ Len(stack) >= i + 1
      BY <1>1, <1>2 DEF Nested
    <3> QED
      BY <1>1, <3>1
  <2>2. stack[2] \in {"EnsureCall", "SessionRestored"} /\ stack[3] = "Done"
    BY <1>1, <2>1 DEF Calls, CallLabels, StartLabels, ConnectionLabels, SessionLabels, VersionLabels
  <2>3. stack[i + 1] = "SessionRestored" /\ i # 2
    BY <1>2, <2>2
  <2>4. Calls(stack[3], stack[3 + 1])
    BY <1>1, <2>1, <2>3 DEF Nested
  <2> QED
    BY <2>2, <2>4 DEF Calls, CallLabels, StartLabels, ConnectionLabels, SessionLabels, VersionLabels
<1>9. At("SessionRestored")' => Restoring(stack)
  BY <1>1, <1>4 DEF Restoring
<1> QED
  BY <1>2, <1>3, <1>4, <1>5, <1>6, <1>7, <1>8, <1>9

-----------------------------------------------------------------------------
\* What a step keeps of the journal.

\* The inputs that are over stay as they are, and so does what they have left.
LEMMA TextStays ==
    ASSUME Journal, UNCHANGED <<history, keys, shown, committed>>,
           Inputting(stack') <=> Inputting(stack)
    PROVE  JournalIsOver' /\ ShownIsInOrder' /\ CommittedStaysCommitted' /\ Over' = Over
<1>1. Over' = Over
  BY DEF Over, Inputting
<1>2. JournalIsOver'
  BY <1>1 DEF Journal, JournalIsOver, TooLong, Alive, Commits
<1>3. ShownIsInOrder' /\ CommittedStaysCommitted'
  BY DEF Journal, ShownIsInOrder, CommittedStaysCommitted
<1> QED
  BY <1>1, <1>2, <1>3

\* The session may be lost, and one that is not good is not called good.
LEMMA SessionStays ==
    ASSUME Journal, Kept \/ id \notin DOMAIN session', UNCHANGED <<id, history, keys, shown, committed>>,
           Inputting(stack') <=> Inputting(stack),
           server_status' = "OK" => server_status = "OK" /\ ~At("Playback") /\ ~At("SecondTrial")
    PROVE  OfSameVersion(id)' /\ GoodSessionHolds'
<1>1. Over' = Over
  BY TextStays
<1>2. CASE Kept
  <2>1. OfSameVersion(id)'
    BY <1>2 DEF Journal, OfSameVersion, Kept
  <2>2. GoodSessionHolds'
    BY <1>1, <1>2 DEF Journal, GoodSessionHolds, Holds, Kept
  <2> QED
    BY <2>1, <2>2
<1>3. CASE id \notin DOMAIN session'
  BY <1>3 DEF OfSameVersion, GoodSessionHolds
<1> QED
  BY <1>2, <1>3

\* The steps of others, which the client does not see.
Unheard == UNCHANGED <<unheard, bound>>

LEMMA OthersKeepJournal ==
    ASSUME ClientIInv, World', Kept, Unheard
    PROVE  ClientIInv'
<1>0. /\ UNCHANGED <<server_status, id, history, seen, seen_pid, stack, ret, disk, bound>>
      /\ UNCHANGED <<trial, version_trial, input, output, played, own, keys, shown, committed, replayed>>
  BY DEF Unheard, unheard, local, ghost
<1>1. Types'
  BY <1>0 DEF ClientIInv, Calling, Types, ClientTypeOK, World, SessionsAreServed, Input, Output
<1>2. Calling'
  BY <1>0, <1>1 DEF ClientIInv, Calling, Nested, Inputting, InputIsLast, Input
<1>3. JournalIsOver' /\ ShownIsInOrder' /\ CommittedStaysCommitted' /\ Over' = Over
  BY <1>0, TextStays DEF ClientIInv
<1>4. GoodSessionHolds' /\ OfSameVersion(id)'
  BY <1>0, <1>3 DEF ClientIInv, Journal, GoodSessionHolds, Holds, Kept, At, OfSameVersion
<1>5. NewSessionIsEmpty'
  BY <1>0 DEF ClientIInv, Journal, NewSessionIsEmpty, Blank, OfSameVersion, Kept, At, Restoring
<1>6. ReplayIsInOrder'
  <2>1. At("Playback")' => ~TooLong' /\ played' < Len(history')
                           /\ (id' \in DOMAIN session' => Replays(session[id], played)')
    BY <1>0 DEF ClientIInv, Journal, ReplayIsInOrder, At, TooLong, Replays, Alive, Commits, Kept
  <2>2. At("SecondTrial")' => ~TooLong' /\ (id' \in DOMAIN session' =>
                                   Replays(session[id], Len(history))' \/ Unreachable')
    BY <1>0 DEF ClientIInv, Journal, ReplayIsInOrder, At, TooLong, Replays, Alive, Commits, Kept,
                Unreachable
  <2> QED
    BY <2>1, <2>2 DEF ReplayIsInOrder
<1> QED
  BY <1>2, <1>3, <1>4, <1>5, <1>6 DEF ClientIInv, Journal

\* The steps of the client that leave the journal alone ...
Modest ==
    /\ World' /\ bound' = bound /\ UNCHANGED <<journal, disk>> /\ id' \in SessionId \cup {0}
    /\ server_status' \in Status /\ SeenTypes' /\ output' \in Output
    /\ trial' \in 0 .. MaxTrial /\ version_trial' \in 0 .. 1 /\ own' \in Proc \cup {NoProc}

\* ... and of these, the ones that leave its session alone.
Quiet ==
    /\ Modest /\ id' = id /\ (Kept \/ id \notin DOMAIN session')
    /\ server_status' = "OK" => server_status = "OK"

LEMMA ModestStep ==
    ASSUME ClientIInv, Modest,
           stack' \in Seq(Labels), Nested(stack'), ret' \in BOOLEAN,
           Inputting(stack') <=> Inputting(stack),
           OfSameVersion(id)', GoodSessionHolds', NewSessionIsEmpty', ReplayIsInOrder'
    PROVE  ClientIInv'
<1>0. UNCHANGED <<history, input, played, keys, shown, committed, replayed, disk, bound>>
  BY DEF Modest, journal, ghost
<1>1. Types'
  BY <1>0 DEF ClientIInv, Calling, Types, ClientTypeOK, World, SessionsAreServed, Input, Output,
              Modest, SeenTypes
<1>2. Calling'
  BY <1>0, <1>1 DEF ClientIInv, Calling, Nested, Inputting, InputIsLast, Input
<1>3. JournalIsOver' /\ ShownIsInOrder' /\ CommittedStaysCommitted'
  BY <1>0, TextStays DEF ClientIInv
<1> QED
  BY <1>2, <1>3 DEF ClientIInv, Journal, Modest

\* The labels that promise something of the session.
Tops == {"SessionCreated", "SetRequest", "SessionRestored", "EnsureCall", "Playback", "SecondTrial"}

LEMMA QuietStep ==
    ASSUME ClientIInv, Quiet, ~At("Playback"), ~At("SecondTrial"),
           stack' \in Seq(Labels), Nested(stack'), ret' \in BOOLEAN,
           Inputting(stack') <=> Inputting(stack), Restoring(stack') => Restoring(stack),
           \A l \in Tops : At(l)' => ~ret' /\ l \in {"SessionCreated", "SessionRestored", "EnsureCall"}
    PROVE  ClientIInv'
<1>0. UNCHANGED <<id, history, keys, shown, committed>>
  BY DEF Quiet, Modest, journal, ghost
<1>1. OfSameVersion(id)' /\ GoodSessionHolds'
  BY <1>0, SessionStays DEF ClientIInv, Quiet
<1>2. Restoring(stack)' => server_status' # "OK"
  BY DEF ClientIInv, Journal, NewSessionIsEmpty, Quiet, Restoring
<1>3. NewSessionIsEmpty' /\ ReplayIsInOrder'
  BY <1>2 DEF Tops, NewSessionIsEmpty, ReplayIsInOrder
<1> QED
  BY <1>1, <1>3, ModestStep DEF Quiet

LEMMA QuietGoto ==
    ASSUME ClientIInv, Quiet, NEW l \in Labels \ CallLabels, At(l),
           NEW m \in Labels \ Tops, Goto(m), \A b \in Labels : Calls(l, b) => Calls(m, b)
    PROVE  ClientIInv'
<1>1. stack \in Seq(Labels) /\ Nested(stack) /\ ret \in BOOLEAN
  BY DEF ClientIInv, Calling, Types, ClientTypeOK
<1>2. l \notin CallLabels /\ m \notin CallLabels
  BY DEF Tops, CallLabels
<1>3. /\ stack' \in Seq(Labels) /\ Nested(stack') /\ ret' = ret
      /\ Inputting(stack') <=> Inputting(stack)
      /\ Restoring(stack') <=> Restoring(stack)
      /\ \A x : At(x)' => x = m
  BY <1>1, <1>2, GotoMoves
<1>4. ~At("Playback") /\ ~At("SecondTrial")
  BY <1>2 DEF At, CallLabels
<1> QED
  BY <1>1, <1>3, <1>4, QuietStep

LEMMA QuietPerform ==
    ASSUME ClientIInv, Quiet, NEW l \in Labels \ CallLabels, At(l),
           NEW m \in Labels \ Tops, NEW t \in Labels \ CallLabels, Perform(m, t), Calls(m, t),
           \A b \in Labels : Calls(l, b) => Calls(t, b)
    PROVE  ClientIInv'
<1>1. stack \in Seq(Labels) /\ Nested(stack) /\ ret \in BOOLEAN
  BY DEF ClientIInv, Calling, Types, ClientTypeOK
<1>2. l \notin CallLabels /\ m \notin CallLabels /\ t # "SessionRestored"
  BY DEF Tops, CallLabels
<1>3. /\ stack' \in Seq(Labels) /\ Nested(stack') /\ ret' = ret
      /\ Inputting(stack') <=> Inputting(stack)
      /\ Restoring(stack') => Restoring(stack)
      /\ \A x : At(x)' => x = m
  BY <1>1, <1>2, PerformMoves
<1>4. ~At("Playback") /\ ~At("SecondTrial")
  BY <1>2 DEF At, CallLabels
<1> QED
  BY <1>1, <1>3, <1>4, QuietStep

LEMMA QuietReturn ==
    ASSUME ClientIInv, Quiet, NEW l \in Labels \ CallLabels, At(l), stack' = Tail(stack), ret' \in BOOLEAN,
           ~ret' \/ l \notin SessionLabels \cup VersionLabels
    PROVE  ClientIInv'
<1>1. stack \in Seq(Labels) /\ Nested(stack)
  BY DEF ClientIInv, Calling, Types, ClientTypeOK
<1>2. /\ stack' \in Seq(Labels) /\ Nested(stack')
      /\ l \notin CallLabels => (Inputting(stack') <=> Inputting(stack))
      /\ Restoring(stack') => Restoring(stack)
      /\ \A x : At(x)' => Calls(l, x)
  BY <1>1, ReturnMoves
<1>3. ~At("Playback") /\ ~At("SecondTrial")
  BY DEF At, CallLabels
<1>4. \A x \in Tops : Calls(l, x) =>
        /\ l \in SessionLabels \cup VersionLabels
        /\ x \in {"SessionCreated", "SessionRestored", "EnsureCall"}
  BY DEF Tops, Calls, CallLabels, StartLabels, ConnectionLabels, SessionLabels, VersionLabels
<1> QED
  BY <1>2, <1>3, <1>4, QuietStep

\* Nothing happens to the servers.
LEMMA StillKeepsWorld ==
    ASSUME World, bound' = bound, UNCHANGED <<ipcServer, ipcClient, session>>
    PROVE  World' /\ Kept
<1>1. UNCHANGED <<proc, file, path, last_modified>>
  BY DEF ipcServer, ipcClient
<1>2. path' \in Paths /\ last_modified' \in Stamp \cup {2}
  BY <1>1, IpcTypes DEF World
<1>3. Published(path) /\ (path' # NoPath => last_modified' \in Stamp) /\ Sessions(session)
  BY <1>1 DEF World, KeysAreTrue, SessionsAreServed, Sessions
<1>4. Published(path') /\ Sessions(session')
  BY <1>1, <1>3 DEF Published, Sessions
<1> QED
  BY <1>1, <1>2, <1>3, <1>4, RememberingKeepsWorld, SameSessionsAreKept DEF ipcServer

-----------------------------------------------------------------------------
\* Connecting, starting a server and restarting it.

LEMMA StillQuiet ==
    ASSUME ClientIInv, bound' = bound, UNCHANGED <<calls, journal, id, output, disk>>,
           server_status' \in Status, server_status' = "OK" => server_status = "OK",
           trial' \in 0 .. MaxTrial, version_trial' \in 0 .. 1, own' = own
    PROVE  Quiet
<1>1. World' /\ Kept
  BY StillKeepsWorld DEF ClientIInv, calls
<1>2. own' \in Proc \cup {NoProc} /\ output' \in Output /\ SeenTypes'
  BY DEF ClientIInv, Calling, Types, ClientTypeOK, SeenTypes, calls
<1>3. id' \in SessionId \cup {0}
  BY DEF ClientIInv, Calling, Types, ClientTypeOK
<1> QED
  BY <1>1, <1>2, <1>3 DEF Quiet, Modest

LEMMA PingQuiet ==
    ASSUME ClientIInv, bound' = bound, NEW ok \in BOOLEAN, PingServer(ok),
           UNCHANGED <<server_status, journal, version_trial, own, id, output, disk>>,
           trial' \in 0 .. MaxTrial
    PROVE  Quiet
<1>1. World' /\ Kept
  BY PingKeepsWorld DEF ClientIInv
<1>2. UNCHANGED <<seen, seen_pid>>
  BY DEF PingServer
<1>3. /\ own' \in Proc \cup {NoProc} /\ output' \in Output /\ SeenTypes'
      /\ server_status' \in Status /\ version_trial' \in 0 .. 1 /\ id' \in SessionId \cup {0}
  BY <1>2 DEF ClientIInv, Calling, Types, ClientTypeOK, SeenTypes
<1> QED
  BY <1>1, <1>3 DEF Quiet, Modest

LEMMA ConnectionKeeps ==
    ASSUME ClientIInv, bound' = bound, EnsureConnection \/ ConnectionStarted
    PROVE  ClientIInv'
<1> USE DEF Labels, CallLabels, StartLabels, ConnectionLabels, SessionLabels, VersionLabels, Tops, Calls
<1>0. /\ server_status \in Status /\ trial \in 0 .. MaxTrial /\ version_trial \in 0 .. 1
      /\ ret \in BOOLEAN
  BY DEF ClientIInv, Calling, Types, ClientTypeOK
<1>1. CASE EnsureConnection
  <2>1. Quiet
    BY <1>0, <1>1, StillQuiet DEF EnsureConnection, loops, Status, Dead
  <2>2. At("EnsureConnection")
    BY <1>1 DEF EnsureConnection
  <2>3. CASE Return(TRUE)
    BY <2>1, <2>2, <2>3, QuietReturn DEF Return
  <2>4. CASE Return(FALSE)
    BY <2>1, <2>2, <2>4, QuietReturn DEF Return
  <2>5. CASE Perform("StartServer", "ConnectionStarted")
    BY <2>1, <2>2, <2>5, QuietPerform
  <2> QED
    BY <1>1, <2>3, <2>4, <2>5 DEF EnsureConnection
<1>2. CASE ConnectionStarted
  <2>1. Quiet
    BY <1>0, <1>2, StillQuiet DEF ConnectionStarted, loops, Status, Dead
  <2>2. At("ConnectionStarted") /\ Return(ret)
    BY <1>2 DEF ConnectionStarted
  <2> QED
    BY <1>0, <2>1, <2>2, QuietReturn DEF Return
<1> QED
  BY <1>1, <1>2

LEMMA PingsKeep ==
    ASSUME ClientIInv, bound' = bound, StartServer \/ StartWait \/ LastPing \/ StartTry
    PROVE  ClientIInv'
<1> USE DEF Labels, CallLabels, StartLabels, ConnectionLabels, SessionLabels, VersionLabels, Tops, Calls
<1>0. trial \in 0 .. MaxTrial /\ MaxTrial \in Nat
  BY SizeAssumption DEF ClientIInv, Calling, Types, ClientTypeOK
<1>1. CASE StartServer
  <2>1. PICK ok \in BOOLEAN : PingServer(ok) /\ IF ok THEN Return(TRUE) ELSE Goto("Spawn")
    BY <1>1 DEF StartServer
  <2>2. Quiet /\ At("StartServer")
    BY <1>0, <1>1, <2>1, PingQuiet DEF StartServer, loops
  <2>3. CASE ok
    BY <2>1, <2>2, <2>3, QuietReturn DEF Return
  <2>4. CASE ~ok
    BY <2>1, <2>2, <2>4, QuietGoto
  <2> QED
    BY <2>3, <2>4
<1>2. CASE StartWait
  <2>1. PICK ok \in BOOLEAN : PingServer(ok) /\ IF ok THEN Return(TRUE) ELSE Goto("WaitEvent")
    BY <1>2 DEF StartWait
  <2>2. Quiet /\ At("StartWait")
    BY <1>0, <1>2, <2>1, PingQuiet DEF StartWait, loops
  <2>3. CASE ok
    BY <2>1, <2>2, <2>3, QuietReturn DEF Return
  <2>4. CASE ~ok
    BY <2>1, <2>2, <2>4, QuietGoto
  <2> QED
    BY <2>3, <2>4
<1>3. CASE LastPing
  <2>1. PICK ok \in BOOLEAN : PingServer(ok) /\ Return(ok)
    BY <1>3 DEF LastPing
  <2>2. Quiet /\ At("LastPing")
    BY <1>0, <1>3, <2>1, PingQuiet DEF LastPing, loops
  <2> QED
    BY <2>1, <2>2, QuietReturn DEF Return
<1>4. CASE StartTry
  <2>1. PICK ok \in BOOLEAN :
          /\ PingServer(ok)
          /\ trial' = trial \/ (trial + 1 < MaxTrial /\ trial' = trial + 1)
          /\ \/ Goto("StartTry")
             \/ stack' = Tail(stack) /\ ret' \in BOOLEAN
    BY <1>4 DEF StartTry, Return
  <2>2. Quiet /\ At("StartTry")
    <3>1. trial' \in 0 .. MaxTrial
      BY <1>0, <2>1
    <3>2. PingServer(ok)
      BY <2>1
    <3> QED
      BY <1>4, <3>1, <3>2, PingQuiet DEF StartTry
  <2>3. CASE stack' = Tail(stack) /\ ret' \in BOOLEAN
    BY <2>2, <2>3, QuietReturn
  <2>4. CASE Goto("StartTry")
    BY <2>2, <2>4, QuietGoto
  <2> QED
    BY <2>1, <2>3, <2>4
<1> QED
  BY <1>1, <1>2, <1>3, <1>4

LEMMA SpawnKeeps ==
    ASSUME ClientIInv, bound' = bound, Spawn \/ WaitEvent
    PROVE  ClientIInv'
<1> USE DEF Labels, CallLabels, StartLabels, ConnectionLabels, SessionLabels, VersionLabels, Tops, Calls
<1>0. /\ server_status \in Status /\ trial \in 0 .. MaxTrial /\ MaxTrial \in Nat
      /\ version_trial \in 0 .. 1 /\ own \in Proc \cup {NoProc} /\ disk \in Version
      /\ output \in Output /\ SeenTypes /\ id \in SessionId \cup {0}
  BY SizeAssumption DEF ClientIInv, Calling, Types, ClientTypeOK, SeenTypes
<1>1. CASE Spawn
  <2>1. /\ UNCHANGED <<server_mutex, file, file_lock, ipcClient, server_status, id, seen, seen_pid>>
        /\ UNCHANGED <<session, journal, trial, version_trial, output, disk>>
        /\ At("Spawn")
    BY <1>1 DEF Spawn
  <2>2. ASSUME NEW p \in Proc, p \in FreePlace, proc' = Spawned(p, disk), own' = p, Goto("StartWait")
        PROVE  ClientIInv'
    <3>1. proc[p].st = "none"
      BY <2>2 DEF FreePlace
    <3>2. World' /\ Kept
      BY <1>0, <2>1, <2>2, <3>1, StartingKeepsWorld DEF ClientIInv
    <3>3. Quiet
      BY <1>0, <2>1, <2>2, <3>2 DEF Quiet, Modest, SeenTypes
    <3> QED
      BY <2>1, <2>2, <3>3, QuietGoto
  <2>3. ASSUME Return(FALSE), UNCHANGED <<proc, own>> PROVE ClientIInv'
    <3>1. World' /\ Kept
      BY <2>1, <2>3, StillKeepsWorld DEF ClientIInv, ipcServer
    <3>2. Quiet
      BY <1>0, <2>1, <2>3, <3>1 DEF Quiet, Modest, SeenTypes
    <3> QED
      BY <2>1, <2>3, <3>2, QuietReturn DEF Return
  <2> QED
    BY <1>1, <2>2, <2>3 DEF Spawn
<1>2. CASE WaitEvent
  <2>1. Quiet /\ At("WaitEvent")
    BY <1>0, <1>2, StillQuiet DEF WaitEvent
  <2>2. CASE Goto("LastPing")
    BY <2>1, <2>2, QuietGoto
  <2>3. CASE Goto("StartTry")
    BY <2>1, <2>3, QuietGoto
  <2> QED
    BY <1>2, <2>2, <2>3 DEF WaitEvent
<1> QED
  BY <1>1, <1>2

-----------------------------------------------------------------------------
\* Calls and the versions.

LEMMA OutcomeTypes ==
    ASSUME server_status \in Status, NEW eval, NEW shuts, NEW r, Outcome(eval, shuts, r)
    PROVE  /\ r.status \in Status /\ (r.status = "OK" => server_status = "OK") /\ r.ok \in BOOLEAN
           /\ r.out = EmptyOutput \/ (r.ok /\ r.out = eval.reply /\ Evaluated(eval))
           /\ session' = << >> \/ session' = eval.sessions \/ session' = session
<1>1. CASE ~shuts /\ r = Reply(TRUE, eval.reply, server_status) /\ Evaluated(eval)
  BY <1>1 DEF Reply, Evaluated
<1>2. CASE r = Reply(TRUE, EmptyOutput, server_status) /\ session' = << >>
  BY <1>2 DEF Reply
<1>3. CASE /\ r \in {Reply(FALSE, EmptyOutput, st) : st \in {"SHUTDOWN", "BROKEN_MESSAGE"}}
           /\ session' = << >>
  <2>1. PICK st \in {"SHUTDOWN", "BROKEN_MESSAGE"} : r = Reply(FALSE, EmptyOutput, st)
    BY <1>3
  <2>2. r.status = st /\ r.ok = FALSE /\ r.out = EmptyOutput
    BY <2>1 DEF Reply
  <2> QED
    BY <1>3, <2>2 DEF Status
<1>4. CASE r = Reply(FALSE, EmptyOutput, "TIMEOUT") /\ Evaluated(eval)
  BY <1>4 DEF Reply, Evaluated, Status
<1>5. ASSUME NEW st \in Status, r = Reply(FALSE, EmptyOutput, st), Refused(st), session' = session
      PROVE  /\ r.status \in Status /\ (r.status = "OK" => server_status = "OK") /\ r.ok \in BOOLEAN
             /\ r.out = EmptyOutput /\ session' = session
  <2>1. st = "OK" => server_status = "OK"
    BY <1>5 DEF Refused
  <2> QED
    BY <1>5, <2>1 DEF Reply
<1> QED
  BY <1>1, <1>2, <1>3, <1>4, <1>5 DEF Outcome

\* Calls that leave the sessions as they are, unless all are lost.
LEMMA OutcomeKeeps ==
    ASSUME NEW eval, eval.sessions = session, NEW shuts, NEW r, Outcome(eval, shuts, r)
    PROVE  Kept
<1>1. session' = << >> \/ UNCHANGED <<proc, file, session>>
  BY DEF Outcome, Evaluated
<1> QED
  BY <1>1, SameSessionsAreKept

LEMMA CallQuiet ==
    ASSUME ClientIInv, bound' = bound, NEW eval, eval.sessions = session, NEW shuts \in BOOLEAN,
           NEW r, Call(eval, shuts, r), server_status' = r.status \/ server_status' \in Status \ {"OK"},
           UNCHANGED <<journal, loops, id, disk>>, output' \in Output
    PROVE  Quiet
<1>1. World /\ SeenTypes /\ server_status \in Status /\ Sessions(session)
  BY DEF ClientIInv, World, SessionsAreServed, Sessions, Calling, Types, ClientTypeOK, SeenTypes
<1>2. Sessions(eval.sessions)
  BY <1>1
<1>3. World' /\ SeenTypes' /\ Outcome(eval, shuts, r)
  BY <1>1, <1>2, CallKeepsWorld
<1>4. Kept /\ r.status \in Status /\ (r.status = "OK" => server_status = "OK")
  BY <1>1, <1>3, OutcomeKeeps, OutcomeTypes
<1>5. /\ trial' \in 0 .. MaxTrial /\ version_trial' \in 0 .. 1 /\ own' \in Proc \cup {NoProc}
      /\ id' \in SessionId \cup {0}
  BY DEF ClientIInv, Calling, Types, ClientTypeOK, loops
<1> QED
  BY <1>3, <1>4, <1>5 DEF Quiet, Modest

LEMMA RestartKeeps ==
    ASSUME ClientIInv, bound' = bound, ShutdownServer \/ WaitServer \/ ForceTerminate \/ Reconnected
    PROVE  ClientIInv'
<1> USE DEF Labels, CallLabels, StartLabels, ConnectionLabels, SessionLabels, VersionLabels, Tops, Calls
<1>0. /\ server_status \in Status /\ trial \in 0 .. MaxTrial /\ version_trial \in 0 .. 1
      /\ ret \in BOOLEAN /\ output \in Output /\ SeenTypes /\ own \in Proc \cup {NoProc}
      /\ id \in SessionId \cup {0} /\ World
  BY DEF ClientIInv, Calling, Types, ClientTypeOK, SeenTypes
<1>1. CASE ShutdownServer
  <2>1. PICK r \in Replies(EvalOther(id)) : Call(EvalOther(id), TRUE, r) /\ server_status' = r.status
    BY <1>1 DEF ShutdownServer
  <2>2. EvalOther(id).sessions = session
    BY DEF EvalOther
  <2>3. At("Shutdown") /\ Goto("WaitServer") /\ UNCHANGED <<journal, loops, id, output, disk>>
    BY <1>1 DEF ShutdownServer
  <2>4. output' \in Output
    BY <1>0, <2>3 DEF Output, ClientIInv
  <2>5. Quiet
    BY <2>1, <2>2, <2>3, <2>4, CallQuiet
  <2> QED
    BY <2>3, <2>5, QuietGoto
<1>2. CASE WaitServer
  <2>1. Quiet /\ At("WaitServer")
    BY <1>0, <1>2, StillQuiet DEF WaitServer, loops, Status
  <2>2. CASE Perform("EnsureConnection", "Reconnected")
    BY <2>1, <2>2, QuietPerform
  <2>3. CASE Goto("ForceTerminate")
    BY <2>1, <2>3, QuietGoto
  <2> QED
    BY <1>2, <2>2, <2>3 DEF WaitServer
<1>3. CASE ForceTerminate
  <2> DEFINE c == Connect
  <2>1. /\ At("ForceTerminate") /\ last_modified' = c.stamp
        /\ UNCHANGED <<seen, seen_pid, journal, loops, id, output, disk>>
        /\ \/ /\ IF c.to = NoProc THEN path' = c.path /\ UNCHANGED <<ipcServer, session>>
                                 ELSE Died(c.to, c.path) /\ session' = << >>
              /\ server_status' = "UNKNOWN" /\ Perform("EnsureConnection", "Reconnected")
           \/ /\ path' = c.path /\ UNCHANGED <<ipcServer, session>>
              /\ server_status' = "BROKEN_MESSAGE" /\ Return(FALSE)
    BY <1>3 DEF ForceTerminate
  <2>2. Link(c) /\ Sessions(session)
    BY <1>0, ConnectFinds DEF World, SessionsAreServed, Sessions
  <2> HIDE DEF c
  <2>3. World' /\ Kept
    <3>1. /\ c.path \in Paths /\ c.to \in Proc \cup {NoProc} /\ Published(c.path)
          /\ last_modified' \in Stamp \cup {2} /\ (c.path # NoPath => last_modified' \in Stamp)
      BY <2>1, <2>2 DEF Link
    <3>2. CASE path' = c.path /\ UNCHANGED <<ipcServer, session>>
      BY <1>0, <2>2, <3>1, <3>2, RememberingKeepsWorld, SameSessionsAreKept DEF ipcServer
    <3>3. CASE c.to # NoProc /\ Died(c.to, c.path) /\ session' = << >>
      <4>1. c.to \in Proc
        BY <3>1, <3>3
      <4> QED
        BY <1>0, <3>1, <3>3, <4>1, DeathKeepsWorld
    <3> QED
      BY <2>1, <3>2, <3>3
  <2>4. Quiet
    <3>1. server_status' \in Status
      BY <2>1 DEF Status
    <3> QED
      BY <1>0, <2>1, <2>3, <3>1 DEF Quiet, Modest, SeenTypes, loops, Output
  <2>5. CASE Perform("EnsureConnection", "Reconnected")
    BY <2>1, <2>4, <2>5, QuietPerform
  <2>6. CASE Return(FALSE)
    BY <2>1, <2>4, <2>6, QuietReturn DEF Return
  <2> QED
    BY <2>1, <2>5, <2>6
<1>4. CASE Reconnected
  <2>1. Quiet /\ At("Reconnected")
    <3>1. version_trial' \in 0 .. 1 /\ server_status' \in {server_status, "VERSION_MISMATCH"}
      <4>1. \/ version_trial' = 1 /\ server_status' = server_status
            \/ version_trial' = version_trial /\ server_status' = "VERSION_MISMATCH"
        BY <1>4 DEF Reconnected
      <4> QED
        BY <1>0, <4>1
    <3>2. UNCHANGED <<calls, journal, trial, own, id, output, disk>> /\ At("Reconnected")
      BY <1>4 DEF Reconnected
    <3> QED
      BY <1>0, <3>1, <3>2, StillQuiet DEF Status
  <2>2. CASE Goto("CheckVersion")
    BY <2>1, <2>2, QuietGoto
  <2>3. CASE Return(FALSE)
    BY <2>1, <2>3, QuietReturn DEF Return
  <2> QED
    BY <1>4, <2>2, <2>3 DEF Reconnected
<1> QED
  BY <1>1, <1>2, <1>3, <1>4

LEMMA StillKeeps ==
    ASSUME ClientIInv, bound' = bound, EnsureSession \/ ReturnFalse \/ VersionChecked
    PROVE  ClientIInv'
<1> USE DEF Labels, CallLabels, StartLabels, ConnectionLabels, SessionLabels, VersionLabels, Tops, Calls
<1>0. server_status \in Status /\ trial \in 0 .. MaxTrial /\ version_trial \in 0 .. 1
  BY DEF ClientIInv, Calling, Types, ClientTypeOK
<1>1. CASE EnsureSession
  <2>1. Quiet
    BY <1>0, <1>1, StillQuiet DEF EnsureSession, loops
  <2> QED
    BY <1>1, <2>1, QuietPerform DEF EnsureSession
<1>2. CASE ReturnFalse
  <2>1. Quiet
    BY <1>0, <1>2, StillQuiet DEF ReturnFalse, loops
  <2> QED
    BY <1>2, <2>1, QuietReturn DEF ReturnFalse, Return
<1>3. CASE VersionChecked
  <2>1. Quiet /\ At("VersionChecked")
    BY <1>0, <1>3, StillQuiet DEF VersionChecked, loops
  <2>2. CASE ret
    BY <1>3, <2>1, <2>2, QuietReturn DEF VersionChecked, Return
  <2>3. CASE ~ret
    BY <1>3, <2>1, <2>3, QuietGoto DEF VersionChecked
  <2> QED
    BY <2>2, <2>3
<1> QED
  BY <1>1, <1>2, <1>3

-----------------------------------------------------------------------------
\* A new session.

\* There is always another session id.
LEMMA NewId ==
    ASSUME ClientIInv
    PROVE  \E new \in SessionId \ (DOMAIN session \cup {id}) :
             /\ EvalCreate.reply = [EmptyOutput EXCEPT !.id = new]
             /\ EvalCreate.sessions = [s \in {new} |-> << >>]
<1>1. \E s \in SessionId : s \notin DOMAIN session \cup {id}
  <2>1. PICK one : DOMAIN session \subseteq {one}
    <3>1. CASE DOMAIN session = {}
      BY <3>1
    <3>2. CASE DOMAIN session # {}
      BY <3>2 DEF ClientIInv, World, SessionsAreServed
    <3> QED
      BY <3>1, <3>2
  <2>2. SUFFICES ASSUME SessionId \subseteq {one} \cup {id} PROVE FALSE
    BY <2>1
  <2>3. IsFiniteSet({one}) /\ Cardinality({one}) = 1
    BY FS_Singleton
  <2>4. /\ IsFiniteSet({one} \cup {id})
        /\ Cardinality({one} \cup {id}) \in {1, 2}
    BY <2>3, FS_AddElement
  <2>5. Cardinality(SessionId) \in Nat /\ Cardinality(SessionId) <= Cardinality({one} \cup {id})
    BY <2>2, <2>4, FS_Subset, FS_CardinalityType
  <2> QED
    BY <2>4, <2>5, SizeAssumption
<1> DEFINE new == CHOOSE s \in SessionId : s \notin DOMAIN session \cup {id}
<1>2. new \in SessionId \ (DOMAIN session \cup {id})
  BY <1>1
<1>3. EvalCreate = [sessions |-> [s \in {new} |-> << >>], reply |-> [EmptyOutput EXCEPT !.id = new]]
  BY DEF EvalCreate
<1> HIDE DEF new
<1> QED
  BY <1>2, <1>3

LEMMA SessionCalledKeeps ==
    ASSUME ClientIInv, bound' = bound, SessionConnected \/ SessionCreated
    PROVE  ClientIInv'
<1> USE DEF Labels, CallLabels, StartLabels, ConnectionLabels, SessionLabels, VersionLabels, Tops, Calls
<1>0. /\ server_status \in Status /\ trial \in 0 .. MaxTrial /\ version_trial \in 0 .. 1
      /\ ret \in BOOLEAN /\ output \in Output /\ SeenTypes /\ own \in Proc \cup {NoProc}
      /\ id \in SessionId \cup {0} /\ World /\ stack \in Seq(Labels) /\ Nested(stack)
      /\ output.id \in SessionId \cup {0} /\ DOMAIN session \subseteq SessionId
      /\ SizeAssumption
  BY SizeAssumption
     DEF ClientIInv, Calling, Types, ClientTypeOK, SeenTypes, Output, World, SessionsAreServed
<1>1. CASE SessionConnected
  <2>1. /\ At("SessionConnected") /\ UNCHANGED <<server_status, calls, journal, trial, own, output, disk>>
        /\ ~At("Playback") /\ ~At("SecondTrial")
    BY <1>1 DEF SessionConnected, At
  <2>2. World' /\ Kept
    BY <1>0, <2>1, StillKeepsWorld DEF calls
  <2>3. CASE Return(ret) /\ UNCHANGED <<id, version_trial>> /\ (~ret \/ server_status = "OK")
    <3>1. Quiet
      BY <1>0, <2>1, <2>3, StillQuiet
    <3>2. CASE ~ret
      <4>1. stack' = Tail(stack) /\ ret' = ret
        BY <2>3 DEF Return
      <4>2. ret' \in BOOLEAN /\ ~ret'
        BY <1>0, <3>2, <4>1
      <4> QED
        BY <2>1, <3>1, <4>1, <4>2, QuietReturn
    <3>3. CASE ret
      <4>1. /\ stack' \in Seq(Labels) /\ Nested(stack') /\ stack' = Tail(stack) /\ ret' \in BOOLEAN
            /\ Inputting(stack') <=> Inputting(stack)
            /\ ~Restoring(stack') /\ (At("SessionRestored")' => Restoring(stack))
            /\ \A x : At(x)' => Calls("SessionConnected", x)
        BY <1>0, <2>1, <2>3, ReturnMoves DEF Return
      <4>2. ~Restoring(stack)
        BY <2>3, <3>3 DEF ClientIInv, Journal, NewSessionIsEmpty
      <4>3. NewSessionIsEmpty'
        BY <2>1, <2>3, <3>3, <4>1, <4>2 DEF NewSessionIsEmpty
      <4>4. ReplayIsInOrder'
        BY <4>1 DEF ReplayIsInOrder
      <4>5. OfSameVersion(id)' /\ GoodSessionHolds'
        BY <2>1, <2>2, <2>3, <4>1, SessionStays DEF ClientIInv, journal, ghost
      <4> QED
        BY <3>1, <4>1, <4>3, <4>4, <4>5, ModestStep DEF Quiet
    <3> QED
      BY <1>0, <3>2, <3>3
  <2>4. CASE /\ ret /\ server_status # "OK" /\ id' = 0 /\ version_trial' = 0
             /\ Perform("CheckVersion", "SessionCreated")
    <3>1. Modest
      BY <1>0, <2>1, <2>2, <2>4 DEF Modest, SeenTypes, calls, Output
    <3>2. id' \notin DOMAIN session'
      BY <1>0, <2>1, <2>4 DEF calls
    <3>3. OfSameVersion(id)' /\ GoodSessionHolds'
      BY <3>2 DEF OfSameVersion, GoodSessionHolds
    <3>4. /\ stack' \in Seq(Labels) /\ Nested(stack') /\ ret' = ret
          /\ Inputting(stack') <=> Inputting(stack)
          /\ \A x : At(x)' => x = "CheckVersion"
      <4>1. \A b \in Labels : Calls("SessionConnected", b) => Calls("SessionCreated", b)
        OBVIOUS
      <4>2. Calls("CheckVersion", "SessionCreated") /\ Perform("CheckVersion", "SessionCreated")
        BY <2>4
      <4>3. /\ "CheckVersion" \in Labels /\ "SessionCreated" \in Labels /\ "CheckVersion" \notin CallLabels
            /\ "SessionConnected" \in CallLabels <=> "SessionCreated" \in CallLabels
        OBVIOUS
      <4> HIDE DEF Labels, CallLabels, Calls
      <4> QED
        BY <1>0, <2>1, <4>1, <4>2, <4>3, PerformMoves
    <3>5. NewSessionIsEmpty' /\ ReplayIsInOrder'
      BY <2>1, <2>4, <3>4 DEF NewSessionIsEmpty, ReplayIsInOrder
    <3> QED
      BY <1>0, <3>1, <3>3, <3>4, <3>5, ModestStep
  <2> QED
    BY <1>1, <2>3, <2>4 DEF SessionConnected
<1>2. CASE SessionCreated
  <2>1. At("SessionCreated") /\ UNCHANGED <<calls, journal, loops, output, disk>>
    BY <1>2 DEF SessionCreated
  <2>2. World' /\ Kept /\ UNCHANGED <<proc, session>>
    BY <1>0, <2>1, StillKeepsWorld DEF calls, ipcServer
  <2>3. CASE /\ ret /\ ~output.error
             /\ id' = output.id /\ Goto("SetRequest") /\ UNCHANGED server_status
    <3>1. Modest
      BY <1>0, <2>1, <2>2, <2>3 DEF Modest, SeenTypes, calls, Output, loops
    <3>2. Blank(id)' /\ OfSameVersion(id)'
      BY <2>1, <2>2, <2>3 DEF ClientIInv, Journal, NewSessionIsEmpty, Blank, OfSameVersion, Serving
    <3>3. Holds(<< >>)'
      BY DEF Holds, Increasing, Range
    <3>4. GoodSessionHolds'
      BY <3>2, <3>3 DEF GoodSessionHolds, Blank, Holds
    <3>5. /\ stack' \in Seq(Labels) /\ Nested(stack') /\ ret' = ret
          /\ Inputting(stack') <=> Inputting(stack)
          /\ Restoring(stack') <=> Restoring(stack)
          /\ \A x : At(x)' => x = "SetRequest"
      <4>1. \A b \in Labels : Calls("SessionCreated", b) => Calls("SetRequest", b)
        OBVIOUS
      <4>2. /\ "SetRequest" \in Labels /\ Goto("SetRequest")
            /\ "SessionCreated" \in CallLabels <=> "SetRequest" \in CallLabels
        BY <2>3
      <4> HIDE DEF Labels, CallLabels, Calls
      <4> QED
        BY <1>0, <2>1, <4>1, <4>2, GotoMoves
    <3>6. Restoring(stack)' => server_status' # "OK"
      BY <2>3, <3>5 DEF ClientIInv, Journal, NewSessionIsEmpty, Restoring
    <3>7. NewSessionIsEmpty' /\ ReplayIsInOrder'
      BY <3>2, <3>5, <3>6 DEF NewSessionIsEmpty, ReplayIsInOrder
    <3> QED
      BY <1>0, <3>1, <3>2, <3>4, <3>5, <3>7, ModestStep
  <2>4. CASE /\ Perform("EnsureConnection", "ReturnFalse") /\ id' = id
             /\ server_status' \in {server_status, "INVALID_SESSION"}
    <3>1. Quiet
      BY <1>0, <2>1, <2>4, StillQuiet DEF loops, Status
    <3> QED
      BY <2>1, <2>4, <3>1, QuietPerform
  <2> QED
    BY <1>2, <2>3, <2>4 DEF SessionCreated
<1> QED
  BY <1>1, <1>2

LEMMA SetRequestKeeps ==
    ASSUME ClientIInv, bound' = bound, SetRequest
    PROVE  ClientIInv'
<1> USE DEF Labels, CallLabels, StartLabels, ConnectionLabels, SessionLabels, VersionLabels, Tops, Calls
<1>0. /\ output \in Output /\ id \in SessionId \cup {0} /\ stack \in Seq(Labels) /\ Nested(stack)
  BY DEF ClientIInv, Calling, Types, ClientTypeOK
<1>1. PICK r \in Replies(EvalOther(id)) : Call(EvalOther(id), FALSE, r)
  BY DEF SetRequest
<1>2. /\ At("SetRequest") /\ server_status' = "OK" /\ Return(TRUE)
      /\ UNCHANGED <<journal, loops, id, output, disk>>
  BY DEF SetRequest
<1>3. EvalOther(id).sessions = session
  BY DEF EvalOther
<1>4. World' /\ SeenTypes' /\ Outcome(EvalOther(id), FALSE, r)
  <2>1. World /\ SeenTypes /\ server_status \in Status /\ Sessions(session)
    BY DEF ClientIInv, World, SessionsAreServed, Sessions, Calling, Types, ClientTypeOK, SeenTypes
  <2> QED
    BY <1>1, <1>3, <2>1, CallKeepsWorld
<1>5. Kept
  BY <1>3, <1>4, OutcomeKeeps
<1>6. Modest
  BY <1>0, <1>2, <1>4
     DEF Modest, Status, ClientIInv, Calling, Types, ClientTypeOK, loops, Output
<1>7. Blank(id)' /\ OfSameVersion(id)'
  BY <1>2, <1>5 DEF ClientIInv, Journal, NewSessionIsEmpty, Blank, OfSameVersion, Kept
<1>8. Holds(<< >>)'
  BY DEF Holds, Increasing, Range
<1>9. GoodSessionHolds'
  BY <1>7, <1>8 DEF GoodSessionHolds, Blank, Holds
<1>10. /\ stack' \in Seq(Labels) /\ Nested(stack') /\ ret' \in BOOLEAN
       /\ Inputting(stack') <=> Inputting(stack)
       /\ ~Restoring(stack')
       /\ \A x : At(x)' => Calls("SetRequest", x)
  BY <1>0, <1>2, ReturnMoves DEF Return
<1>11. NewSessionIsEmpty' /\ ReplayIsInOrder'
  BY <1>2, <1>7, <1>10 DEF NewSessionIsEmpty, ReplayIsInOrder
<1> QED
  BY <1>6, <1>7, <1>9, <1>10, <1>11, ModestStep

\* The replies to the commands that need no session.
LEMMA RepliesAreOutputs ==
    ASSUME NEW sid \in SessionId \cup {0}
    PROVE  /\ EmptyOutput \in Output /\ EmptyOutput.id = 0
           /\ [EmptyOutput EXCEPT !.id = sid] \in Output /\ [EmptyOutput EXCEPT !.id = sid].id = sid
           /\ EvalRefused.sessions = session /\ EvalRefused.reply \in Output /\ EvalRefused.reply.id = 0
<1>1. << >> \in Seq(1 .. bound.keys) /\ {} \in SUBSET (1 .. bound.keys)
  OBVIOUS
<1>2. EmptyOutput \in Output /\ EmptyOutput.id = 0
  BY <1>1 DEF EmptyOutput, Output
<1>3. [EmptyOutput EXCEPT !.id = sid] \in Output /\ [EmptyOutput EXCEPT !.id = sid].id = sid
  BY <1>2 DEF Output
<1>4. [EmptyOutput EXCEPT !.error = TRUE] \in Output /\ [EmptyOutput EXCEPT !.error = TRUE].id = 0
  BY <1>2 DEF Output
<1>5. EvalRefused.sessions = session /\ EvalRefused.reply = [EmptyOutput EXCEPT !.error = TRUE]
  BY DEF EvalRefused
<1> QED
  BY <1>2, <1>3, <1>4, <1>5

LEMMA CheckVersionKeeps ==
    ASSUME ClientIInv, bound' = bound, CheckVersion
    PROVE  ClientIInv'
<1> DEFINE creating == Len(stack) > 1 /\ stack[2] = "SessionCreated"
<1>0. /\ World /\ SeenTypes /\ server_status \in Status /\ Sessions(session)
      /\ stack \in Seq(Labels) /\ Nested(stack) /\ id \in SessionId \cup {0} /\ 0 \notin SessionId
      /\ trial \in 0 .. MaxTrial /\ version_trial \in 0 .. 1 /\ own \in Proc \cup {NoProc}
  BY SizeAssumption
     DEF ClientIInv, World, SessionsAreServed, Sessions, Calling, Types, ClientTypeOK, SeenTypes
<1>eval. PICK eval \in {EvalOther(id), EvalCreate, EvalRefused} : \E r :
        /\ Call(eval, FALSE, r) /\ output' = r.out
        /\ creating => eval \in {EvalCreate, EvalRefused}
        /\ \/ server_status' \in {"VERSION_MISMATCH", "BROKEN_MESSAGE"} /\ Return(FALSE)
           \/ server_status' = r.status /\ (Goto("Shutdown") \/ Goto("ForceTerminate"))
           \/ server_status' = r.status /\ Return(r.ok) /\ ~Mismatch(r.ok, seen')
  <2>1. PICK eval \in IF ~creating THEN {EvalOther(id)}
                      ELSE {EvalCreate} \cup {e \in {EvalRefused} : bound.interval} :
          \E r \in Replies(eval) :
            /\ Call(eval, FALSE, r) /\ output' = r.out
            /\ CASE ~r.ok /\ seen' = "newer_protocol" ->
                      server_status' = "VERSION_MISMATCH" /\ Return(FALSE)
                 [] Mismatch(r.ok, seen') /\ IsLastTrial ->
                      server_status' = "BROKEN_MESSAGE" /\ Return(FALSE)
                 [] Mismatch(r.ok, seen') /\ ~IsLastTrial ->
                      /\ server_status' = r.status
                      /\ Goto(IF r.ok THEN "Shutdown" ELSE "ForceTerminate")
                 [] OTHER -> server_status' = r.status /\ Return(r.ok)
    BY DEF CheckVersion
  <2>2. PICK r \in Replies(eval) :
            /\ Call(eval, FALSE, r) /\ output' = r.out
            /\ CASE ~r.ok /\ seen' = "newer_protocol" ->
                      server_status' = "VERSION_MISMATCH" /\ Return(FALSE)
                 [] Mismatch(r.ok, seen') /\ IsLastTrial ->
                      server_status' = "BROKEN_MESSAGE" /\ Return(FALSE)
                 [] Mismatch(r.ok, seen') /\ ~IsLastTrial ->
                      /\ server_status' = r.status
                      /\ Goto(IF r.ok THEN "Shutdown" ELSE "ForceTerminate")
                 [] OTHER -> server_status' = r.status /\ Return(r.ok)
    BY <2>1
  <2>3. /\ eval \in {EvalOther(id), EvalCreate, EvalRefused}
        /\ creating => eval \in {EvalCreate, EvalRefused}
    BY <2>1
  <2>4. \/ server_status' \in {"VERSION_MISMATCH", "BROKEN_MESSAGE"} /\ Return(FALSE)
        \/ server_status' = r.status /\ (Goto("Shutdown") \/ Goto("ForceTerminate"))
        \/ server_status' = r.status /\ Return(r.ok) /\ ~Mismatch(r.ok, seen')
    <3>1. CASE ~r.ok /\ seen' = "newer_protocol"
      BY <2>2, <3>1 DEF Mismatch
    <3>2. CASE Mismatch(r.ok, seen') /\ IsLastTrial
      BY <2>2, <3>2 DEF Mismatch
    <3>3. CASE Mismatch(r.ok, seen') /\ ~IsLastTrial
      BY <2>2, <3>3 DEF Mismatch
    <3>4. CASE ~(~r.ok /\ seen' = "newer_protocol") /\ ~Mismatch(r.ok, seen')
      BY <2>2, <3>4
    <3> QED
      BY <3>1, <3>2, <3>3, <3>4
  <2>5. Call(eval, FALSE, r) /\ output' = r.out
    BY <2>2
  <2> HIDE DEF creating
  <2> QED
    BY <2>3, <2>4, <2>5
<1>1. PICK r :
        /\ Call(eval, FALSE, r) /\ output' = r.out
        /\ creating => eval \in {EvalCreate, EvalRefused}
        /\ \/ server_status' \in {"VERSION_MISMATCH", "BROKEN_MESSAGE"} /\ Return(FALSE)
           \/ server_status' = r.status /\ (Goto("Shutdown") \/ Goto("ForceTerminate"))
           \/ server_status' = r.status /\ Return(r.ok) /\ ~Mismatch(r.ok, seen')
  BY <1>eval
<1> HIDE DEF creating
<1>2. /\ At("CheckVersion") /\ UNCHANGED <<journal, loops, id, disk>>
      /\ ~At("Playback") /\ ~At("SecondTrial")
  BY DEF CheckVersion, At
<1>3. PICK new \in SessionId \ (DOMAIN session \cup {id}) :
        /\ EvalCreate.reply = [EmptyOutput EXCEPT !.id = new]
        /\ EvalCreate.sessions = [s \in {new} |-> << >>]
  BY NewId
<1>4. /\ eval.sessions = session \/ (eval = EvalCreate /\ eval.sessions = [s \in {new} |-> << >>])
      /\ eval.reply \in Output /\ EmptyOutput \in Output /\ EmptyOutput.id = 0
      /\ eval = EvalRefused => eval.reply.id = 0
      /\ eval = EvalCreate => eval.reply.id = new
  <2>1. CASE eval = EvalOther(id)
    <3>0. eval.sessions = session /\ eval.reply = [EmptyOutput EXCEPT !.id = id]
      BY <2>1 DEF EvalOther
    <3>1. eval.reply \in Output
      BY <1>0, <3>0, RepliesAreOutputs
    <3>2. eval.reply.id = id
      BY <1>0, <3>0, RepliesAreOutputs
    <3>3. eval # EvalCreate
      BY <1>3, <1>0, <3>2, RepliesAreOutputs
    <3>4. eval = EvalRefused => eval.reply.id = 0
      BY <1>0, RepliesAreOutputs
    <3> QED
      BY <1>0, <3>0, <3>1, <3>3, <3>4, RepliesAreOutputs
  <2>2. CASE eval = EvalRefused
    <3>1. eval.sessions = session /\ eval.reply \in Output /\ eval.reply.id = 0
      BY <1>0, <2>2, RepliesAreOutputs
    <3>2. eval # EvalCreate
      BY <1>3, <1>0, <3>1, RepliesAreOutputs
    <3> QED
      BY <1>0, <3>1, <3>2, RepliesAreOutputs
  <2>3. CASE eval = EvalCreate
    <3>1. eval.reply = [EmptyOutput EXCEPT !.id = new] /\ eval.sessions = [s \in {new} |-> << >>]
      BY <1>3, <2>3
    <3>2. eval.reply \in Output /\ eval.reply.id = new /\ new \in SessionId
      BY <1>3, <3>1, RepliesAreOutputs
    <3>3. eval # EvalRefused
      BY <1>0, <3>2, RepliesAreOutputs
    <3> QED
      BY <1>0, <2>3, <3>1, <3>2, <3>3, RepliesAreOutputs
  <2> QED
    BY <1>1, <2>1, <2>2, <2>3
<1>5. Sessions(eval.sessions)
  <2>1. CASE eval.sessions = session
    BY <1>0, <2>1 DEF Sessions
  <2>2. CASE eval.sessions = [s \in {new} |-> << >>]
    <3>1. << >> \in Seq(1 .. bound.keys) /\ new \in SessionId
      BY <1>3
    <3> QED
      BY <2>2, <3>1 DEF Sessions
  <2> QED
    BY <1>4, <2>1, <2>2
<1>6. World' /\ SeenTypes' /\ Outcome(eval, FALSE, r)
  BY <1>0, <1>1, <1>5, CallKeepsWorld
<1>7. /\ r.status \in Status /\ (r.status = "OK" => server_status = "OK") /\ r.ok \in BOOLEAN
      /\ r.out = EmptyOutput \/ (r.ok /\ r.out = eval.reply /\ Evaluated(eval))
  BY <1>0, <1>6, OutcomeTypes
<1>8. Kept \/ id \notin DOMAIN session'
  <2>1. CASE eval.sessions = session
    BY <1>6, <2>1, OutcomeKeeps
  <2>2. CASE eval.sessions = [s \in {new} |-> << >>]
    <3>1. \/ session' = << >> \/ UNCHANGED <<proc, file, session>>
          \/ session' = [s \in {new} |-> << >>]
      BY <1>6, <2>2 DEF Outcome, Evaluated
    <3>2. session' = [s \in {new} |-> << >>] => id \notin DOMAIN session'
      BY <1>3
    <3> QED
      BY <3>1, <3>2, SameSessionsAreKept
  <2> QED
    BY <1>4, <2>1, <2>2
<1>9. Quiet
  <2>1. output' \in Output
    <3>1. r.out \in Output
      BY <1>4, <1>7
    <3> QED
      BY <1>1, <3>1 DEF Output
  <2>2. server_status' \in Status /\ (server_status' = "OK" => server_status = "OK")
    BY <1>1, <1>7 DEF Status
  <2> QED
    BY <1>0, <1>2, <1>6, <1>8, <2>1, <2>2 DEF Quiet, Modest, loops
<1> USE DEF Labels, CallLabels, StartLabels, ConnectionLabels, SessionLabels, VersionLabels, Tops, Calls
<1>10. CASE Return(FALSE)
  BY <1>2, <1>9, <1>10, QuietReturn DEF Return
<1>11. CASE Goto("Shutdown") \/ Goto("ForceTerminate")
  BY <1>2, <1>9, <1>11, QuietGoto
<1>12. CASE Return(r.ok) /\ ~Mismatch(r.ok, seen')
  <2>0. stack' = Tail(stack) /\ ret' = r.ok
    BY <1>12 DEF Return
  <2>1. CASE ~r.ok
    <3>1. ret' \in BOOLEAN /\ ~ret'
      BY <1>7, <2>0, <2>1
    <3> QED
      BY <1>2, <1>9, <2>0, <3>1, QuietReturn
  <2>2. CASE r.ok
    <3>1. /\ stack' \in Seq(Labels) /\ Nested(stack') /\ ret' \in BOOLEAN
          /\ Inputting(stack') <=> Inputting(stack)
          /\ Restoring(stack') => Restoring(stack)
          /\ \A x : At(x)' => x \in {"SessionCreated", "VersionChecked"}
      <4>1. ret' \in BOOLEAN
        BY <1>7, <2>0
      <4>2. \A x : At(x)' => Calls("CheckVersion", x)
        BY <1>0, <1>2, <2>0, ReturnMoves
      <4> QED
        BY <1>0, <1>2, <2>0, <4>1, <4>2, ReturnMoves
    <3>2. OfSameVersion(id)' /\ GoodSessionHolds'
      <4>1. UNCHANGED <<id, history, keys, shown, committed>>
        BY <1>2 DEF journal, ghost
      <4> QED
        BY <1>2, <1>8, <1>9, <3>1, <4>1, SessionStays DEF ClientIInv, Quiet
    <3>3. ASSUME At("SessionCreated")' PROVE Blank(output.id)' /\ OfSameVersion(output.id)'
      <4>1. creating
        BY <1>0, <1>2, <2>0, <3>3, TopIsFirst DEF At, creating
      <4>2. DOMAIN session' \subseteq SessionId
        BY <1>6 DEF World, SessionsAreServed
      <4>3. CASE output'.id = 0
        <5>1. output'.id \notin DOMAIN session'
          BY <1>0, <4>2, <4>3
        <5> QED
          BY <5>1 DEF Blank, OfSameVersion
      <4>4. CASE output'.id # 0
        <5>1. eval = EvalCreate /\ r.out = eval.reply /\ Evaluated(eval)
          BY <1>1, <1>4, <1>7, <4>1, <4>4
        <5>2. output'.id = new /\ session' = [s \in {new} |-> << >>] /\ UNCHANGED proc
          BY <1>1, <1>3, <1>4, <5>1 DEF Evaluated
        <5>3. PICK p \in Proc : Serving(p) /\ seen' = proc[p].version /\ seen' \notin OtherProtocol
          BY <5>1 DEF Evaluated
        <5>4. seen' = "same"
          <6>1. seen' \in Version
            BY <1>0, <5>3, IpcTypes DEF World
          <6>2. seen' # "older_product"
            BY <1>12, <2>2 DEF Mismatch
          <6> QED
            BY <5>3, <6>1, <6>2, VersionAssumption DEF OtherProtocol
        <5>5. \A q \in Proc : Serving(q) => q = p
          BY <1>0, <5>3 DEF World, OneServer, Serving
        <5> QED
          BY <5>2, <5>3, <5>4, <5>5 DEF Blank, OfSameVersion, Serving
      <4> QED
        BY <4>3, <4>4
    <3>4. Restoring(stack)' => server_status' # "OK"
      BY <1>9, <3>1 DEF ClientIInv, Journal, NewSessionIsEmpty, Quiet, Restoring
    <3>5. NewSessionIsEmpty' /\ ReplayIsInOrder'
      BY <3>1, <3>3, <3>4 DEF NewSessionIsEmpty, ReplayIsInOrder
    <3> QED
      BY <1>9, <3>1, <3>2, <3>5, ModestStep DEF Quiet
  <2> QED
    BY <1>7, <2>1, <2>2
<1> QED
  BY <1>1, <1>10, <1>11, <1>12

-----------------------------------------------------------------------------
\* The application's operations.

\* An operation that changes nothing but the stack, or makes a call that needs no session.
LEMMA QuietStart ==
    ASSUME ClientIInv, Quiet, stack = << >>, ret' = ret,
           stack' \in {<< >>, <<"Done">>, <<"EnsureConnection", "Done">>, <<"EnsureSession", "Done">>,
                       <<"CheckVersion", "VersionChecked", "Done">>}
    PROVE  ClientIInv'
<1> USE DEF Labels, CallLabels, StartLabels, ConnectionLabels, SessionLabels, VersionLabels, Tops, Calls
<1>1. ~At("Playback") /\ ~At("SecondTrial") /\ ~Inputting(stack)
  BY DEF At, Inputting
<1>2. ret' \in BOOLEAN
  BY DEF ClientIInv, Calling, Types, ClientTypeOK
<1>3. /\ stack' \in Seq(Labels) /\ Nested(stack')
      /\ ~Inputting(stack') /\ ~Restoring(stack') /\ \A l \in Tops : ~At(l)'
  <2>1. CASE stack' = << >>
    BY <2>1 DEF Nested, Inputting, Restoring, At
  <2>2. CASE stack' = <<"Done">>
    BY <2>2 DEF Nested, Inputting, Restoring, At
  <2>3. CASE stack' = <<"EnsureConnection", "Done">>
    BY <2>3 DEF Nested, Inputting, Restoring, At
  <2>4. CASE stack' = <<"EnsureSession", "Done">>
    BY <2>4 DEF Nested, Inputting, Restoring, At
  <2>5. CASE stack' = <<"CheckVersion", "VersionChecked", "Done">>
    BY <2>5 DEF Nested, Inputting, Restoring, At
  <2> QED
    BY <2>1, <2>2, <2>3, <2>4, <2>5
<1> QED
  BY <1>1, <1>2, <1>3, QuietStep

LEMMA OthersOperationsKeep ==
    ASSUME ClientIInv, bound' = bound, CallCommand \/ Ensure \/ Reset
    PROVE  ClientIInv'
<1>0. /\ server_status \in Status /\ trial \in 0 .. MaxTrial /\ version_trial \in 0 .. 1
      /\ own \in Proc \cup {NoProc} /\ output \in Output /\ id \in SessionId \cup {0}
  BY DEF ClientIInv, Calling, Types, ClientTypeOK
<1>1. CASE CallCommand
  <2>1. PICK r \in Replies(EvalOther(id)) : Call(EvalOther(id), FALSE, r) /\ server_status' = r.status
    BY <1>1 DEF CallCommand
  <2>2. /\ stack = << >> /\ stack' = <<"Done">> /\ UNCHANGED <<journal, loops, ret, id, output, disk>>
    BY <1>1 DEF CallCommand, Idle
  <2>3. EvalOther(id).sessions = session
    BY DEF EvalOther
  <2>4. output' \in Output
    BY <1>0, <2>2 DEF Output
  <2>5. Quiet
    BY <2>1, <2>2, <2>3, <2>4, CallQuiet
  <2> QED
    BY <2>2, <2>5, QuietStart
<1>2. CASE Ensure
  <2>1. Quiet
    BY <1>0, <1>2, StillQuiet DEF Ensure, loops
  <2> QED
    BY <1>2, <2>1, QuietStart DEF Ensure, Idle
<1>3. CASE Reset
  <2>1. /\ UNCHANGED <<ipcServer, ipcClient, session, faults, journal, loops, stack, ret, id, output, disk>>
        /\ stack = << >> /\ server_status' = "UNKNOWN" /\ seen' = "unset" /\ seen_pid' = NoProc
    BY <1>3 DEF Reset, Idle
  <2>2. World' /\ Kept
    BY <2>1, StillKeepsWorld DEF ClientIInv
  <2>3. Quiet
    BY <1>0, <2>1, <2>2 DEF Quiet, Modest, SeenTypes, Status, loops, Output
  <2> QED
    BY <2>1, <2>3, QuietStart
<1> QED
  BY <1>1, <1>2, <1>3

\* The steps of an input: what the variables are afterwards.
CallTypes ==
    /\ World' /\ bound' = bound /\ UNCHANGED <<keys, disk>>
    /\ server_status' \in Status /\ id' \in SessionId \cup {0} /\ SeenTypes' /\ output' \in Output
    /\ trial' \in 0 .. MaxTrial /\ version_trial' \in 0 .. 1 /\ own' \in Proc \cup {NoProc}
    /\ history' \in Seq(Input) /\ Len(history') <= MaxPlayBackSize
    /\ played' \in 0 .. MaxPlayBackSize /\ replayed' \in BOOLEAN
    /\ shown' \in Seq(1 .. bound.keys) /\ committed' \subseteq 1 .. bound.keys

LEMMA CallStep ==
    ASSUME ClientIInv, CallTypes, input' \in Input \cup {NoInput},
           stack' \in Seq(Labels), Nested(stack'), ret' \in BOOLEAN,
           Inputting(stack') => Inputting(stack) /\ input' = input, Journal'
    PROVE  ClientIInv'
<1>1. Types'
  <2>1. bound' \in Bounds /\ keys' \in 0 .. bound'.keys /\ disk' \in Version
    BY DEF ClientIInv, Calling, Types, ClientTypeOK, CallTypes
  <2>2. Input' = Input /\ Output' = Output
    BY DEF Input, Output, CallTypes
  <2>3. IpcTypeOK' /\ DOMAIN session' \subseteq SessionId
    BY DEF CallTypes, World, SessionsAreServed
  <2> QED
    BY <2>1, <2>2, <2>3 DEF Types, ClientTypeOK, CallTypes, SeenTypes
<1>2. InputIsLast'
  <2>1. Input' = Input /\ keys' = keys
    BY DEF Input, CallTypes
  <2> QED
    BY <2>1 DEF ClientIInv, Calling, InputIsLast
<1> QED
  BY <1>1, <1>2 DEF ClientIInv, Calling, CallTypes

LEMMA ReplaceKeeps ==
    ASSUME ClientIInv, bound' = bound, Replace
    PROVE  ClientIInv'
<1>0. /\ World /\ SeenTypes /\ server_status \in Status /\ Sessions(session)
      /\ trial \in 0 .. MaxTrial /\ version_trial \in 0 .. 1 /\ own \in Proc \cup {NoProc}
      /\ played \in 0 .. MaxPlayBackSize /\ replayed \in BOOLEAN /\ committed \subseteq 1 .. bound.keys
      /\ keys \in Nat /\ input \in Input \cup {NoInput} /\ output \in Output /\ ret \in BOOLEAN
      /\ 0 \notin SessionId /\ MaxPlayBackSize \in Nat \ {0} /\ JournalIsOver
  BY SizeAssumption
     DEF ClientIInv, World, SessionsAreServed, Sessions, Calling, Types, ClientTypeOK, SeenTypes, Journal
<1>1. PICK r \in Replies(EvalDelete(id)) : Call(EvalDelete(id), FALSE, r)
  BY DEF Replace
<1>2. /\ stack = << >> /\ server_status' = "UNKNOWN" /\ id' = 0 /\ history' = << >>
      /\ shown' = << >> /\ stack' = <<"Done">>
      /\ UNCHANGED <<played, input, keys, committed, replayed, loops, ret, output, disk>>
  BY DEF Replace, Idle
<1>3. Sessions(EvalDelete(id).sessions)
  <2>1. EvalDelete(id).sessions = [s \in DOMAIN session \ {id} |-> session[s]]
    BY DEF EvalDelete
  <2> QED
    BY <1>0, <2>1 DEF Sessions
<1>4. World' /\ SeenTypes'
  BY <1>0, <1>1, <1>3, CallKeepsWorld
<1>5. CallTypes
  <2>1. << >> \in Seq(Input) /\ << >> \in Seq(1 .. bound.keys) /\ Len(<< >>) = 0
    OBVIOUS
  <2>2. output' \in Output
    BY <1>0, <1>2 DEF Output
  <2> QED
    BY <1>0, <1>2, <1>4, <2>1, <2>2 DEF CallTypes, Status, loops
<1>6. /\ stack' \in Seq(Labels) /\ Nested(stack') /\ ~Inputting(stack') /\ ~Inputting(stack)
      /\ ~Restoring(stack') /\ \A x : At(x)' => x = "Done"
  BY <1>2 DEF Labels, Nested, Inputting, Restoring, At, CallLabels
<1>7. id' \notin DOMAIN session'
  BY <1>0, <1>2, <1>4 DEF World, SessionsAreServed
<1>8. Over' = Over
  BY <1>2, <1>6 DEF Over, Inputting
<1>9. JournalIsOver'
  <2>1. Alive(history, Len(history))' = {}
    BY <1>2 DEF Alive
  <2> QED
    BY <1>0, <1>2, <1>8, <2>1 DEF JournalIsOver
<1>10. ShownIsInOrder' /\ CommittedStaysCommitted'
  BY <1>2 DEF ShownIsInOrder, CommittedStaysCommitted, Range
<1>11. OfSameVersion(id)' /\ GoodSessionHolds'
  BY <1>7 DEF OfSameVersion, GoodSessionHolds
<1>12. NewSessionIsEmpty' /\ ReplayIsInOrder'
  BY <1>6 DEF NewSessionIsEmpty, ReplayIsInOrder
<1> QED
  BY <1>0, <1>2, <1>5, <1>6, <1>9, <1>10, <1>11, <1>12, CallStep DEF Journal

LEMMA SendInputKeeps ==
    ASSUME ClientIInv, bound' = bound, NEW in \in Input, SendInput(in)
    PROVE  ClientIInv'
<1>0. /\ World /\ ClientTypeOK /\ Types /\ Journal /\ bound \in Bounds /\ bound.keys \in Nat
      /\ keys \in 0 .. bound.keys
  BY BoundsAssumption DEF ClientIInv, Calling, Types, ClientTypeOK
<1>1. /\ stack = << >> /\ in.n = keys + 1 /\ keys' = in.n /\ input' = in
      /\ stack' = <<"EnsureSession", "EnsureCall", "Done">>
      /\ UNCHANGED <<server_status, calls, history, played, shown, committed, replayed,
                     loops, id, ret, output, disk>>
  BY DEF SendInput, Idle
<1>2. World' /\ Kept
  BY <1>0, <1>1, StillKeepsWorld DEF calls
<1>3. /\ stack' \in Seq(Labels) /\ Nested(stack') /\ Inputting(stack') /\ ~Inputting(stack)
      /\ ~Restoring(stack') /\ \A x : At(x)' => x = "EnsureSession"
  BY <1>1 DEF Labels, Nested, Inputting, Restoring, At, CallLabels, SessionLabels, Calls
<1>4. Over' = Over
  <2>1. Over' = keys' - 1 /\ Over = keys
    BY <1>3 DEF Over, Inputting
  <2> QED
    BY <1>0, <1>1, <2>1
<1>5. Types'
  <2>1. in.n \in 1 .. bound.keys
    BY DEF Input
  <2>2. Input' = Input /\ Output' = Output
    BY DEF Input, Output
  <2>3. keys' \in 0 .. bound.keys
    BY <1>0, <1>1, <2>1
  <2>4. IpcTypeOK' /\ DOMAIN session' \subseteq SessionId
    BY <1>2 DEF World, SessionsAreServed
  <2>5. /\ history' \in Seq(Input) /\ Len(history') <= MaxPlayBackSize
        /\ played' \in 0 .. MaxPlayBackSize /\ replayed' \in BOOLEAN
        /\ shown' \in Seq(1 .. bound.keys) /\ committed' \subseteq 1 .. bound.keys
    BY <1>0, <1>1 DEF Types, ClientTypeOK
  <2>6. /\ server_status' \in Status /\ id' \in SessionId \cup {0} /\ ret' \in BOOLEAN
        /\ output' \in Output /\ disk' \in Version
        /\ trial' \in 0 .. MaxTrial /\ version_trial' \in 0 .. 1 /\ own' \in Proc \cup {NoProc}
        /\ seen' \in Version \cup {"unset"} /\ seen_pid' \in Proc \cup {NoProc}
    BY <1>0, <1>1 DEF Types, ClientTypeOK, loops, calls
  <2> QED
    BY <1>0, <1>1, <1>3, <2>2, <2>3, <2>4, <2>5, <2>6 DEF Types, ClientTypeOK
<1>6. Calling'
  <2>1. Input' = Input
    BY DEF Input
  <2> QED
    BY <1>1, <1>3, <1>5, <2>1 DEF Calling, InputIsLast
<1>7. JournalIsOver' /\ ShownIsInOrder' /\ CommittedStaysCommitted' /\ OfSameVersion(id)'
  BY <1>0, <1>1, <1>2, <1>4 DEF Journal, JournalIsOver, TooLong, Alive, Commits, ShownIsInOrder,
                            CommittedStaysCommitted, OfSameVersion, Kept
<1>8. GoodSessionHolds'
  <2>1. ~At("Playback") /\ ~At("SecondTrial")
    BY <1>1 DEF At
  <2> QED
    BY <1>0, <1>1, <1>2, <1>4, <2>1 DEF Journal, GoodSessionHolds, Holds, Kept
<1>9. NewSessionIsEmpty' /\ ReplayIsInOrder'
  BY <1>3 DEF NewSessionIsEmpty, ReplayIsInOrder
<1> QED
  BY <1>2, <1>6, <1>7, <1>8, <1>9 DEF ClientIInv, Journal

LEMMA DoneKeeps ==
    ASSUME ClientIInv, bound' = bound, Done
    PROVE  ClientIInv'
<1>0. /\ World /\ Types /\ ClientTypeOK /\ Journal /\ stack \in Seq(Labels) /\ Nested(stack)
      /\ NoInput \in Input \cup {NoInput}
  BY DEF ClientIInv, Calling, Types, ClientTypeOK
<1>1. /\ At("Done") /\ stack' = Tail(stack) /\ ret' = TRUE
      /\ trial' = 0 /\ version_trial' = 0 /\ input' = NoInput /\ output' = EmptyOutput
      /\ played' = 0 /\ own' = NoProc /\ replayed' = FALSE /\ seen_pid' = NoProc
      /\ UNCHANGED <<server_status, ipcServer, ipcClient, seen, session, faults, history,
                     ghost, id, disk>>
  BY DEF Done, Return
<1>2. World' /\ Kept
  BY <1>0, <1>1, StillKeepsWorld
<1>3. /\ stack' \in Seq(Labels) /\ Nested(stack')
      /\ Inputting(stack') <=> Inputting(stack)
      /\ Restoring(stack') => Restoring(stack)
      /\ \A x : ~At(x)'
  <2>1. "Done" \notin CallLabels /\ \A x : ~Calls("Done", x)
    BY DEF Calls, CallLabels, StartLabels, ConnectionLabels, SessionLabels, VersionLabels
  <2> QED
    BY <1>0, <1>1, <2>1, ReturnMoves
<1>4. ~Inputting(stack') /\ ~Restoring(stack')
  <2>1. stack' = << >>
    BY <1>3 DEF At
  <2> QED
    BY <2>1 DEF Inputting, Restoring
<1>5. UNCHANGED <<id, history, keys, shown, committed>>
  BY <1>1 DEF ghost
<1>6. JournalIsOver' /\ ShownIsInOrder' /\ CommittedStaysCommitted'
  BY <1>0, <1>3, <1>5, TextStays
<1>7. OfSameVersion(id)' /\ GoodSessionHolds'
  <2>1. ~At("Playback") /\ ~At("SecondTrial")
    BY <1>1 DEF At
  <2> QED
    BY <1>0, <1>1, <1>2, <1>3, <1>5, <2>1, SessionStays
<1>8. NewSessionIsEmpty' /\ ReplayIsInOrder'
  BY <1>3, <1>4 DEF NewSessionIsEmpty, ReplayIsInOrder
<1>9. CallTypes
  <2>1. 0 \in SessionId \cup {0}
    OBVIOUS
  <2>2. output' \in Output
    BY <1>1, <2>1, RepliesAreOutputs
  <2>3. MaxPlayBackSize \in Nat /\ MaxTrial \in Nat
    BY SizeAssumption
  <2>4. /\ trial' \in 0 .. MaxTrial /\ version_trial' \in 0 .. 1 /\ own' \in Proc \cup {NoProc}
        /\ played' \in 0 .. MaxPlayBackSize
    BY <1>1, <2>3
  <2>6. replayed' \in BOOLEAN /\ SeenTypes'
    BY <1>0, <1>1 DEF ClientTypeOK, SeenTypes
  <2>5. /\ history' \in Seq(Input) /\ Len(history') <= MaxPlayBackSize
        /\ shown' \in Seq(1 .. bound.keys) /\ committed' \subseteq 1 .. bound.keys
        /\ server_status' \in Status /\ id' \in SessionId \cup {0} /\ UNCHANGED <<keys, disk>>
    BY <1>0, <1>1, <1>5 DEF Types, ClientTypeOK
  <2> QED
    BY <1>2, <2>2, <2>4, <2>5, <2>6 DEF CallTypes
<1> QED
  BY <1>0, <1>1, <1>3, <1>4, <1>6, <1>7, <1>8, <1>9, CallStep DEF Journal

-----------------------------------------------------------------------------
\* What a session makes of its inputs.

LEMMA InputTypes ==
    ASSUME NEW in \in Input, ClientIInv
    PROVE  /\ in.n \in 1 .. bound.keys /\ bound.keys \in Nat
           /\ Type(in) \in {"SEND_KEY", "SEND_COMMAND", "TEST_SEND_KEY"}
           /\ Effect(in) \in {"edit", "commit", "pass"}
<1>1. in.n \in 1 .. bound.keys /\ in.kind \in Kind
  BY DEF Input
<1>2. in.kind \in {"SEND_KEY", "SEND_COMMAND", "TEST_SEND_KEY"} \X {"edit", "commit", "pass"}
  BY <1>1, KindAssumption
<1>3. bound.keys \in Nat
  BY BoundsAssumption DEF ClientIInv, Calling, Types, ClientTypeOK
<1> QED
  BY <1>1, <1>2, <1>3 DEF Type, Effect

LEMMA RangeOfText ==
    ASSUME NEW S, NEW text \in Seq(S) PROVE Range(text) \subseteq S
<1>1. \A i \in DOMAIN text : text[i] \in S
  OBVIOUS
<1> QED
  BY <1>1 DEF Range

\* A text stays in order when a later input is taken in, and is empty after a commit.
LEMMA TypedKeeps ==
    ASSUME ClientIInv, NEW in \in Input, NEW text \in Seq(1 .. bound.keys), Increasing(text),
           \A n \in Range(text) : n < in.n
    PROVE  /\ Typed(text, in) \in Seq(1 .. bound.keys) /\ Increasing(Typed(text, in))
           /\ Commits(in) => Range(Typed(text, in)) = {}
           /\ Range(Typed(text, in)) \subseteq Range(text) \cup {in.n}
<1> DEFINE t == Typed(text, in)
<1>1. /\ in.n \in 1 .. bound.keys /\ bound.keys \in Nat
      /\ Effect(in) \in {"edit", "commit", "pass"}
  BY InputTypes
<1>2. CASE Type(in) = "TEST_SEND_KEY" \/ Effect(in) = "pass"
  <2>1. t = text /\ ~Commits(in)
    BY <1>2 DEF Typed, Commits
  <2> QED
    BY <2>1
<1>3. CASE Type(in) # "TEST_SEND_KEY" /\ Effect(in) = "edit"
  <2>1. t = Append(text, in.n) /\ ~Commits(in)
    BY <1>3 DEF Typed, Commits
  <2> HIDE DEF t
  <2>2. /\ t \in Seq(1 .. bound.keys) /\ Len(t) = Len(text) + 1 /\ Len(text) \in Nat
        /\ t[Len(text) + 1] = in.n /\ \A i \in 1 .. Len(text) : t[i] = text[i]
    BY <1>1, <2>1
  <2>3. \A i \in 1 .. Len(text) : text[i] \in Range(text) /\ text[i] < in.n
    BY DEF Range
  <2>4. Increasing(t)
    BY <2>2, <2>3 DEF Increasing
  <2>5. Range(t) \subseteq Range(text) \cup {in.n}
    BY <2>2, <2>3 DEF Range
  <2> QED
    BY <2>1, <2>2, <2>4, <2>5 DEF t
<1>4. CASE Type(in) # "TEST_SEND_KEY" /\ Effect(in) = "commit"
  <2>1. t = << >>
    BY <1>4 DEF Typed
  <2> QED
    BY <2>1 DEF Increasing, Range
<1> QED
  BY <1>1, <1>2, <1>3, <1>4

LEMMA TypedIsText ==
    ASSUME ClientIInv, NEW in \in Input, NEW text \in Seq(1 .. bound.keys)
    PROVE  Typed(text, in) \in Seq(1 .. bound.keys)
<1>1. in.n \in 1 .. bound.keys
  BY InputTypes
<1>2. << >> \in Seq(1 .. bound.keys) /\ Append(text, in.n) \in Seq(1 .. bound.keys)
  BY <1>1
<1> QED
  BY <1>2 DEF Typed

\* An input for a session that is not there changes nothing; otherwise it is typed in
\* and answered by that session.
LEMMA InputIsEvaluated ==
    ASSUME ClientIInv, NEW in \in Input
    PROVE  LET eval == EvalInput(in, id) IN
           /\ Sessions(eval.sessions) /\ DOMAIN eval.sessions = DOMAIN session
           /\ eval.reply \in Output /\ EmptyOutput \in Output
           /\ id \notin DOMAIN session =>
                eval.sessions = session /\ eval.reply.id = 0 /\ eval.reply.consumed = FALSE
           /\ id \in DOMAIN session =>
                /\ eval.sessions[id] = Typed(session[id], in)
                /\ eval.reply.id = id /\ id # 0
                /\ eval.reply.text = Typed(session[id], in)
                /\ eval.reply.consumed = (Effect(in) # "pass")
                /\ eval.reply.result = (IF Commits(in) THEN Range(session[id]) \cup {in.n} ELSE {})
<1> DEFINE eval == EvalInput(in, id)
           text == Typed(session[id], in)
<1>0. /\ session \in [DOMAIN session -> Seq(1 .. bound.keys)] /\ DOMAIN session \subseteq SessionId
      /\ \A s, t \in DOMAIN session : s = t
      /\ 0 \notin SessionId /\ EmptyOutput \in Output /\ EmptyOutput.id = 0
      /\ id \in SessionId \cup {0} /\ in.n \in 1 .. bound.keys
  BY SizeAssumption, InputTypes, RepliesAreOutputs
     DEF ClientIInv, World, SessionsAreServed, Calling, Types, ClientTypeOK
<1>1. CASE id \notin DOMAIN session
  <2>1. eval = [sessions |-> session, reply |-> [EmptyOutput EXCEPT !.error = TRUE]]
    BY <1>1 DEF EvalInput
  <2>2. [EmptyOutput EXCEPT !.error = TRUE] \in Output
    BY <1>0 DEF Output
  <2>3. /\ [EmptyOutput EXCEPT !.error = TRUE].id = 0
        /\ [EmptyOutput EXCEPT !.error = TRUE].consumed = FALSE
    BY DEF EmptyOutput
  <2>4. Sessions(session)
    BY <1>0 DEF Sessions
  <2>5. eval.sessions = session /\ eval.reply = [EmptyOutput EXCEPT !.error = TRUE]
    BY <2>1
  <2> HIDE DEF eval
  <2> QED
    BY <1>0, <1>1, <2>2, <2>3, <2>4, <2>5 DEF eval, Sessions
<1>2. CASE id \in DOMAIN session
  <2> DEFINE result == IF Effect(in) = "commit" /\ Type(in) # "TEST_SEND_KEY"
                       THEN Range(session[id]) \cup {in.n} ELSE {}
  <2>1. /\ eval.sessions = [session EXCEPT ![id] = text]
        /\ eval.reply = [id |-> id, error |-> FALSE, consumed |-> Effect(in) # "pass",
                         result |-> result, text |-> text]
    BY <1>2 DEF EvalInput
  <2>2. text \in Seq(1 .. bound.keys)
    BY <1>0, <1>2, TypedIsText
  <2>3. result \in SUBSET (1 .. bound.keys)
    <3>1. session[id] \in Seq(1 .. bound.keys)
      BY <1>0, <1>2
    <3>2. Range(session[id]) \subseteq 1 .. bound.keys
      BY <3>1, RangeOfText
    <3> QED
      BY <1>0, <3>2
  <2>4. result = IF Commits(in) THEN Range(session[id]) \cup {in.n} ELSE {}
    BY DEF Commits
  <2>5. (Effect(in) # "pass") \in BOOLEAN
    OBVIOUS
  <2> HIDE DEF result, text, eval
  <2>6. eval.reply \in Output
    BY <1>0, <2>1, <2>2, <2>3, <2>5 DEF Output
  <2>7. Sessions(eval.sessions) /\ DOMAIN eval.sessions = DOMAIN session /\ eval.sessions[id] = text
    BY <1>0, <1>2, <2>1, <2>2 DEF Sessions
  <2>8. /\ eval.reply.id = id /\ id # 0 /\ eval.reply.text = text
        /\ eval.reply.consumed = (Effect(in) # "pass") /\ eval.reply.result = result
    BY <1>0, <1>2, <2>1
  <2> QED
    BY <1>0, <1>2, <2>4, <2>6, <2>7, <2>8 DEF eval, text
<1> QED
  BY <1>1, <1>2

\* What one more input of the journal leaves alive.
LEMMA AliveGrows ==
    ASSUME NEW h, NEW k \in Nat
    PROVE  /\ Alive(h, k) \subseteq {h[i].n : i \in 1 .. k}
           /\ Commits(h[k + 1]) => Alive(h, k + 1) = {}
           /\ ~Commits(h[k + 1]) => Alive(h, k + 1) = Alive(h, k) \cup {h[k + 1].n}
<1>1. Alive(h, k) \subseteq {h[i].n : i \in 1 .. k}
  BY DEF Alive
<1>2. ASSUME Commits(h[k + 1]) PROVE Alive(h, k + 1) = {}
  <2>1. \A j \in 1 .. k + 1 : k + 1 \in j .. k + 1
    OBVIOUS
  <2> QED
    BY <1>2, <2>1 DEF Alive
<1>3. ASSUME ~Commits(h[k + 1]) PROVE Alive(h, k + 1) = Alive(h, k) \cup {h[k + 1].n}
  <2> DEFINE old == {j \in 1 .. k : \A l \in j .. k : ~Commits(h[l])}
             now == {j \in 1 .. k + 1 : \A l \in j .. k + 1 : ~Commits(h[l])}
  <2>1. now = old \cup {k + 1}
    <3>1. \A j \in 1 .. k : j .. k + 1 = (j .. k) \cup {k + 1}
      OBVIOUS
    <3>2. \A j \in 1 .. k : j \in now <=> j \in old
      BY <1>3, <3>1
    <3>3. k + 1 \in now
      BY <1>3
    <3> QED
      BY <3>2, <3>3
  <2>2. Alive(h, k) = {h[i].n : i \in old} /\ Alive(h, k + 1) = {h[i].n : i \in now}
    BY DEF Alive
  <2> HIDE DEF old, now
  <2> QED
    BY <2>1, <2>2
<1> QED
  BY <1>1, <1>2, <1>3

LEMMA AliveOfAppended ==
    ASSUME NEW S, NEW h \in Seq(S), NEW x \in S
    PROVE  /\ Alive(Append(h, x), Len(h)) = Alive(h, Len(h))
           /\ Append(h, x)[Len(h) + 1] = x /\ Len(Append(h, x)) = Len(h) + 1
<1>1. \A i \in 1 .. Len(h) : Append(h, x)[i] = h[i]
  OBVIOUS
<1> DEFINE g == Append(h, x)
<1>2. g[Len(h) + 1] = x /\ Len(g) = Len(h) + 1 /\ Len(h) \in Nat
  OBVIOUS
<1> HIDE DEF g
<1>3. \A i \in 1 .. Len(h) : g[i] = h[i]
  BY <1>1 DEF g
<1>4. {j \in 1 .. Len(h) : \A l \in j .. Len(h) : ~Commits(g[l])}
        = {j \in 1 .. Len(h) : \A l \in j .. Len(h) : ~Commits(h[l])}
  <2>1. ASSUME NEW j \in 1 .. Len(h), NEW l \in j .. Len(h) PROVE g[l] = h[l]
    BY <1>2, <1>3
  <2> QED
    BY <2>1
<1>5. Alive(g, Len(h)) = Alive(h, Len(h))
  BY <1>3, <1>4 DEF Alive
<1> QED
  BY <1>2, <1>5 DEF g

\* The session has answered the input under way, which is over now.
LEMMA AnswerHolds ==
    ASSUME ClientIInv, Inputting(stack), ~Inputting(stack'), UNCHANGED <<id, keys, input>>,
           id \in DOMAIN session, Holds(session[id]), bound' = bound,
           NEW out, out = EvalInput(input, id).reply, session' = EvalInput(input, id).sessions,
           history' = PushHistory(out), Delivered(out)
    PROVE  /\ JournalIsOver' /\ ShownIsInOrder' /\ CommittedStaysCommitted'
           /\ Holds(session[id])'
           /\ history' \in Seq(Input) /\ Len(history') <= MaxPlayBackSize
           /\ shown' \in Seq(1 .. bound.keys) /\ committed' \subseteq 1 .. bound.keys
<1> DEFINE old == session[id]
           text == Typed(old, input)
           result == IF Commits(input) THEN Range(old) \cup {input.n} ELSE {}
<1>0. /\ history \in Seq(Input) /\ Len(history) <= MaxPlayBackSize /\ Len(history) \in Nat
      /\ MaxPlayBackSize \in Nat \ {0}
      /\ input \in Input /\ input.n = keys /\ keys \in Nat
      /\ Over = keys - 1 /\ Over' = keys /\ JournalIsOver
      /\ committed \subseteq 1 .. bound.keys /\ old \in Seq(1 .. bound.keys)
      /\ input.n \in 1 .. bound.keys
  <2>1. input \in Input /\ input.n = keys
    BY DEF ClientIInv, Calling, InputIsLast
  <2>2. Over = keys - 1 /\ Over' = keys
    BY DEF Over, Inputting
  <2>3. old \in Seq(1 .. bound.keys)
    BY DEF ClientIInv, World, SessionsAreServed
  <2>4. history \in Seq(Input) /\ Len(history) <= MaxPlayBackSize /\ committed \subseteq 1 .. bound.keys
    BY DEF ClientIInv, Calling, Types, ClientTypeOK
  <2> QED
    BY <2>1, <2>2, <2>3, <2>4, SizeAssumption, InputTypes DEF ClientIInv, Journal
<1>1. Increasing(old) /\ Range(old) \subseteq (1 .. Over) \ committed
  BY DEF Holds
<1>2. \A n \in Range(old) : n < input.n
  BY <1>0, <1>1
<1>3. /\ session'[id] = text /\ out.id = id /\ id # 0 /\ out.text = text
      /\ out.consumed = (Effect(input) # "pass") /\ out.result = result
  BY <1>0, <1>1, <1>2, InputIsEvaluated
<1>4. /\ text \in Seq(1 .. bound.keys) /\ Increasing(text)
      /\ Commits(input) => Range(text) = {}
      /\ Range(text) \subseteq Range(old) \cup {input.n}
  BY <1>0, <1>1, <1>2, TypedKeeps
<1>5. shown' = text /\ committed' = committed \cup result
  BY <1>3 DEF Delivered
<1> HIDE DEF old, text
<1>6. /\ committed' \subseteq 1 .. bound.keys /\ committed' \subseteq 1 .. Over'
      /\ ~Commits(input) => committed' = committed
      /\ Range(text) \cap committed' = {} /\ Range(text) \subseteq 1 .. Over'
  <2>1. committed \subseteq 1 .. Over
    BY <1>0 DEF JournalIsOver
  <2>2. Range(old) \subseteq 1 .. bound.keys
    BY <1>0, RangeOfText
  <2>3. CASE Commits(input)
    <3>1. committed' = committed \cup Range(old) \cup {input.n} /\ Range(text) = {}
      BY <1>4, <1>5, <2>3
    <3>2. Range(old) \cup {input.n} \cup committed \subseteq 1 .. Over'
      <4>1. 1 .. Over \subseteq 1 .. Over' /\ input.n \in 1 .. Over'
        BY <1>0
      <4> QED
        BY <1>1, <2>1, <4>1
    <3> HIDE DEF result
    <3> QED
      BY <1>0, <2>2, <2>3, <3>1, <3>2
  <2>4. CASE ~Commits(input)
    <3>1. committed' = committed
      BY <1>5, <2>4
    <3>2. input.n \notin committed
      BY <1>0, <2>1
    <3> QED
      BY <1>0, <1>1, <1>4, <2>1, <3>1, <3>2
  <2> QED
    BY <2>3, <2>4
<1> HIDE DEF result
<1>7. ShownIsInOrder' /\ CommittedStaysCommitted' /\ shown' \in Seq(1 .. bound.keys)
  BY <1>4, <1>5, <1>6 DEF ShownIsInOrder, CommittedStaysCommitted, Increasing
<1>8. Holds(session[id])'
  BY <1>3, <1>4, <1>6 DEF Holds, Increasing
<1>9. /\ history' \in Seq(Input) /\ Len(history') <= MaxPlayBackSize /\ JournalIsOver'
  <2>0. /\ \A i, j \in 1 .. Len(history) : i < j => history[i].n < history[j].n
        /\ \A i \in 1 .. Len(history) : history[i] \in Input /\ history[i].n <= Over
        /\ ~TooLong => Alive(history, Len(history)) \cap committed = {}
    BY <1>0 DEF JournalIsOver
  <2>1. CASE history' = << >>
    <3>1. Len(history') = 0 /\ Alive(history, Len(history))' = {}
      BY <2>1 DEF Alive
    <3> QED
      BY <1>0, <1>6, <2>1, <3>1 DEF JournalIsOver
  <2>2. CASE history' = history /\ (TooLong \/ ~Commits(input))
    <3>1. TooLong' <=> TooLong
      BY <2>2 DEF TooLong
    <3>2. Alive(history, Len(history))' = Alive(history, Len(history))
      BY <2>2 DEF Alive, Commits
    <3>3. \A i \in 1 .. Len(history) : history[i].n <= Over'
      <4> SUFFICES ASSUME NEW i \in 1 .. Len(history) PROVE history[i].n <= Over'
        OBVIOUS
      <4>1. history[i].n \in 1 .. bound.keys
        BY <2>0, InputTypes
      <4> QED
        BY <1>0, <2>0, <4>1
    <3> QED
      BY <1>0, <1>6, <2>0, <2>2, <3>1, <3>2, <3>3 DEF JournalIsOver
  <2>3. CASE Len(history) < MaxPlayBackSize /\ history' = Append(history, input)
    <3> DEFINE k == Len(history)
    <3>1. /\ history' \in Seq(Input) /\ Len(history') = k + 1 /\ history'[k + 1] = input
          /\ \A i \in 1 .. k : history'[i] = history[i]
      BY <1>0, <2>3
    <3>2. Alive(history', k) = Alive(history, k)
      BY <1>0, <2>3, AliveOfAppended
    <3>3. Alive(history', k + 1) = IF Commits(input) THEN {} ELSE Alive(history, k) \cup {input.n}
      <4>1. PICK g : g = history'
        OBVIOUS
      <4>2. Alive(g, k) = Alive(history, k) /\ g[k + 1] = input
        BY <3>1, <3>2, <4>1
      <4>3. Alive(g, k + 1) = IF Commits(input) THEN {} ELSE Alive(history, k) \cup {input.n}
        BY <1>0, <4>2, AliveGrows
      <4> QED
        BY <4>1, <4>3
    <3>4. \A i \in 1 .. k : history[i].n \in Int /\ history[i].n <= Over /\ history[i].n < input.n
      <4> SUFFICES ASSUME NEW i \in 1 .. k
                   PROVE history[i].n \in Int /\ history[i].n <= Over /\ history[i].n < input.n
        OBVIOUS
      <4>1. history[i].n \in 1 .. bound.keys
        BY <2>0, InputTypes
      <4> QED
        BY <1>0, <2>0, <4>1
    <3>5. \A i, j \in 1 .. Len(history') : i < j => history'[i].n < history'[j].n
      <4> SUFFICES ASSUME NEW i \in 1 .. k + 1, NEW j \in 1 .. k + 1, i < j
                   PROVE history'[i].n < history'[j].n
        BY <3>1
      <4>1. i \in 1 .. k /\ history'[i] = history[i]
        BY <1>0, <3>1
      <4>2. CASE j = k + 1
        BY <3>1, <3>4, <4>1, <4>2
      <4>3. CASE j # k + 1
        <5>1. j \in 1 .. k /\ history'[j] = history[j]
          BY <1>0, <3>1, <4>3
        <5> QED
          BY <2>0, <4>1, <5>1
      <4> QED
        BY <4>2, <4>3
    <3>6. \A i \in 1 .. Len(history') : history'[i].n <= Over'
      BY <1>0, <3>1, <3>4
    <3>7. ~TooLong
      BY <1>0, <2>3 DEF TooLong
    <3>8. Alive(history', k + 1) \cap committed' = {}
      <4>1. CASE Commits(input)
        BY <3>3, <4>1
      <4>2. CASE ~Commits(input)
        <5>1. input.n \notin committed
          BY <1>0 DEF JournalIsOver
        <5> QED
          BY <1>6, <2>0, <3>3, <3>7, <4>2, <5>1
      <4> QED
        BY <4>1, <4>2
    <3>9. Alive(history, Len(history))' = Alive(history', k + 1)
      BY <3>1 DEF Alive, Commits
    <3> QED
      BY <1>0, <1>6, <2>3, <3>1, <3>5, <3>6, <3>8, <3>9 DEF JournalIsOver
  <2>4. CASE ~out.consumed
    <3>1. history' = history /\ ~Commits(input)
      BY <1>3, <2>4 DEF PushHistory, Commits
    <3> QED
      BY <2>2, <3>1
  <2>5. CASE out.consumed
    <3>1. CASE Type(input) = "SEND_KEY" /\ out.result # {}
      BY <2>1, <2>5, <3>1 DEF PushHistory
    <3>2. CASE ~(Type(input) = "SEND_KEY" /\ out.result # {}) /\ Len(history) < MaxPlayBackSize
      BY <2>3, <2>5, <3>2 DEF PushHistory
    <3>3. CASE ~(Type(input) = "SEND_KEY" /\ out.result # {}) /\ ~(Len(history) < MaxPlayBackSize)
      <4>1. history' = history
        BY <2>5, <3>3 DEF PushHistory
      <4>2. TooLong
        BY <1>0, <3>3 DEF TooLong
      <4> QED
        BY <2>2, <4>1, <4>2
    <3> QED
      BY <3>1, <3>2, <3>3
  <2> QED
    BY <2>4, <2>5
<1> QED
  BY <1>6, <1>7, <1>8, <1>9

\* The input under way is given up, or has been answered by nobody: the text stays.
LEMMA TextGrowsOver ==
    ASSUME ClientIInv, UNCHANGED <<history, keys, shown, committed, bound>>,
           Inputting(stack') => Inputting(stack)
    PROVE  /\ JournalIsOver' /\ ShownIsInOrder' /\ CommittedStaysCommitted'
           /\ \A text : Holds(text) => Increasing(text) /\ Range(text) \subseteq (1 .. Over') \ committed'
           /\ history' \in Seq(Input) /\ Len(history') <= MaxPlayBackSize
           /\ shown' \in Seq(1 .. bound.keys) /\ committed' \subseteq 1 .. bound.keys
<1>0. /\ history \in Seq(Input) /\ Len(history) <= MaxPlayBackSize
      /\ shown \in Seq(1 .. bound.keys) /\ committed \subseteq 1 .. bound.keys
      /\ JournalIsOver /\ ShownIsInOrder /\ CommittedStaysCommitted /\ keys \in Nat
  BY DEF ClientIInv, Calling, Types, ClientTypeOK, Journal
<1>1. Over \in Int /\ Over' \in Int /\ Over <= Over'
  <2>1. Over = (IF Inputting(stack) THEN keys - 1 ELSE keys)
    BY DEF Over
  <2>2. Over' = (IF Inputting(stack') THEN keys - 1 ELSE keys)
    BY DEF Over, Inputting
  <2> QED
    BY <1>0, <2>1, <2>2
<1>2. JournalIsOver'
  <2>1. \A i \in 1 .. Len(history) : history[i].n <= Over'
    <3> SUFFICES ASSUME NEW i \in 1 .. Len(history) PROVE history[i].n <= Over'
      OBVIOUS
    <3>1. history[i].n \in Int /\ history[i].n <= Over
      BY <1>0, InputTypes DEF JournalIsOver
    <3> QED
      BY <1>1, <3>1
  <2>2. committed \subseteq 1 .. Over'
    BY <1>0, <1>1 DEF JournalIsOver
  <2>3. /\ Alive(history, Len(history))' = Alive(history, Len(history))
        /\ TooLong' <=> TooLong
    BY DEF Alive, Commits, TooLong
  <2> QED
    BY <1>0, <2>1, <2>2, <2>3 DEF JournalIsOver
<1>3. ShownIsInOrder' /\ CommittedStaysCommitted'
  BY <1>0 DEF ShownIsInOrder, CommittedStaysCommitted
<1>4. \A text : Holds(text) => Increasing(text) /\ Range(text) \subseteq (1 .. Over') \ committed'
  BY <1>1 DEF Holds
<1> QED
  BY <1>0, <1>2, <1>3, <1>4

\* All that can become of an input that is sent to the session.
LEMMA InputOutcome ==
    ASSUME ClientIInv, bound' = bound, id' = id, NEW in \in Input, NEW r,
           Call(EvalInput(in, id), FALSE, r)
    PROVE  /\ World' /\ SeenTypes' /\ OfSameVersion(id)' /\ r.out \in Output
           /\ r.status \in Status /\ (r.status = "OK" => server_status = "OK") /\ r.ok \in BOOLEAN
           /\ \/ /\ r.ok /\ r.status = server_status /\ server_status \notin Dead /\ file # NoFile
                 /\ id \in DOMAIN session /\ r.out = EvalInput(in, id).reply
                 /\ session' = EvalInput(in, id).sessions
              \/ /\ r.ok /\ r.status = server_status /\ server_status \notin Dead
                 /\ r.out.id = 0 /\ r.out.consumed = FALSE /\ id \notin DOMAIN session'
              \/ /\ ~r.ok /\ r.out = EmptyOutput
                 /\ CheckedStatus(r.status) \in Status \ {"OK"}
                 /\ id \in DOMAIN session' => r.status \in Dead \/ file' = NoFile
<1> DEFINE eval == EvalInput(in, id)
<1>0. /\ World /\ SeenTypes /\ server_status \in Status /\ OfSameVersion(id)
      /\ EmptyOutput.id = 0 /\ EmptyOutput.consumed = FALSE
  BY DEF ClientIInv, World, Calling, Types, ClientTypeOK, SeenTypes, Journal, EmptyOutput
<1>1. /\ Sessions(eval.sessions) /\ DOMAIN eval.sessions = DOMAIN session
      /\ eval.reply \in Output /\ EmptyOutput \in Output
      /\ id \notin DOMAIN session =>
           eval.sessions = session /\ eval.reply.id = 0 /\ eval.reply.consumed = FALSE
  BY InputIsEvaluated
<1> HIDE DEF eval
<1>2. World' /\ SeenTypes' /\ Outcome(eval, FALSE, r)
  BY <1>0, <1>1, CallKeepsWorld DEF eval
<1>3. /\ r.status \in Status /\ (r.status = "OK" => server_status = "OK") /\ r.ok \in BOOLEAN
      /\ r.out \in Output
  BY <1>0, <1>1, <1>2, OutcomeTypes
<1>4. session' = << >> => id \notin DOMAIN session' /\ OfSameVersion(id)'
  BY NoSessions DEF OfSameVersion
<1>5. DOMAIN session' = DOMAIN session /\ UNCHANGED proc => OfSameVersion(id)'
  BY <1>0 DEF OfSameVersion, Serving
<1>6. Evaluated(eval) => /\ OfSameVersion(id)' /\ session' = eval.sessions
                         /\ server_status \notin Dead /\ file # NoFile
  BY <1>1, <1>5, NamesDiffer DEF Evaluated
<1>7. CASE r = Reply(TRUE, eval.reply, server_status) /\ Evaluated(eval)
  <2>1. r.ok /\ r.status = server_status /\ r.out = eval.reply
    BY <1>7 DEF Reply
  <2>2. CASE id \in DOMAIN session
    BY <1>2, <1>3, <1>6, <1>7, <2>1, <2>2 DEF eval
  <2>3. CASE id \notin DOMAIN session
    BY <1>1, <1>2, <1>3, <1>6, <1>7, <2>1, <2>3
  <2> QED
    BY <2>2, <2>3
<1>8. CASE r = Reply(TRUE, EmptyOutput, server_status) /\ session' = << >> /\ server_status \notin Dead
  <2>1. r.ok /\ r.status = server_status /\ r.out = EmptyOutput
    BY <1>8 DEF Reply
  <2> QED
    BY <1>0, <1>2, <1>3, <1>4, <1>8, <2>1
<1>9. CASE /\ r \in {Reply(FALSE, EmptyOutput, st) : st \in {"SHUTDOWN", "BROKEN_MESSAGE"}}
           /\ session' = << >>
  <2>1. PICK st \in {"SHUTDOWN", "BROKEN_MESSAGE"} : r = Reply(FALSE, EmptyOutput, st)
    BY <1>9
  <2>2. ~r.ok /\ r.status = st /\ r.out = EmptyOutput
    BY <2>1 DEF Reply
  <2>3. CheckedStatus(r.status) \in Status \ {"OK"}
    BY <2>2 DEF CheckedStatus, Status
  <2> QED
    BY <1>2, <1>3, <1>4, <1>9, <2>2, <2>3
<1>10. CASE r = Reply(FALSE, EmptyOutput, "TIMEOUT") /\ Evaluated(eval)
  <2>1. ~r.ok /\ r.status = "TIMEOUT" /\ r.out = EmptyOutput
    BY <1>10 DEF Reply
  <2>2. CheckedStatus(r.status) \in Status \ {"OK"} /\ r.status \in Dead
    BY <2>1 DEF CheckedStatus, Status, Dead
  <2> QED
    BY <1>2, <1>3, <1>6, <1>10, <2>1, <2>2
<1>11. ASSUME NEW st \in Status, r = Reply(FALSE, EmptyOutput, st), Refused(st),
              UNCHANGED <<proc, file, session>>
       PROVE  /\ ~r.ok /\ r.out = EmptyOutput /\ OfSameVersion(id)'
              /\ CheckedStatus(r.status) \in Status \ {"OK"}
              /\ id \in DOMAIN session' => r.status \in Dead \/ file' = NoFile
  <2>1. ~r.ok /\ r.status = st /\ r.out = EmptyOutput
    BY <1>11 DEF Reply
  <2>2. OfSameVersion(id)'
    BY <1>5, <1>11
  <2>3. CheckedStatus(r.status) \in Status \ {"OK"}
    BY <1>11, <2>1 DEF CheckedStatus, Status, Refused, Dead
  <2>4. ASSUME id \in DOMAIN session' PROVE r.status \in Dead \/ file' = NoFile
    <3>1. id \in DOMAIN session
      BY <1>11, <2>4
    <3>2. PICK p \in Proc : Serving(p)
      BY <1>0, <3>1 DEF World, SessionsAreServed
    <3>3. file = NoFile \/ file.key = p
      BY <1>0, <3>2 DEF World, FileOfServer
    <3>4. \A q \in Proc : Serving(q) => proc[q].version \notin OtherProtocol
      BY <1>0, <3>1 DEF OfSameVersion, OtherProtocol
    <3> QED
      BY <1>11, <2>1, <3>2, <3>3, <3>4 DEF Refused
  <2> QED
    BY <2>1, <2>2, <2>3, <2>4
<1> QED
  BY <1>2, <1>3, <1>7, <1>8, <1>9, <1>10, <1>11 DEF Outcome

\* The input is over, or waits for a new session, and the text stays.
LEMMA InputIsOver ==
    ASSUME ClientIInv, UNCHANGED <<id, history, keys, shown, committed, bound>>, OfSameVersion(id)',
           server_status' = "OK" => \/ id \notin DOMAIN session'
                                    \/ Kept /\ server_status = "OK" /\ ~At("Playback") /\ ~At("SecondTrial"),
           Inputting(stack') => Inputting(stack), Restoring(stack') => server_status' # "OK",
           \A x : At(x)' => x \in {"Done", "EnsureSession"}
    PROVE  /\ Journal'
           /\ history' \in Seq(Input) /\ Len(history') <= MaxPlayBackSize
           /\ shown' \in Seq(1 .. bound.keys) /\ committed' \subseteq 1 .. bound.keys
<1>1. /\ JournalIsOver' /\ ShownIsInOrder' /\ CommittedStaysCommitted'
      /\ \A text : Holds(text) => Increasing(text) /\ Range(text) \subseteq (1 .. Over') \ committed'
      /\ history' \in Seq(Input) /\ Len(history') <= MaxPlayBackSize
      /\ shown' \in Seq(1 .. bound.keys) /\ committed' \subseteq 1 .. bound.keys
  BY TextGrowsOver
<1>2. GoodSessionHolds'
  <2> SUFFICES ASSUME server_status' = "OK", id \in DOMAIN session' PROVE Holds(session[id])'
    BY DEF GoodSessionHolds
  <2>1. id \in DOMAIN session /\ session'[id] = session[id]
    BY DEF Kept
  <2>2. Holds(session[id])
    BY <2>1 DEF ClientIInv, Journal, GoodSessionHolds
  <2>3. Increasing(session[id]) /\ Range(session[id]) \subseteq (1 .. Over') \ committed'
    BY <1>1, <2>2
  <2> QED
    BY <2>1, <2>3 DEF Holds, Increasing
<1>3. NewSessionIsEmpty' /\ ReplayIsInOrder'
  <2>1. Restoring(stack)' => server_status' # "OK"
    BY DEF Restoring
  <2> QED
    BY <2>1 DEF NewSessionIsEmpty, ReplayIsInOrder
<1> QED
  BY <1>1, <1>2, <1>3 DEF Journal

-----------------------------------------------------------------------------
\* The steps of an input.

\* The first trial.
LEMMA EnsureCallKeeps ==
    ASSUME ClientIInv, bound' = bound, EnsureCall
    PROVE  ClientIInv'
<1> USE DEF Labels, CallLabels, StartLabels, ConnectionLabels, SessionLabels, VersionLabels
<1>0. /\ World /\ SeenTypes /\ server_status \in Status /\ stack \in Seq(Labels) /\ Nested(stack)
      /\ id \in SessionId \cup {0} /\ output \in Output /\ disk \in Version
      /\ trial \in 0 .. MaxTrial /\ version_trial \in 0 .. 1 /\ own \in Proc \cup {NoProc}
      /\ played \in 0 .. MaxPlayBackSize /\ replayed \in BOOLEAN /\ OfSameVersion(id)
      /\ input \in Input \cup {NoInput}
  BY DEF ClientIInv, World, Calling, Types, ClientTypeOK, SeenTypes, Journal
<1>1. /\ At("EnsureCall") /\ ~At("Playback") /\ ~At("SecondTrial")
      /\ UNCHANGED <<played, input, keys, replayed, loops, id, disk>>
  BY DEF EnsureCall, At
<1>2. Inputting(stack)
  BY <1>0, <1>1, TopIsFirst DEF Inputting
<1>3. ASSUME stack' = Tail(stack)
      PROVE  /\ stack' \in Seq(Labels) /\ Nested(stack') /\ ~Inputting(stack') /\ ~Restoring(stack')
             /\ \A x : At(x)' => x = "Done"
  <2>1. /\ stack' \in Seq(Labels) /\ Nested(stack') /\ ~Inputting(stack') /\ ~Restoring(stack')
        /\ \A x : At(x)' => Calls("EnsureCall", x)
    BY <1>0, <1>1, <1>3, ReturnMoves
  <2> QED
    BY <2>1 DEF Calls
<1>4. ASSUME Perform("EnsureSession", "SessionRestored")
      PROVE  /\ stack' \in Seq(Labels) /\ Nested(stack') /\ ret' = ret
             /\ \A x : At(x)' => x = "EnsureSession"
  <2>1. /\ \A b \in Labels : Calls("EnsureCall", b) => Calls("SessionRestored", b)
        /\ Calls("EnsureSession", "SessionRestored")
    BY DEF Calls
  <2>2. /\ "EnsureSession" \in Labels /\ "SessionRestored" \in Labels /\ "EnsureSession" \notin CallLabels
        /\ "EnsureCall" \in CallLabels <=> "SessionRestored" \in CallLabels
    OBVIOUS
  <2> HIDE DEF Labels, CallLabels
  <2> QED
    BY <1>0, <1>1, <1>4, <2>1, <2>2, PerformMoves
<1>5. CASE /\ ~ret /\ Return(FALSE)
           /\ UNCHANGED <<calls, server_status, output, history, shown, committed>>
  <2>1. World' /\ Kept /\ SeenTypes'
    BY <1>0, <1>5, StillKeepsWorld DEF calls, SeenTypes
  <2>2. stack' = Tail(stack) /\ ret' = FALSE
    BY <1>5 DEF Return
  <2>3. OfSameVersion(id)'
    BY <1>0, <1>1, <2>1 DEF OfSameVersion, Kept
  <2>4. server_status' = "OK" => server_status = "OK"
    BY <1>5
  <2>5. /\ Journal' /\ history' \in Seq(Input) /\ Len(history') <= MaxPlayBackSize
        /\ shown' \in Seq(1 .. bound.keys) /\ committed' \subseteq 1 .. bound.keys
    BY <1>1, <1>2, <1>3, <1>5, <2>1, <2>2, <2>3, <2>4, InputIsOver
  <2>6. output' \in Output
    BY <1>0, <1>5 DEF Output
  <2>7. CallTypes
    BY <1>0, <1>1, <1>5, <2>1, <2>5, <2>6 DEF CallTypes, loops
  <2>8. ret' \in BOOLEAN /\ input' \in Input \cup {NoInput}
    BY <1>0, <1>1, <2>2 DEF Input
  <2> QED
    BY <1>1, <1>3, <2>2, <2>5, <2>7, <2>8, CallStep
<1>6. ASSUME ret, NEW r, Call(EvalInput(input, id), FALSE, r), output' = r.out,
             server_status' = (IF r.ok THEN (IF r.out.id # id THEN "INVALID_SESSION" ELSE r.status)
                                       ELSE CheckedStatus(r.status)),
             \/ server_status' \in Dead /\ Return(FALSE) /\ UNCHANGED <<history, shown, committed>>
             \/ /\ server_status' \in {"SHUTDOWN", "INVALID_SESSION"}
                /\ Perform("EnsureSession", "SessionRestored") /\ UNCHANGED <<history, shown, committed>>
             \/ /\ server_status' \notin Dead \cup {"SHUTDOWN", "INVALID_SESSION"}
                /\ Return(TRUE) /\ history' = PushHistory(r.out) /\ Delivered(r.out)
      PROVE  ClientIInv'
  <2>0. server_status = "OK" /\ input \in Input
    BY <1>1, <1>2, <1>6 DEF ClientIInv, Calling, InputIsLast, Journal, NewSessionIsEmpty
  <2>1. /\ World' /\ SeenTypes' /\ OfSameVersion(id)' /\ r.out \in Output
        /\ r.status \in Status /\ r.ok \in BOOLEAN
        /\ \/ /\ r.ok /\ r.status = server_status
              /\ id \in DOMAIN session /\ r.out = EvalInput(input, id).reply
              /\ session' = EvalInput(input, id).sessions
           \/ /\ r.ok /\ r.status = server_status
              /\ r.out.id = 0 /\ r.out.consumed = FALSE /\ id \notin DOMAIN session'
           \/ /\ ~r.ok /\ r.out = EmptyOutput /\ CheckedStatus(r.status) \in Status \ {"OK"}
    BY <1>1, <1>6, <2>0, InputOutcome
  <2>2. output' \in Output /\ server_status' \in Status /\ input' \in Input \cup {NoInput}
    <3>1. output' \in Output
      BY <1>6, <2>1 DEF Output
    <3>2. server_status' \in Status
      BY <1>6, <2>1 DEF Status
    <3>3. input' \in Input \cup {NoInput}
      BY <1>0, <1>1 DEF Input
    <3> QED
      BY <3>1, <3>2, <3>3
  <2>3. SUFFICES /\ stack' \in Seq(Labels) /\ Nested(stack') /\ ret' \in BOOLEAN
                 /\ Inputting(stack') => Inputting(stack)
                 /\ Journal' /\ history' \in Seq(Input) /\ Len(history') <= MaxPlayBackSize
                 /\ shown' \in Seq(1 .. bound.keys) /\ committed' \subseteq 1 .. bound.keys
    <3>1. CallTypes
      BY <1>0, <1>1, <2>1, <2>2, <2>3 DEF CallTypes, loops
    <3> QED
      BY <1>1, <2>2, <2>3, <3>1, CallStep
  <2>4. ASSUME UNCHANGED <<history, shown, committed>>,
               ~r.ok \/ id \notin DOMAIN session',
               \/ stack' = Tail(stack) /\ ret' \in BOOLEAN
               \/ /\ server_status' # "OK" /\ Perform("EnsureSession", "SessionRestored")
        PROVE  /\ stack' \in Seq(Labels) /\ Nested(stack') /\ ret' \in BOOLEAN
               /\ Inputting(stack') => Inputting(stack)
               /\ Journal' /\ history' \in Seq(Input) /\ Len(history') <= MaxPlayBackSize
               /\ shown' \in Seq(1 .. bound.keys) /\ committed' \subseteq 1 .. bound.keys
    <3>1. /\ stack' \in Seq(Labels) /\ Nested(stack') /\ (Restoring(stack') => server_status' # "OK")
          /\ \A x : At(x)' => x \in {"Done", "EnsureSession"}
      BY <1>3, <1>4, <2>4
    <3>2. ret' \in BOOLEAN
      BY <1>4, <1>6, <2>4
    <3>3. server_status' = "OK" => id \notin DOMAIN session'
      BY <1>6, <2>1, <2>4
    <3> QED
      BY <1>1, <1>2, <2>1, <2>4, <3>1, <3>2, <3>3, InputIsOver
  <2>5. CASE r.ok /\ id \in DOMAIN session /\ r.out = EvalInput(input, id).reply
             /\ session' = EvalInput(input, id).sessions /\ r.status = server_status
    <3>1. r.out.id = id
      BY <2>0, <2>5, InputIsEvaluated
    <3>2. server_status' = "OK"
      BY <1>6, <2>0, <2>5, <3>1
    <3>3. Return(TRUE) /\ history' = PushHistory(r.out) /\ Delivered(r.out)
      BY <1>6, <3>2 DEF Dead
    <3>4. stack' = Tail(stack) /\ ret' = TRUE
      BY <3>3 DEF Return
    <3>5. /\ stack' \in Seq(Labels) /\ Nested(stack') /\ ~Inputting(stack') /\ ~Restoring(stack')
          /\ \A x : At(x)' => x = "Done"
      BY <1>3, <3>4
    <3>6. Holds(session[id])
      BY <1>1, <2>0, <2>5 DEF ClientIInv, Journal, GoodSessionHolds
    <3>7. /\ JournalIsOver' /\ ShownIsInOrder' /\ CommittedStaysCommitted'
          /\ Holds(session[id])'
          /\ history' \in Seq(Input) /\ Len(history') <= MaxPlayBackSize
          /\ shown' \in Seq(1 .. bound.keys) /\ committed' \subseteq 1 .. bound.keys
      BY <1>1, <1>2, <2>5, <3>3, <3>5, <3>6, AnswerHolds
    <3>8. Journal'
      <4>1. GoodSessionHolds'
        BY <3>7 DEF GoodSessionHolds
      <4>2. ~Restoring(stack)'
        BY <3>5 DEF Restoring
      <4>3. NewSessionIsEmpty' /\ ReplayIsInOrder'
        BY <3>5, <4>2 DEF NewSessionIsEmpty, ReplayIsInOrder
      <4> QED
        BY <2>1, <3>7, <4>1, <4>3 DEF Journal
    <3> QED
      BY <3>4, <3>5, <3>7, <3>8
  <2>6. CASE r.ok /\ r.out.id = 0 /\ r.out.consumed = FALSE /\ id \notin DOMAIN session'
             /\ r.status = server_status
    <3>1. UNCHANGED <<history, shown, committed>>
      BY <1>6, <2>6 DEF PushHistory, Delivered
    <3>2. \/ stack' = Tail(stack) /\ ret' \in BOOLEAN
          \/ /\ server_status' # "OK" /\ Perform("EnsureSession", "SessionRestored")
      BY <1>6 DEF Return
    <3> QED
      BY <2>4, <2>6, <3>1, <3>2
  <2>7. CASE ~r.ok /\ r.out = EmptyOutput
    <3>1. UNCHANGED <<history, shown, committed>>
      <4>1. EmptyOutput.id = 0 /\ EmptyOutput.consumed = FALSE
        BY DEF EmptyOutput
      <4> QED
        BY <1>6, <2>7, <4>1 DEF PushHistory, Delivered
    <3>2. \/ stack' = Tail(stack) /\ ret' \in BOOLEAN
          \/ /\ server_status' # "OK" /\ Perform("EnsureSession", "SessionRestored")
      BY <1>6 DEF Return
    <3> QED
      BY <2>4, <2>7, <3>1, <3>2
  <2> QED
    BY <2>1, <2>5, <2>6, <2>7
<1>7. CASE ret /\ \E r \in Replies(EvalInput(input, id)) :
             /\ Call(EvalInput(input, id), FALSE, r) /\ output' = r.out
             /\ LET lost == r.ok /\ r.out.id # id
                    then == CASE r.ok /\ lost -> "INVALID_SESSION"
                              [] r.ok /\ ~lost -> r.status
                              [] OTHER -> CheckedStatus(r.status)
                IN  /\ server_status' = then
                    /\ CASE then \in Dead -> Return(FALSE) /\ UNCHANGED <<history, shown, committed>>
                         [] then \in {"SHUTDOWN", "INVALID_SESSION"} ->
                              /\ Perform("EnsureSession", "SessionRestored")
                              /\ UNCHANGED <<history, shown, committed>>
                         [] OTHER -> /\ Return(TRUE)
                                     /\ history' = PushHistory(r.out) /\ Delivered(r.out)
  <2>1. PICK r \in Replies(EvalInput(input, id)) :
             /\ Call(EvalInput(input, id), FALSE, r) /\ output' = r.out
             /\ server_status' = (IF r.ok THEN (IF r.out.id # id THEN "INVALID_SESSION" ELSE r.status)
                                          ELSE CheckedStatus(r.status))
             /\ CASE server_status' \in Dead -> Return(FALSE) /\ UNCHANGED <<history, shown, committed>>
                  [] server_status' \in {"SHUTDOWN", "INVALID_SESSION"} ->
                       /\ Perform("EnsureSession", "SessionRestored")
                       /\ UNCHANGED <<history, shown, committed>>
                  [] OTHER -> /\ Return(TRUE)
                              /\ history' = PushHistory(r.out) /\ Delivered(r.out)
    BY <1>7
  <2>2. \/ server_status' \in Dead /\ Return(FALSE) /\ UNCHANGED <<history, shown, committed>>
        \/ /\ server_status' \in {"SHUTDOWN", "INVALID_SESSION"}
           /\ Perform("EnsureSession", "SessionRestored") /\ UNCHANGED <<history, shown, committed>>
        \/ /\ server_status' \notin Dead \cup {"SHUTDOWN", "INVALID_SESSION"}
           /\ Return(TRUE) /\ history' = PushHistory(r.out) /\ Delivered(r.out)
    <3>1. "SHUTDOWN" \notin Dead /\ "INVALID_SESSION" \notin Dead
      BY DEF Dead
    <3>2. CASE server_status' \in Dead
      BY <2>1, <3>1, <3>2
    <3>3. CASE server_status' \in {"SHUTDOWN", "INVALID_SESSION"}
      BY <2>1, <3>1, <3>3
    <3>4. CASE server_status' \notin Dead \cup {"SHUTDOWN", "INVALID_SESSION"}
      BY <2>1, <3>4
    <3> QED
      BY <3>2, <3>3, <3>4
  <2> QED
    BY <1>6, <1>7, <2>1, <2>2
<1> QED
  BY <1>5, <1>7 DEF EnsureCall


\* The journal is replayed, unless it was cut off.
LEMMA SessionRestoredKeeps ==
    ASSUME ClientIInv, bound' = bound, SessionRestored
    PROVE  ClientIInv'
<1> USE DEF Labels, CallLabels, StartLabels, ConnectionLabels, SessionLabels, VersionLabels
<1>0. /\ World /\ SeenTypes /\ server_status \in Status /\ stack \in Seq(Labels) /\ Nested(stack)
      /\ id \in SessionId \cup {0} /\ output \in Output /\ disk \in Version /\ Journal
      /\ trial \in 0 .. MaxTrial /\ version_trial \in 0 .. 1 /\ own \in Proc \cup {NoProc}
      /\ played \in 0 .. MaxPlayBackSize /\ replayed \in BOOLEAN /\ OfSameVersion(id)
      /\ input \in Input \cup {NoInput} /\ ret \in BOOLEAN
      /\ history \in Seq(Input) /\ Len(history) <= MaxPlayBackSize
      /\ shown \in Seq(1 .. bound.keys) /\ committed \subseteq 1 .. bound.keys
  BY DEF ClientIInv, World, Calling, Types, ClientTypeOK, SeenTypes, Journal
<1>1. /\ At("SessionRestored") /\ ~At("Playback") /\ ~At("SecondTrial")
      /\ UNCHANGED <<server_status, calls, input, ghost, loops, id, output, disk>>
  BY DEF SessionRestored, At
<1>2. Inputting(stack)
  BY <1>0, <1>1, TopIsFirst DEF Inputting
<1>3. World' /\ Kept /\ SeenTypes'
  BY <1>0, <1>1, StillKeepsWorld DEF calls, SeenTypes
<1>4. OfSameVersion(id)'
  BY <1>0, <1>1, <1>3 DEF OfSameVersion, Kept
<1>5. output' \in Output /\ input' \in Input \cup {NoInput}
  BY <1>0, <1>1 DEF Output, Input
<1>6. ASSUME stack' \in Seq(Labels), Nested(stack'), ret' \in BOOLEAN, Journal',
             history' \in Seq(Input), Len(history') <= MaxPlayBackSize,
             played' \in 0 .. MaxPlayBackSize, replayed' \in BOOLEAN
      PROVE  ClientIInv'
  <2>1. CallTypes
    BY <1>0, <1>1, <1>3, <1>5, <1>6 DEF CallTypes, loops, ghost
  <2> QED
    BY <1>1, <1>2, <1>5, <1>6, <2>1, CallStep
<1>7. CASE ~ret /\ Return(FALSE) /\ UNCHANGED <<history, played, replayed>>
  <2>1. stack' = Tail(stack) /\ ret' = FALSE
    BY <1>7 DEF Return
  <2>2. /\ stack' \in Seq(Labels) /\ Nested(stack') /\ ~Inputting(stack') /\ ~Restoring(stack')
        /\ \A x : At(x)' => Calls("SessionRestored", x)
    BY <1>0, <1>1, <2>1, ReturnMoves
  <2>3. \A x : At(x)' => x = "Done"
    BY <2>2 DEF Calls
  <2>4. UNCHANGED <<id, history, keys, shown, committed, bound, server_status>>
    BY <1>1, <1>7 DEF ghost
  <2>5. Journal' /\ history' \in Seq(Input) /\ Len(history') <= MaxPlayBackSize
    BY <1>1, <1>3, <1>4, <2>2, <2>3, <2>4, InputIsOver
  <2> QED
    BY <1>0, <1>6, <1>7, <2>1, <2>2, <2>5
<1>8. ASSUME ret, NEW m \in {"Playback", "SecondTrial"}, Goto(m),
             \/ history' = << >> /\ m = "SecondTrial"
             \/ history' = history /\ ~TooLong /\ played' = 0 /\ (m = "SecondTrial" <=> history = << >>)
      PROVE  /\ stack' \in Seq(Labels) /\ Nested(stack') /\ ret' \in BOOLEAN /\ Journal'
             /\ history' \in Seq(Input) /\ Len(history') <= MaxPlayBackSize
  <2>1. /\ stack' \in Seq(Labels) /\ Nested(stack') /\ ret' = ret
        /\ Inputting(stack') <=> Inputting(stack)
        /\ Restoring(stack') <=> Restoring(stack)
        /\ \A x : At(x)' => x = m
    <3>1. /\ \A b \in Labels : Calls("SessionRestored", b) => Calls(m, b)
          /\ m \in Labels /\ m \in CallLabels /\ "SessionRestored" \in CallLabels
      BY DEF Calls
    <3> HIDE DEF Labels, CallLabels
    <3> QED
      BY <1>0, <1>1, <1>8, <3>1, GotoMoves
  <2>2. Over' = Over /\ UNCHANGED <<id, session, keys, shown, committed, server_status>>
    <3>1. UNCHANGED keys
      BY <1>1 DEF ghost
    <3> QED
      BY <1>1, <2>1, <3>1 DEF Over, Inputting, calls, ghost
  <2>3. Len(history') \in Nat /\ history' \in Seq(Input) /\ Len(history') <= MaxPlayBackSize /\ ~TooLong'
    <3>1. MaxPlayBackSize \in Nat \ {0}
      BY SizeAssumption
    <3>2. CASE history' = << >>
      BY <3>1, <3>2 DEF TooLong
    <3>3. CASE history' = history /\ ~TooLong
      <4>1. ~TooLong'
        BY <3>3 DEF TooLong
      <4> QED
        BY <1>0, <3>3, <4>1
    <3> QED
      BY <1>8, <3>2, <3>3
  <2>4. JournalIsOver' /\ ShownIsInOrder' /\ CommittedStaysCommitted'
    <3>1. CASE history' = history
      BY <1>0, <2>1, <2>2, <3>1, TextStays
    <3>2. CASE history' = << >>
      <4>1. ShownIsInOrder' /\ CommittedStaysCommitted'
        BY <1>0, <2>2 DEF Journal, ShownIsInOrder, CommittedStaysCommitted
      <4>2. committed' \subseteq 1 .. Over'
        BY <1>0, <2>2 DEF Journal, JournalIsOver
      <4>3. Len(history') = 0 /\ Alive(history, Len(history))' = {}
        BY <3>2 DEF Alive
      <4> QED
        BY <4>1, <4>2, <4>3 DEF JournalIsOver
    <3> QED
      BY <1>8, <3>1, <3>2
  <2>5. GoodSessionHolds'
    <3>1. At(m)'
      BY <2>1, <1>8, <1>1, <1>0, TopIsFirst DEF At, Goto
    <3> QED
      BY <3>1 DEF GoodSessionHolds
  <2>6. NewSessionIsEmpty'
    <3>1. Restoring(stack)' => server_status' # "OK"
      BY <1>0, <2>1, <2>2 DEF Journal, NewSessionIsEmpty, Restoring
    <3> QED
      BY <2>1, <3>1 DEF NewSessionIsEmpty
  <2>7. id' \in DOMAIN session' => session'[id'] = << >>
    BY <1>0, <1>1, <1>8, <2>2 DEF Journal, NewSessionIsEmpty, Blank
  <2>8. ReplayIsInOrder'
    <3>1. ASSUME At("Playback")'
          PROVE  played' < Len(history') /\ (id' \in DOMAIN session' => Replays(session[id], played)')
      <4>1. history' # << >> /\ played' = 0
        BY <1>8, <2>1, <3>1
      <4>2. played' < Len(history')
        BY <2>3, <4>1
      <4> QED
        BY <2>7, <4>2 DEF Replays, Increasing, Range
    <3>2. id' \in DOMAIN session' => Replays(session[id], Len(history))'
      BY <2>7 DEF Replays, Increasing, Range
    <3> QED
      BY <2>3, <3>1, <3>2 DEF ReplayIsInOrder
  <2> QED
    BY <1>0, <2>1, <2>2, <2>3, <2>4, <1>4, <2>5, <2>6, <2>8 DEF Journal
<1>9. CASE ret /\ TooLong /\ history' = << >> /\ Goto("SecondTrial") /\ UNCHANGED <<played, replayed>>
  BY <1>0, <1>6, <1>8, <1>9
<1>10. CASE /\ ret /\ ~TooLong /\ played' = 0 /\ replayed' = (history = << >>)
            /\ Goto(IF history = << >> THEN "SecondTrial" ELSE "Playback") /\ UNCHANGED history
  <2>1. played' \in 0 .. MaxPlayBackSize /\ replayed' \in BOOLEAN
    BY <1>10, SizeAssumption
  <2>2. CASE history = << >>
    BY <1>6, <1>8, <1>10, <2>1, <2>2
  <2>3. CASE history # << >>
    BY <1>6, <1>8, <1>10, <2>1, <2>3
  <2> QED
    BY <2>2, <2>3
<1> QED
  BY <1>7, <1>9, <1>10 DEF SessionRestored

\* One input of the journal is typed into the new session.
LEMMA PlaybackKeeps ==
    ASSUME ClientIInv, bound' = bound, Playback
    PROVE  ClientIInv'
<1> USE DEF Labels, CallLabels, StartLabels, ConnectionLabels, SessionLabels, VersionLabels
<1> DEFINE in == history[played + 1]
<1>0. /\ World /\ stack \in Seq(Labels) /\ Nested(stack)
      /\ id \in SessionId \cup {0} /\ output \in Output /\ disk \in Version /\ Journal
      /\ trial \in 0 .. MaxTrial /\ version_trial \in 0 .. 1 /\ own \in Proc \cup {NoProc}
      /\ played \in 0 .. MaxPlayBackSize /\ input \in Input \cup {NoInput} /\ ret \in BOOLEAN
      /\ history \in Seq(Input) /\ Len(history) <= MaxPlayBackSize /\ MaxPlayBackSize \in Nat
      /\ shown \in Seq(1 .. bound.keys) /\ committed \subseteq 1 .. bound.keys
  BY SizeAssumption DEF ClientIInv, Calling, Types, ClientTypeOK
<1>1. /\ At("Playback") /\ UNCHANGED <<history, input, ghost, loops, id, output, disk>>
  BY DEF Playback
<1>2. Inputting(stack)
  BY <1>0, <1>1, TopIsFirst DEF Inputting
<1>3. /\ ~TooLong /\ played < Len(history) /\ played \in Nat /\ Len(history) \in Nat
      /\ id \in DOMAIN session => Replays(session[id], played)
  BY <1>0, <1>1 DEF Journal, ReplayIsInOrder
<1>4. in \in Input /\ in.n \in Nat
  <2>1. played + 1 \in 1 .. Len(history)
    BY <1>3
  <2>2. in \in Input
    BY <1>0, <2>1
  <2> QED
    BY <2>2, InputTypes
<1>5. \A i \in 1 .. played : history[i].n < in.n
  <2>1. \A i \in 1 .. played : i \in 1 .. Len(history) /\ played + 1 \in 1 .. Len(history) /\ i < played + 1
    BY <1>3
  <2> QED
    BY <1>0, <2>1 DEF Journal, JournalIsOver
<1>6. PICK r :
        /\ Call(EvalInput(in, id), FALSE, r) /\ server_status' = r.status
        /\ played' = (IF r.ok THEN played + 1 ELSE played)
        /\ replayed' = (r.ok /\ played + 1 = Len(history))
        /\ Goto(IF r.ok /\ played + 1 # Len(history) THEN "Playback" ELSE "SecondTrial")
  BY DEF Playback
<1>7. /\ World' /\ SeenTypes' /\ OfSameVersion(id)'
      /\ r.status \in Status /\ (r.status = "OK" => server_status = "OK") /\ r.ok \in BOOLEAN
      /\ \/ /\ r.ok /\ id \in DOMAIN session /\ session' = EvalInput(in, id).sessions
         \/ r.ok /\ id \notin DOMAIN session'
         \/ ~r.ok /\ (id \in DOMAIN session' => r.status \in Dead \/ file' = NoFile)
  <2> HIDE DEF in
  <2> QED
    BY <1>1, <1>4, <1>6, InputOutcome
<1>8. PICK m \in {"Playback", "SecondTrial"} :
        m = (IF r.ok /\ played + 1 # Len(history) THEN "Playback" ELSE "SecondTrial")
  OBVIOUS
<1>9. Goto(m) /\ (m = "Playback" => r.ok /\ played + 1 # Len(history))
  BY <1>6, <1>8
<1>10. m = "SecondTrial" => ~r.ok \/ played + 1 = Len(history)
  BY <1>8
<1>11. /\ stack' \in Seq(Labels) /\ Nested(stack') /\ ret' = ret
       /\ Inputting(stack') <=> Inputting(stack)
       /\ Restoring(stack') <=> Restoring(stack)
       /\ At(m)' /\ \A x : At(x)' => x = m
  <2>1. /\ \A b \in Labels : Calls("Playback", b) => Calls(m, b)
        /\ m \in Labels /\ m \in CallLabels /\ "Playback" \in CallLabels
    BY <1>8 DEF Calls
  <2> HIDE DEF Labels, CallLabels
  <2> QED
    BY <1>0, <1>1, <1>9, <2>1, GotoMoves
<1>12. UNCHANGED <<id, history, keys, shown, committed>>
  BY <1>1 DEF ghost
<1>13. JournalIsOver' /\ ShownIsInOrder' /\ CommittedStaysCommitted'
  BY <1>0, <1>11, <1>12, TextStays
<1>14. GoodSessionHolds'
  BY <1>8, <1>11 DEF GoodSessionHolds
<1>15. NewSessionIsEmpty'
  <2>1. Restoring(stack)' => server_status' # "OK"
    BY <1>0, <1>6, <1>7, <1>11 DEF Journal, NewSessionIsEmpty, Restoring
  <2> QED
    BY <1>8, <1>11, <2>1 DEF NewSessionIsEmpty
<1>16. ASSUME r.ok, id \in DOMAIN session, session' = EvalInput(in, id).sessions
       PROVE  Replays(session'[id], played + 1)
  <2> DEFINE old == session[id]
  <2>1. old \in Seq(1 .. bound.keys)
    BY <1>0, <1>16 DEF World, SessionsAreServed
  <2>2. Increasing(old) /\ Range(old) \subseteq Alive(history, played)
    BY <1>3, <1>16 DEF Replays
  <2>3. session'[id] = Typed(old, in)
    BY <1>4, <1>16, InputIsEvaluated
  <2> HIDE DEF in, old
  <2>4. /\ Alive(history, played) \subseteq {history[i].n : i \in 1 .. played}
        /\ Commits(in) => Alive(history, played + 1) = {}
        /\ ~Commits(in) => Alive(history, played + 1) = Alive(history, played) \cup {in.n}
    BY <1>3, AliveGrows DEF in
  <2>5. \A n \in Range(old) : n < in.n
    BY <1>5, <2>2, <2>4
  <2>6. /\ Increasing(Typed(old, in)) /\ (Commits(in) => Range(Typed(old, in)) = {})
        /\ Range(Typed(old, in)) \subseteq Range(old) \cup {in.n}
    BY <1>4, <2>1, <2>2, <2>5, TypedKeeps
  <2>7. Range(Typed(old, in)) \subseteq Alive(history, played + 1)
    <3>1. CASE Commits(in)
      BY <2>4, <2>6, <3>1
    <3>2. CASE ~Commits(in)
      BY <2>2, <2>4, <2>6, <3>2
    <3> QED
      BY <3>1, <3>2
  <2> QED
    BY <2>3, <2>6, <2>7 DEF Replays
<1>17. ReplayIsInOrder'
  <2>0. ~TooLong'
    BY <1>3, <1>12 DEF TooLong
  <2>1. PICK k : k = played + 1
    OBVIOUS
  <2>2. ASSUME r.ok, id \in DOMAIN session'
        PROVE  Replays(session[id], k)'
    <3>1. Replays(session'[id], k)
      BY <1>7, <1>16, <2>1, <2>2
    <3>2. PICK h : h = history
      OBVIOUS
    <3>3. Alive(history, k)' = Alive(h, k) /\ Alive(history, k) = Alive(h, k)
      BY <1>12, <3>2
    <3>4. Increasing(session'[id]) /\ Range(session'[id]) \subseteq Alive(history, k)'
      BY <3>1, <3>3 DEF Replays
    <3> QED
      BY <1>12, <3>4 DEF Replays, Increasing
  <2>3. ASSUME At("Playback")'
        PROVE  played' < Len(history') /\ (id' \in DOMAIN session' => Replays(session[id], played)')
    <3>1. r.ok /\ played' = k /\ played + 1 # Len(history)
      BY <1>6, <1>9, <1>11, <2>1, <2>3
    <3>2. played' < Len(history')
      BY <1>3, <1>12, <2>1, <3>1
    <3>3. id' \in DOMAIN session' => Replays(session[id], k)'
      BY <1>12, <2>2, <3>1
    <3> QED
      BY <3>1, <3>2, <3>3 DEF Replays
  <2>4. ASSUME At("SecondTrial")', id' \in DOMAIN session'
        PROVE  Replays(session[id], Len(history))' \/ Unreachable'
    <3>1. CASE r.ok
      <4>1. k = Len(history')
        BY <1>10, <1>11, <1>12, <2>1, <2>4, <3>1
      <4>2. Replays(session[id], k)'
        BY <1>12, <2>2, <2>4, <3>1
      <4> QED
        BY <4>1, <4>2 DEF Replays
    <3>2. CASE ~r.ok
      BY <1>6, <1>7, <1>12, <2>4, <3>2 DEF Unreachable
    <3> QED
      BY <3>1, <3>2
  <2> QED
    BY <2>0, <2>3, <2>4 DEF ReplayIsInOrder
<1>18. CallTypes
  <2>1. played' \in 0 .. MaxPlayBackSize /\ replayed' \in BOOLEAN
    BY <1>0, <1>3, <1>6, <1>7
  <2>2. history' \in Seq(Input) /\ Len(history') <= MaxPlayBackSize /\ output' \in Output
    BY <1>0, <1>1 DEF Input, Output
  <2> QED
    BY <1>0, <1>1, <1>6, <1>7, <1>12, <2>1, <2>2 DEF CallTypes, loops
<1> QED
  <2>1. Journal'
    BY <1>7, <1>12, <1>13, <1>14, <1>15, <1>17 DEF Journal
  <2>2. input' \in Input \cup {NoInput} /\ ret' \in BOOLEAN /\ input' = input
    BY <1>0, <1>1, <1>11
  <2> QED
    BY <1>2, <1>11, <1>18, <2>1, <2>2, CallStep

\* The second trial.
LEMMA SecondTrialKeeps ==
    ASSUME ClientIInv, bound' = bound, SecondTrial
    PROVE  ClientIInv'
<1> USE DEF Labels, CallLabels, StartLabels, ConnectionLabels, SessionLabels, VersionLabels
<1>0. /\ World /\ stack \in Seq(Labels) /\ Nested(stack) /\ Journal
      /\ id \in SessionId \cup {0} /\ disk \in Version
      /\ trial \in 0 .. MaxTrial /\ version_trial \in 0 .. 1 /\ own \in Proc \cup {NoProc}
      /\ played \in 0 .. MaxPlayBackSize /\ replayed \in BOOLEAN
      /\ history \in Seq(Input) /\ Len(history) <= MaxPlayBackSize /\ MaxPlayBackSize \in Nat
      /\ shown \in Seq(1 .. bound.keys) /\ committed \subseteq 1 .. bound.keys
      /\ keys \in Nat
  BY SizeAssumption, BoundsAssumption DEF ClientIInv, Calling, Types, ClientTypeOK
<1>1. At("SecondTrial") /\ UNCHANGED <<played, input, keys, replayed, loops, id, disk>>
  BY DEF SecondTrial
<1>2. Inputting(stack)
  BY <1>0, <1>1, TopIsFirst DEF Inputting
<1>3. input \in Input
  BY <1>2 DEF ClientIInv, Calling, InputIsLast
<1>4. PICK r :
        /\ Call(EvalInput(input, id), FALSE, r) /\ output' = r.out /\ Return(r.ok)
        /\ IF r.ok
           THEN server_status' = r.status /\ history' = PushHistory(r.out) /\ Delivered(r.out)
           ELSE /\ server_status' = CheckedStatus(r.status)
                /\ history' = << >> /\ UNCHANGED <<shown, committed>>
  BY DEF SecondTrial
<1>5. /\ World' /\ SeenTypes' /\ OfSameVersion(id)' /\ r.out \in Output
      /\ r.status \in Status /\ r.ok \in BOOLEAN
      /\ \/ /\ r.ok /\ server_status \notin Dead /\ file # NoFile
            /\ id \in DOMAIN session /\ r.out = EvalInput(input, id).reply
            /\ session' = EvalInput(input, id).sessions
         \/ r.ok /\ r.out.id = 0 /\ r.out.consumed = FALSE /\ id \notin DOMAIN session'
         \/ ~r.ok /\ CheckedStatus(r.status) \in Status \ {"OK"}
  BY <1>1, <1>3, <1>4, InputOutcome
<1>6. /\ stack' \in Seq(Labels) /\ Nested(stack') /\ ~Inputting(stack') /\ ~Restoring(stack')
      /\ \A x : At(x)' => x = "Done"
  <2>1. stack' = Tail(stack)
    BY <1>4 DEF Return
  <2>2. /\ stack' \in Seq(Labels) /\ Nested(stack') /\ ~Inputting(stack') /\ ~Restoring(stack')
        /\ \A x : At(x)' => Calls("SecondTrial", x)
    BY <1>0, <1>1, <2>1, ReturnMoves
  <2> QED
    BY <2>2 DEF Calls
<1>7. ret' \in BOOLEAN /\ output' \in Output /\ input' \in Input \cup {NoInput} /\ server_status' \in Status
  <2>1. ret' \in BOOLEAN
    BY <1>4, <1>5 DEF Return
  <2>2. output' \in Output /\ input' \in Input \cup {NoInput}
    BY <1>1, <1>3, <1>4, <1>5 DEF Output, Input
  <2>3. server_status' \in Status
    BY <1>4, <1>5
  <2> QED
    BY <2>1, <2>2, <2>3
<1>8. SUFFICES /\ Journal' /\ history' \in Seq(Input) /\ Len(history') <= MaxPlayBackSize
               /\ shown' \in Seq(1 .. bound.keys) /\ committed' \subseteq 1 .. bound.keys
  <2>1. CallTypes
    BY <1>0, <1>1, <1>5, <1>7, <1>8 DEF CallTypes, loops
  <2> QED
    BY <1>6, <1>7, <1>8, <2>1, CallStep
<1>9. NewSessionIsEmpty' /\ ReplayIsInOrder'
  <2>1. ~Restoring(stack)'
    BY <1>6 DEF Restoring
  <2> QED
    BY <1>6, <2>1 DEF NewSessionIsEmpty, ReplayIsInOrder
<1>10. CASE /\ r.ok /\ server_status \notin Dead /\ file # NoFile
            /\ id \in DOMAIN session /\ r.out = EvalInput(input, id).reply
            /\ session' = EvalInput(input, id).sessions
  <2>1. /\ ~TooLong /\ Replays(session[id], Len(history))
    BY <1>0, <1>1, <1>10 DEF Journal, ReplayIsInOrder, Unreachable
  <2>2. Alive(history, Len(history)) \subseteq (1 .. Over) \ committed
    <3>1. Alive(history, Len(history)) \subseteq {history[i].n : i \in 1 .. Len(history)}
      <4>1. Len(history) \in Nat
        BY <1>0
      <4> QED
        BY <4>1, AliveGrows
    <3>2. ASSUME NEW i \in 1 .. Len(history) PROVE history[i].n \in 1 .. Over
      <4>1. history[i] \in Input
        BY <1>0
      <4>2. history[i].n \in 1 .. bound.keys
        BY <4>1, InputTypes
      <4>3. history[i].n <= Over
        BY <1>0 DEF Journal, JournalIsOver
      <4>4. Over = keys - 1
        BY <1>2 DEF Over
      <4> QED
        BY <1>0, <4>2, <4>3, <4>4
    <3>3. Alive(history, Len(history)) \cap committed = {}
      BY <1>0, <2>1 DEF Journal, JournalIsOver
    <3> QED
      BY <3>1, <3>2, <3>3
  <2>3. Holds(session[id])
    BY <2>1, <2>2 DEF Holds, Replays
  <2>4. history' = PushHistory(r.out) /\ Delivered(r.out)
    BY <1>4, <1>10
  <2>5. /\ JournalIsOver' /\ ShownIsInOrder' /\ CommittedStaysCommitted'
        /\ Holds(session[id])'
        /\ history' \in Seq(Input) /\ Len(history') <= MaxPlayBackSize
        /\ shown' \in Seq(1 .. bound.keys) /\ committed' \subseteq 1 .. bound.keys
    BY <1>1, <1>2, <1>6, <1>10, <2>3, <2>4, AnswerHolds
  <2>6. GoodSessionHolds'
    BY <2>5 DEF GoodSessionHolds
  <2> QED
    BY <1>5, <1>9, <2>5, <2>6 DEF Journal
<1>11. CASE r.ok /\ r.out.id = 0 /\ r.out.consumed = FALSE /\ id \notin DOMAIN session'
  <2>1. UNCHANGED <<history, shown, committed>>
    BY <1>4, <1>11 DEF PushHistory, Delivered
  <2>2. /\ Inputting(stack') => Inputting(stack)
        /\ Restoring(stack') => server_status' # "OK"
        /\ \A x : At(x)' => x \in {"Done", "EnsureSession"}
    BY <1>6
  <2> QED
    BY <1>1, <1>5, <1>11, <2>1, <2>2, InputIsOver
<1>12. CASE ~r.ok /\ CheckedStatus(r.status) \in Status \ {"OK"}
  <2>1. server_status' # "OK" /\ history' = << >> /\ UNCHANGED <<shown, committed, keys>>
    BY <1>1, <1>4, <1>12
  <2>2. ShownIsInOrder' /\ CommittedStaysCommitted' /\ GoodSessionHolds'
    BY <1>0, <2>1 DEF Journal, ShownIsInOrder, CommittedStaysCommitted, GoodSessionHolds
  <2>3. committed' \subseteq 1 .. Over'
    <3>1. Over = keys - 1
      BY <1>2 DEF Over
    <3>2. Over' = keys
      BY <1>6, <2>1 DEF Over, Inputting
    <3>3. 1 .. Over \subseteq 1 .. Over'
      BY <1>0, <3>1, <3>2
    <3> QED
      BY <1>0, <2>1, <3>3 DEF Journal, JournalIsOver
  <2>4. Len(history') = 0 /\ Alive(history, Len(history))' = {}
    BY <2>1 DEF Alive
  <2>5. JournalIsOver'
    BY <2>3, <2>4 DEF JournalIsOver
  <2>6. history' \in Seq(Input) /\ Len(history') <= MaxPlayBackSize
    BY <1>0, <2>1
  <2> QED
    BY <1>0, <1>5, <1>9, <2>1, <2>2, <2>5, <2>6 DEF Journal
<1> QED
  BY <1>5, <1>10, <1>11, <1>12

-----------------------------------------------------------------------------
\* The invariant.

LEMMA InitWorld == IpcInit /\ session = << >> => World
<1> SUFFICES ASSUME IpcInit, session = << >> PROVE World
  OBVIOUS
<1>1. /\ path = NoPath /\ last_modified = 2 /\ NoProc \notin Proc
      /\ NoPath.key \notin Proc /\ NoFile.key \notin Proc /\ Gone.st = "none"
      /\ Gone \in [st : State, version : Version] /\ Proc # {}
  BY NamesDiffer, ProcAssumption DEF IpcInit, Gone, State
<1>2. SessionsAreServed
  BY NoSessions DEF SessionsAreServed, Sessions
<1>3. CASE /\ proc = [q \in Proc |-> Gone]
           /\ server_mutex = NoProc /\ file_lock = NoProc /\ file = NoFile
  <2>1. IpcTypeOK
    BY <1>1, <1>3, IpcTypes DEF Files, Paths
  <2>2. OneServer /\ FileOfServer
    BY <1>1, <1>3 DEF OneServer, FileOfServer, Serving
  <2>3. KeysAreTrue
    BY <1>1, <1>3 DEF KeysAreTrue, Published
  <2> QED
    BY <1>2, <2>1, <2>2, <2>3 DEF World
<1>4. ASSUME NEW v \in Version, NEW p \in Proc,
             proc = [q \in Proc |-> IF q = p THEN [st |-> "ready", version |-> v] ELSE Gone],
             server_mutex = p, file_lock = p, file = [key |-> p, version |-> v, stamp |-> 0]
      PROVE  World
  <2>1. /\ proc \in [Proc -> [st : State, version : Version]]
        /\ proc[p] = [st |-> "ready", version |-> v] /\ \A q \in Proc : q # p => proc[q].st = "none"
    BY <1>1, <1>4 DEF State
  <2>2. file \in Files
    BY <1>4 DEF Files, Stamp
  <2>3. IpcTypeOK
    BY <1>1, <1>4, <2>1, <2>2, IpcTypes DEF Paths
  <2>4. OneServer /\ FileOfServer
    BY <1>4, <2>1 DEF OneServer, FileOfServer, Serving
  <2>5. KeysAreTrue
    BY <1>1, <1>4, <2>1 DEF KeysAreTrue, Published
  <2> QED
    BY <1>2, <2>3, <2>4, <2>5 DEF World
<1>5. (CHOOSE q \in Proc : TRUE) \in Proc
  BY <1>1
<1> QED
  BY <1>3, <1>4, <1>5 DEF IpcInit

LEMMA InitKeeps == ClientInit => ClientIInv
<1> SUFFICES ASSUME ClientInit PROVE ClientIInv
  OBVIOUS
<1>1. World
  BY InitWorld DEF ClientInit
<1>2. /\ session = << >> /\ history = << >> /\ stack = << >> /\ shown = << >> /\ committed = {}
      /\ keys = 0 /\ bound \in Bounds /\ server_status = "UNKNOWN" /\ id = 0 /\ ret = TRUE
  BY DEF ClientInit
<1>3. bound.keys \in Nat /\ disk \in Version
  BY <1>2, BoundsAssumption DEF ClientInit
<1>4. ~Inputting(stack) /\ ~Restoring(stack) /\ Nested(stack) /\ \A l : ~At(l)
  BY <1>2 DEF Inputting, Restoring, Nested, At
<1>5. MaxPlayBackSize \in Nat \ {0} /\ MaxTrial \in Nat \ {0} /\ 0 \in SessionId \cup {0}
  BY SizeAssumption
<1>6. ClientTypeOK
  <2>1. output \in Output
    BY <1>5, RepliesAreOutputs DEF ClientInit
  <2>2. history \in Seq(Input) /\ Len(history) <= MaxPlayBackSize /\ stack \in Seq(Labels)
    BY <1>2, <1>5
  <2>3. /\ trial \in 0 .. MaxTrial /\ version_trial \in 0 .. 1 /\ played \in 0 .. MaxPlayBackSize
        /\ id \in SessionId \cup {0} /\ own \in Proc \cup {NoProc} /\ seen_pid \in Proc \cup {NoProc}
        /\ seen \in Version \cup {"unset"} /\ input \in Input \cup {NoInput}
    BY <1>5 DEF ClientInit
  <2>4. server_status \in Status /\ DOMAIN session \subseteq SessionId
    BY <1>2, NoSessions DEF Status
  <2>5. replayed \in BOOLEAN /\ ret \in BOOLEAN
    BY DEF ClientInit
  <2>6. IpcTypeOK
    BY <1>1 DEF World
  <2> QED
    BY <1>2, <1>3, <2>1, <2>2, <2>3, <2>4, <2>5, <2>6 DEF ClientTypeOK
<1>7. Calling
  <2>1. keys \in 0 .. bound.keys /\ shown \in Seq(1 .. bound.keys) /\ committed \subseteq 1 .. bound.keys
    BY <1>2, <1>3
  <2> QED
    BY <1>4, <1>6, <2>1 DEF Calling, Types, InputIsLast
<1>8. Journal
  <2>1. JournalIsOver
    <3>1. Len(history) = 0 /\ Alive(history, Len(history)) = {}
      BY <1>2 DEF Alive
    <3> QED
      BY <1>2, <3>1 DEF JournalIsOver
  <2>2. ShownIsInOrder /\ CommittedStaysCommitted
    BY <1>2 DEF ShownIsInOrder, CommittedStaysCommitted
  <2>3. OfSameVersion(id) /\ GoodSessionHolds
    BY <1>2, NoSessions DEF OfSameVersion, GoodSessionHolds
  <2>4. NewSessionIsEmpty /\ ReplayIsInOrder
    BY <1>4 DEF NewSessionIsEmpty, ReplayIsInOrder
  <2> QED
    BY <2>1, <2>2, <2>3, <2>4 DEF Journal
<1> QED
  BY <1>1, <1>7, <1>8 DEF ClientIInv

\* A crash, a shutdown, a start or a lost session that the client does not see.
LEMMA OthersKeep ==
    ASSUME ClientIInv, bound' = bound, Others
    PROVE  ClientIInv'
<1>0. World /\ path \in Paths /\ last_modified \in Stamp \cup {2}
  BY IpcTypes DEF ClientIInv, World
<1>1. ASSUME NEW p \in Proc, Crash(p) PROVE World' /\ Kept /\ Unheard
  <2>1. session' = << >> \/ (session' = session /\ ~Serving(p))
    BY <1>1 DEF Crash, Serving
  <2>2. Published(path) /\ (path # NoPath => last_modified \in Stamp)
    BY <1>0 DEF World, KeysAreTrue
  <2>3. Died(p, path) /\ last_modified' = last_modified /\ Unheard
    BY <1>1 DEF Crash, Unheard
  <2> QED
    BY <1>0, <2>1, <2>2, <2>3, DeathKeepsWorld
<1>2. ASSUME NEW p \in Proc, OthersShutdown(p) PROVE World' /\ Kept /\ Unheard
  <2>1. /\ proc[p].st = "ready" /\ LoopEnds(p) /\ session' = << >>
        /\ UNCHANGED <<path, last_modified>> /\ Unheard
    BY <1>2 DEF OthersShutdown, Unheard, ipcClient
  <2> QED
    BY <1>0, <2>1, RetiringKeepsWorld DEF LoopEnds
<1>3. ASSUME NEW p \in Proc, OthersSpawn(p) PROVE World' /\ Kept /\ Unheard
  <2>1. p \in FreePlace /\ proc' = Spawned(p, disk) /\ Unheard
    BY <1>3 DEF OthersSpawn, Unheard
  <2>2. proc[p].st = "none"
    BY <2>1 DEF FreePlace
  <2>3. disk \in Version
    BY DEF ClientIInv, Calling, Types, ClientTypeOK
  <2>4. UNCHANGED <<server_mutex, file, file_lock, session, ipcClient>>
    BY <1>3 DEF OthersSpawn
  <2> QED
    BY <1>0, <2>1, <2>2, <2>3, <2>4, StartingKeepsWorld
<1>4. ASSUME NEW s \in DOMAIN session, LoseSession(s) PROVE World' /\ Kept /\ Unheard
  <2>1. /\ session' = [t \in DOMAIN session \ {s} |-> session[t]]
        /\ UNCHANGED <<ipcServer, ipcClient>> /\ Unheard
    BY <1>4 DEF LoseSession, Unheard
  <2>2. \A t \in DOMAIN session' : t \in DOMAIN session /\ session'[t] = session[t]
    BY <2>1
  <2>3. Kept
    BY <2>1, <2>2 DEF Kept, Serving, ipcServer
  <2>4. Sessions(session') /\ (DOMAIN session # {} => \E p \in Proc : Serving(p))
    BY <1>0, <2>1 DEF Sessions, World, SessionsAreServed
  <2>5. UNCHANGED <<proc, file, path, last_modified>>
    BY <2>1 DEF ipcServer, ipcClient
  <2>6. Published(path) /\ (path # NoPath => last_modified \in Stamp)
    BY <1>0 DEF World, KeysAreTrue
  <2>7. Published(path')
    BY <2>5, <2>6 DEF Published
  <2> QED
    BY <1>0, <1>4, <2>1, <2>3, <2>4, <2>5, <2>6, <2>7, RememberingKeepsWorld
<1>5. World' /\ Kept /\ Unheard
  BY <1>1, <1>2, <1>3, <1>4 DEF Others
<1> QED
  BY <1>5, OthersKeepJournal

LEMMA ServersKeep ==
    ASSUME ClientIInv, bound' = bound, NEW p \in Proc, ServerProceeds(p)
    PROVE  ClientIInv'
<1>1. ServerStep(p, IF bound.quick THEN {0} ELSE Stamp) /\ UNCHANGED session /\ Unheard
  BY DEF ServerProceeds, Unheard, unheard, clientVars, local
<1>2. (IF bound.quick THEN {0} ELSE Stamp) \in SUBSET Stamp
  BY DEF Stamp
<1>3. World' /\ Kept
  BY <1>1, <1>2, ServersKeepWorld DEF ClientIInv
<1> QED
  BY <1>1, <1>3, OthersKeepJournal

LEMMA ClientStepKeeps ==
    ASSUME ClientIInv, bound' = bound, ClientStep
    PROVE  ClientIInv'
<1>1. CASE \/ EnsureConnection \/ ConnectionStarted
           \/ StartServer \/ Spawn \/ StartWait \/ WaitEvent \/ LastPing \/ StartTry
  BY <1>1, ConnectionKeeps, PingsKeep, SpawnKeeps
<1>2. CASE EnsureSession \/ SessionConnected \/ SessionCreated \/ ReturnFalse \/ SetRequest
  BY <1>2, StillKeeps, SessionCalledKeeps, SetRequestKeeps
<1>3. CASE CheckVersion \/ ShutdownServer \/ WaitServer \/ ForceTerminate \/ Reconnected \/ VersionChecked
  BY <1>3, CheckVersionKeeps, RestartKeeps, StillKeeps
<1>4. CASE EnsureCall \/ SessionRestored \/ Playback \/ SecondTrial \/ Done
  BY <1>4, EnsureCallKeeps, SessionRestoredKeeps, PlaybackKeeps, SecondTrialKeeps, DoneKeeps
<1> QED
  BY <1>1, <1>2, <1>3, <1>4 DEF ClientStep

LEMMA OperationKeeps ==
    ASSUME ClientIInv, bound' = bound, Operation
    PROVE  ClientIInv'
<1>1. ASSUME NEW n \in 1 .. bound.keys, NEW kind \in bound.kinds, SendInput([n |-> n, kind |-> kind])
      PROVE  ClientIInv'
  <2>1. bound.kinds \subseteq Kind
    BY BoundsAssumption DEF ClientIInv, Calling, Types, ClientTypeOK
  <2>2. [n |-> n, kind |-> kind] \in Input
    BY <2>1 DEF Input
  <2> QED
    BY <1>1, <2>2, SendInputKeeps
<1> QED
  BY <1>1, OthersOperationsKeep, ReplaceKeeps DEF Operation

\* A step that is not the model's: nothing moves.
LEMMA NothingKeeps ==
    ASSUME ClientIInv, UNCHANGED cvars
    PROVE  ClientIInv'
<1>1. UNCHANGED <<ipcServer, ipcClient, session>> /\ Unheard /\ bound' = bound
  BY DEF cvars, clientVars, local, Unheard, unheard
<1>2. World' /\ Kept
  BY <1>1, StillKeepsWorld DEF ClientIInv
<1> QED
  BY <1>1, <1>2, OthersKeepJournal

\* The servers, the calls on the stack and the journal fit together whatever crashes,
\* starts, shuts down, times out or is sent again.
THEOREM ClientInvariant == ClientSpec => []ClientIInv
<1>1. ClientIInv /\ [ClientNext]_cvars => ClientIInv'
  <2> SUFFICES ASSUME ClientIInv, [ClientNext]_cvars PROVE ClientIInv'
    OBVIOUS
  <2>1. CASE ClientNext
    BY <2>1, ClientStepKeeps, OperationKeeps, OthersKeep, ServersKeep DEF ClientNext
  <2>2. CASE UNCHANGED cvars
    BY <2>2, NothingKeeps
  <2> QED
    BY <2>1, <2>2
<1> QED
  BY InitKeeps, <1>1, PTL DEF ClientSpec

\* Type correctness of the client library.
THEOREM ClientTypeCorrect == ClientSpec => []ClientTypeOK
<1>1. ClientIInv => ClientTypeOK
  BY DEF ClientIInv, Calling, Types
<1> QED
  BY <1>1, ClientInvariant, PTL

\* IPCClient::Init connects, in its two trials, to the server whose key is in the key
\* file, whatever path the client has cached and whenever the file was written again.
THEOREM SavedServersAreFound == ClientSpec => []SavedServerIsFound
<1>1. ClientIInv => SavedServerIsFound
  BY WorldFindsServer DEF ClientIInv
<1> QED
  BY <1>1, ClientInvariant, PTL

\* CheckVersionOrRestartServerInternal leaves the client no session of a server of
\* another version: with a session that is there, whoever serves has the same version.
THEOREM SessionsAreOfCurrentVersion == ClientSpec => []SessionOnCurrentVersion
<1>1. ClientIInv => SessionOnCurrentVersion
  BY DEF ClientIInv, Journal, OfSameVersion, Serving, SessionOnCurrentVersion
<1> QED
  BY <1>1, ClientInvariant, PTL

\* EnsureCallCommand and PlaybackHistory: the composition that replies show holds every
\* input at most once and in the order of typing, over every restart and replay.
THEOREM ShownStaysInOrder == ClientSpec => []ShownIsInOrder
<1>1. ClientIInv => ShownIsInOrder
  BY DEF ClientIInv, Journal
<1> QED
  BY <1>1, ClientInvariant, PTL

\* PushHistory and PlaybackHistory: no replay brings back what a reply has committed.
THEOREM CommittedTextStays == ClientSpec => []CommittedStaysCommitted
<1>1. ClientIInv => CommittedStaysCommitted
  BY DEF ClientIInv, Journal
<1> QED
  BY <1>1, ClientInvariant, PTL

\* MozcServer::Run: whoever is past ProcessMutex::Lock holds the mutex, so at most one
\* process serves, and a client's session is there only as long as one does.
THEOREM OneServerServes == ClientSpec => [](OneServer /\ SessionsAreServed)
<1>1. ClientIInv => OneServer /\ SessionsAreServed
  BY DEF ClientIInv, World
<1> QED
  BY <1>1, ClientInvariant, PTL
=============================================================================
