--------------------------------- MODULE Ipc ---------------------------------
\* How a client finds the server: the server processes with the "server" mutex
\* and the locked key file (server/mozc_server.cc, ipc/unix_ipc.cc,
\* base/process_mutex.cc), and the client's copy of what the key file said
\* (ipc/ipc_path_manager.cc). On Linux the socket lives in the abstract name
\* space under a name made from the key, so a key finds its server or nobody.
EXTENDS Naturals, FiniteSets

CONSTANTS
    Proc,       \* places for server processes; one that has ended may be reused
    Version     \* what a server process reports of itself, see Client

\* The random key of CreateNewPathName is as good as the process that made it.
\* All that is left of the key of a process that has ended is that it leads
\* nowhere: Stale.
NoProc == "no process"
Stale == "stale"
NoVersion == CHOOSE v \in Version : TRUE
NoFile == [key |-> "no file", version |-> NoVersion, stamp |-> 2]
NoPath == [key |-> "no path", version |-> NoVersion]
Empty == "truncated"

ASSUME ProcAssumption ==
    /\ IsFiniteSet(Proc) /\ Proc # {} /\ Version # {}
    /\ Proc \cap {NoProc, Stale, NoFile.key, NoPath.key, Empty} = {}

VARIABLES
    proc,           \* the server processes
    server_mutex,   \* who holds the "server" ProcessMutex
    file,           \* the key file: key, version and modification time
    file_lock,      \* who holds the lock of the file of that name
    path,           \* the client's ipc_path_info_
    last_modified   \* the client's last_modified_: the stamp of the last load

ipcServer == <<proc, server_mutex, file, file_lock>>
ipcClient == <<path, last_modified>>

\* none:     there is no such process
\* spawned:  it runs, before ProcessMutex::Lock
\* locked:   it has the "server" mutex; IPCServer binds and listens
\* ready:    the key file is written and requests are answered
\* saving:   the loop has ended, ~SessionServer runs, the mutex is still held
\* unlocked: Run has returned and released the mutex, the file is still locked
\* closed:   UnLock has closed the key file, not yet removed it
State == {"none", "spawned", "locked", "ready", "saving", "unlocked", "closed"}
Stamp == {0, 1}
Gone == [st |-> "none", version |-> NoVersion]

IpcTypeOK ==
    /\ proc \in [Proc -> [st : State, version : Version]]
    /\ server_mutex \in Proc \cup {NoProc}
    /\ file \in {NoFile} \cup [key : Proc \cup {Stale, Empty}, version : Version,
                               stamp : Stamp]
    /\ file_lock \in Proc \cup {NoProc}
    /\ path \in {NoPath} \cup [key : Proc \cup {Stale}, version : Version]
    /\ last_modified \in Stamp \cup {2}

\* A ready server, or none: what a client may find when it starts.
IpcInit ==
    /\ \/ \E v \in Version : LET p == CHOOSE q \in Proc : TRUE IN
            /\ proc = [q \in Proc |-> IF q = p THEN [st |-> "ready", version |-> v] ELSE Gone]
            /\ server_mutex = p /\ file_lock = p
            /\ file = [key |-> p, version |-> v, stamp |-> 0]
       \/ /\ proc = [q \in Proc |-> Gone]
          /\ server_mutex = NoProc /\ file_lock = NoProc /\ file = NoFile
    /\ path = NoPath
    /\ last_modified = 2

-----------------------------------------------------------------------------
KeyOf(p) == [key |-> p, version |-> proc[p].version]

Spawned(p, v) == [proc EXCEPT ![p] = [st |-> "spawned", version |-> v]]

\* MozcServer::Run: the mutex or the end.
LockServer(p) ==
    /\ proc[p].st = "spawned"
    /\ IF server_mutex = NoProc
       THEN /\ server_mutex' = p
            /\ proc' = [proc EXCEPT ![p].st = "locked"]
       ELSE /\ proc' = [proc EXCEPT ![p] = Gone]
            /\ UNCHANGED server_mutex
    /\ UNCHANGED <<file, file_lock, ipcClient>>

\* IPCServer's constructor and SavePathName. The file is truncated before its
\* lock is tried; stamps have the resolution of a second, so the new one may
\* equal the old one; stamps are the possible ones.
SavePathName(p, stamps) ==
    /\ proc[p].st = "locked"
    /\ \E s \in stamps :
         IF file_lock = NoProc
         THEN /\ file' = [key |-> p, version |-> proc[p].version, stamp |-> s]
              /\ file_lock' = p
              /\ proc' = [proc EXCEPT ![p].st = "ready"]
              /\ UNCHANGED server_mutex
         ELSE /\ file' = [key |-> Empty, version |-> NoVersion, stamp |-> s]
              /\ proc' = [proc EXCEPT ![p] = Gone]
              /\ server_mutex' = NoProc
              /\ UNCHANGED file_lock
    /\ UNCHANGED ipcClient

\* What is left of the mutex and the lock when p ends: the kernel drops both.
MutexWithout(p) == IF server_mutex = p THEN NoProc ELSE server_mutex
LockWithout(p) == IF file_lock = p THEN NoProc ELSE file_lock

\* A key that is kept somewhere when p ends.
Outlived(kept, p) ==
    IF kept.key = p THEN [kept EXCEPT !.key = Stale, !.version = NoVersion] ELSE kept

\* p ends at once, when the client remembers the given path.
Died(p, remembered) ==
    /\ proc' = [proc EXCEPT ![p] = Gone]
    /\ server_mutex' = MutexWithout(p)
    /\ file_lock' = LockWithout(p)
    /\ file' = Outlived(file, p)
    /\ path' = Outlived(remembered, p)

\* SHUTDOWN was evaluated: the loop ends without an answer.
LoopEnds(p) ==
    /\ proc' = [proc EXCEPT ![p].st = "saving"]
    /\ UNCHANGED <<server_mutex, file, file_lock>>

\* MozcServer::Run returns: ~ProcessMutex of "server".
LeaveRun(p) ==
    /\ proc[p].st = "saving"
    /\ proc' = [proc EXCEPT ![p].st = "unlocked"]
    /\ server_mutex' = MutexWithout(p)
    /\ UNCHANGED <<file, file_lock, ipcClient>>

\* ~ProcessMutex of the key file, in FinalizeSingletons: close ...
CloseFile(p) ==
    /\ proc[p].st = "unlocked"
    /\ proc' = [proc EXCEPT ![p].st = "closed"]
    /\ file_lock' = LockWithout(p)
    /\ UNCHANGED <<server_mutex, file, ipcClient>>

\* ... and then unlink, whoever has locked the file by now.
UnlinkFile(p) ==
    /\ proc[p].st = "closed"
    /\ proc' = [proc EXCEPT ![p] = Gone]
    /\ file' = NoFile
    /\ file_lock' = NoProc
    /\ path' = Outlived(path, p)
    /\ UNCHANGED <<server_mutex, last_modified>>

ServerStep(p, stamps) ==
    LockServer(p) \/ SavePathName(p, stamps) \/ LeaveRun(p) \/ CloseFile(p) \/ UnlinkFile(p)

-----------------------------------------------------------------------------
\* The client's side: a record of path, stamp and the process connected to.
Cache == [path |-> path, stamp |-> last_modified, to |-> NoProc]

\* LoadPathName: only when the stamp has changed or no key is known.
Loaded(c) ==
    IF (c.path # NoPath /\ file.stamp = c.stamp) \/ file = NoFile THEN c
    ELSE IF file.key = Empty THEN [c EXCEPT !.path = NoPath]
    ELSE [c EXCEPT !.path = [key |-> file.key, version |-> file.version],
                   !.stamp = file.stamp]

LoadFails(c) ==
    /\ ~(c.path # NoPath /\ file.stamp = c.stamp)
    /\ \/ file = NoFile
       \/ file.key = Empty

\* Fault: a key that leads nowhere is kept.
TryConnectKeeping(c) ==
    LET l == Loaded(c)
        found == {p \in Proc : proc[p].st = "ready" /\ p = l.path.key}
    IN  IF LoadFails(c) THEN l
        ELSE IF found = {} THEN l ELSE [l EXCEPT !.to = CHOOSE p \in found : TRUE]

\* One trial of IPCClient::Init.
TryConnect(c) ==
    LET l == Loaded(c)
        found == {p \in Proc : proc[p].st = "ready" /\ p = l.path.key}
    IN  IF LoadFails(c) THEN l
        ELSE IF found = {} THEN [l EXCEPT !.path = NoPath]
        ELSE [l EXCEPT !.to = CHOOSE p \in found : TRUE]

\* IPCClient::Init: two trials.
Connect ==
    LET first == TryConnect(Cache)
    IN  IF first.to # NoProc THEN first ELSE TryConnect(first)

\* A server whose key is in the key file is found in two trials, whatever the
\* client remembers and even when the file was written twice in a second.
SavedServerIsFound ==
    \A p \in Proc :
        (proc[p].st = "ready" /\ file.key = p) => Connect.to = p
=============================================================================
