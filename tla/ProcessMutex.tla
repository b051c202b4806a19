---------------------------- MODULE ProcessMutex ----------------------------
\* The named mutex between processes (base/process_mutex.cc, not Windows): a
\* file that is opened, created if need be, and locked with fcntl; to unlock it
\* is closed and then removed by its name. One manager per process keeps one
\* descriptor per file name, because fcntl's locks belong to the process and are
\* gone when any of its descriptors of the file is closed.
EXTENDS Naturals, FiniteSets

CONSTANTS
    Process,    \* the processes
    Holder,     \* the ProcessMutex objects of one name
    Home,       \* the process each of them lives in
    Inode       \* the files that have had the name
ASSUME MutexAssumption ==
    /\ Home \in [Holder -> Process]
    /\ "none" \notin Process \cup Inode
    /\ IsFiniteSet(Process) /\ IsFiniteSet(Inode)
    /\ Cardinality(Inode) > Cardinality(Process)

VARIABLES
    name,       \* the file that has the name now
    fd,         \* the file a process has a descriptor of, in fdmap_ or in Lock
    lock,       \* the process that holds the lock of a file
    at,         \* where an object is: locked_ is TRUE in "held" and "unlock"
    stolen      \* a file was removed that another process had a descriptor of

mutexVars == <<name, fd, lock, at, stolen>>

None == "none"
\* free:   not locked
\* opened: in Lock, before fcntl
\* locked: in LockAndWriteInternal, before the message is written
\* held:   Lock has returned TRUE
\* closed: in UnLock, before the file is removed
Place == {"free", "opened", "locked", "held", "closed"}

MutexTypeOK ==
    /\ name \in Inode \cup {None}
    /\ fd \in [Process -> Inode \cup {None}]
    /\ lock \in [Inode -> Process \cup {None}]
    /\ at \in [Holder -> Place]
    /\ stolen \in BOOLEAN

MutexInit ==
    /\ name = None
    /\ fd = [p \in Process |-> None]
    /\ lock = [i \in Inode |-> None]
    /\ at = [h \in Holder |-> "free"]
    /\ stolen = FALSE

\* The manager's mutex is held over the whole of Lock and of UnLock.
ManagerFree(p) == \A h \in Holder : Home[h] = p => at[h] \notin {"opened", "closed"}

\* A file that nobody has a descriptor of any more is free for reuse.
Unused == {i \in Inode : i # name /\ \A p \in Process : fd[p] # i}

\* Fault: the file is opened although the process has a descriptor of it.
NotInMapAlways(p) == fd[p] = fd[p]

\* Not in fdmap_.
NotInMap(p) == fd[p] = None

\* The locks when p closes a descriptor of its file.
Dropped(p) == [i \in Inode |-> IF i = fd[p] /\ lock[i] = p THEN None ELSE lock[i]]

\* FileLockManager::Lock: an object whose process has locked the name is refused,
\* any other opens the file, locked or not.
Open(h) ==
    LET p == Home[h] IN
    /\ at[h] = "free" /\ ManagerFree(p) /\ NotInMap(p)
    /\ \E i \in Inode :
         /\ IF name = None THEN i \in Unused ELSE i = name
         /\ name' = i
         /\ fd' = [fd EXCEPT ![p] = i]
    /\ at' = [at EXCEPT ![h] = "opened"]
    /\ UNCHANGED <<lock, stolen>>

\* fcntl with F_SETLK; if it fails the descriptor is closed, which drops any lock
\* the process has on the file.
SetLock(h) ==
    LET p == Home[h]
        i == fd[p]
    IN  /\ at[h] = "opened"
        /\ IF lock[i] \in {None, p}
           THEN /\ lock' = [lock EXCEPT ![i] = p]
                /\ at' = [at EXCEPT ![h] = "locked"]
                /\ UNCHANGED fd
           ELSE /\ fd' = [fd EXCEPT ![p] = None]
                /\ at' = [at EXCEPT ![h] = "free"]
                /\ UNCHANGED lock
        /\ UNCHANGED <<name, stolen>>

\* The message is written, or cannot be written and the lock is given up.
Write(h) ==
    /\ at[h] = "locked"
    /\ at' = [at EXCEPT ![h] = "held"]
    /\ UNCHANGED <<name, fd, lock, stolen>>

Closed(h) ==
    LET p == Home[h] IN
    /\ ManagerFree(p)
    /\ lock' = Dropped(p)
    /\ fd' = [fd EXCEPT ![p] = None]
    /\ at' = [at EXCEPT ![h] = "closed"]
    /\ UNCHANGED <<name, stolen>>

WriteFails(h) == at[h] = "locked" /\ Closed(h)

\* FileLockManager::UnLock: close ...
Close(h) == at[h] = "held" /\ Closed(h)

\* ... and remove whatever has the name now.
Unlink(h) ==
    /\ at[h] = "closed"
    /\ stolen' = (stolen \/ (name # None /\ \E p \in Process : fd[p] = name))
    /\ name' = None
    /\ at' = [at EXCEPT ![h] = "free"]
    /\ UNCHANGED <<fd, lock>>

\* A process ends without UnLock: the kernel drops its lock, the file stays.
Exit(p) ==
    /\ \E h \in Holder : Home[h] = p /\ at[h] # "free"
    /\ lock' = Dropped(p)
    /\ fd' = [fd EXCEPT ![p] = None]
    /\ at' = [h \in Holder |-> IF Home[h] = p THEN "free" ELSE at[h]]
    /\ UNCHANGED <<name, stolen>>

MutexNext ==
    \/ \E h \in Holder : Open(h) \/ SetLock(h) \/ Write(h) \/ WriteFails(h) \/ Close(h) \/ Unlink(h)
    \/ \E p \in Process : Exit(p)

MutexSpec == MutexInit /\ [][MutexNext]_mutexVars

-----------------------------------------------------------------------------
\* An object that holds the mutex holds the lock of its file: no other object of
\* its process can close the descriptor under it.
HeldMeansLocked ==
    \A h \in Holder : at[h] = "held" =>
        \E i \in Inode : fd[Home[h]] = i /\ lock[i] = Home[h]

\* Two objects hold the mutex only after a file was removed that another process
\* had open: a crash, a failed attempt or a second object never lead there.
ExclusionUnlessStolen ==
    ~stolen => \A g, h \in Holder : at[g] = "held" /\ at[h] = "held" => g = h
=============================================================================
