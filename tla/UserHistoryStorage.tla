------------------------- MODULE UserHistoryStorage -------------------------
\* The learned history on its way between memory and disk
\* (prediction/user_history_storage.cc): the main thread inserts, erases, clears,
\* and starts at most one syncer thread at a time, which loads or saves; the
\* mutex protects dic_, but neither the file nor the span of needs_sync_.
EXTENDS Naturals, FiniteSets

CONSTANT Entry      \* what can be learned

VARIABLES
    dic,            \* dic_
    disk,           \* the entries of the file, which a rename replaces as a whole
    needs_sync,     \* needs_sync_
    canceled,       \* canceled_
    syncer,         \* where the syncer's thread is
    read,           \* what the syncer has read or copied
    owner,          \* where the main thread is
    learned,        \* what the user expects to be remembered
    failed,         \* the last save failed
    reloaded,       \* a load dropped what was not saved, or failed
    overlapped      \* something changed between a copy and its needs_sync_ = false

historyGhosts == <<learned, failed, reloaded, overlapped>>
historyVars == <<dic, disk, needs_sync, canceled, syncer, read, owner, historyGhosts>>

HistoryTypeOK ==
    /\ dic \subseteq Entry /\ disk \subseteq Entry /\ read \subseteq Entry
    /\ learned \subseteq Entry
    /\ {needs_sync, canceled, failed, reloaded, overlapped} \subseteq BOOLEAN
    /\ syncer \in {"none", "read", "load", "save", "copy", "write", "synced"}
    /\ owner \in {"idle", "clear", "join", "save", "off"}
    /\ owner \in {"save", "off"} => syncer = "none"

\* A server starts: the constructor's AsyncLoad is under way.
Started ==
    /\ dic' = {} /\ needs_sync' = FALSE /\ canceled' = FALSE
    /\ syncer' = "read" /\ read' = {} /\ owner' = "idle"
    /\ learned' = disk /\ failed' = FALSE /\ reloaded' = FALSE /\ overlapped' = FALSE
    /\ UNCHANGED disk

HistoryInit ==
    /\ disk \in SUBSET Entry /\ learned = disk
    /\ dic = {} /\ needs_sync = FALSE /\ canceled = FALSE
    /\ syncer = "read" /\ read = {} /\ owner = "idle"
    /\ failed = FALSE /\ reloaded = FALSE /\ overlapped = FALSE

\* Between the copy and needs_sync_ = false of a save.
InSync == syncer \in {"write", "synced"}

-----------------------------------------------------------------------------
\* Insert, MutableLookup
Insert(e) ==
    /\ owner = "idle"
    /\ dic' = dic \cup {e} /\ needs_sync' = TRUE
    /\ learned' = learned \cup {e}
    /\ overlapped' = (overlapped \/ InSync)
    /\ UNCHANGED <<disk, canceled, syncer, read, owner, failed, reloaded>>

Erase(e) ==
    /\ owner = "idle" /\ e \in dic
    /\ dic' = dic \ {e} /\ needs_sync' = TRUE
    /\ learned' = learned \ {e}
    /\ overlapped' = (overlapped \/ InSync)
    /\ UNCHANGED <<disk, canceled, syncer, read, owner, failed, reloaded>>

\* Clear holds the mutex to its end: dic_ is emptied ...
Clear ==
    /\ owner = "idle"
    /\ dic' = {} /\ needs_sync' = TRUE /\ owner' = "clear"
    /\ learned' = {}
    /\ overlapped' = (overlapped \/ InSync)
    /\ UNCHANGED <<disk, canceled, syncer, read, failed, reloaded>>

\* ... and, if Save still finds needs_sync_, the file is removed. needs_sync_ stays.
ClearFile ==
    /\ owner = "clear"
    /\ disk' = (IF needs_sync THEN {} ELSE disk)
    /\ owner' = "idle"
    /\ UNCHANGED <<dic, needs_sync, canceled, syncer, read, historyGhosts>>

AsyncSave ==
    /\ owner = "idle" /\ needs_sync /\ syncer = "none"
    /\ syncer' = "save"
    /\ UNCHANGED <<dic, disk, needs_sync, canceled, read, owner, historyGhosts>>

\* Reload of the predictor: Wait, then AsyncLoad.
AsyncLoad ==
    /\ owner = "idle" /\ syncer = "none"
    /\ syncer' = "read"
    /\ UNCHANGED <<dic, disk, needs_sync, canceled, read, owner, historyGhosts>>

\* The destructor: cancel, join ...
Destroy ==
    /\ owner = "idle"
    /\ canceled' = (syncer # "none") /\ owner' = "join"
    /\ UNCHANGED <<dic, disk, needs_sync, syncer, read, historyGhosts>>

Join ==
    /\ owner = "join" /\ syncer = "none"
    /\ owner' = "save"
    /\ UNCHANGED <<dic, disk, needs_sync, canceled, syncer, read, historyGhosts>>

\* Fault: the last save is left to the syncer.
LastSaveSkipped ==
    /\ owner = "save" /\ owner' = "off"
    /\ UNCHANGED <<dic, disk, needs_sync, canceled, syncer, read, historyGhosts>>

\* ... and Save; nobody else is there any more.
LastSave ==
    /\ owner = "save"
    /\ \/ ~needs_sync /\ UNCHANGED <<disk, needs_sync, failed>>
       \/ /\ needs_sync
          /\ disk' = dic /\ needs_sync' = (dic = {}) /\ UNCHANGED failed
       \/ needs_sync /\ failed' = TRUE /\ UNCHANGED <<disk, needs_sync>>
    /\ owner' = "off"
    /\ UNCHANGED <<dic, canceled, syncer, read, learned, reloaded, overlapped>>

\* The next server, after the end of this one or its crash.
NextServer == owner = "off" /\ Started
Crash == owner # "off" /\ Started

-----------------------------------------------------------------------------
\* Load reads the file, if there is one, without the mutex; it may not be able to ...
LoadRead ==
    /\ syncer = "read"
    /\ \/ disk = {} /\ syncer' = "none" /\ UNCHANGED <<read, reloaded>>
       \/ disk # {} /\ syncer' = "load" /\ read' = disk /\ UNCHANGED reloaded
       \/ disk # {} /\ syncer' = "none" /\ reloaded' = TRUE /\ UNCHANGED read
    /\ UNCHANGED <<dic, disk, needs_sync, canceled, owner, learned, failed, overlapped>>

\* ... and replaces what is in memory, unless it is canceled on the way.
LoadReplace ==
    /\ syncer = "load" /\ owner # "clear"
    /\ \/ dic' = read
       \/ canceled /\ dic' \in SUBSET read
    /\ needs_sync' = FALSE
    /\ reloaded' = (reloaded \/ needs_sync)
    /\ syncer' = "none" /\ read' = {}
    /\ UNCHANGED <<disk, canceled, owner, learned, failed, overlapped>>

SaveTest ==
    /\ syncer = "save"
    /\ syncer' = (IF needs_sync THEN "copy" ELSE "none")
    /\ UNCHANGED <<dic, disk, needs_sync, canceled, read, owner, historyGhosts>>

SaveCopy ==
    /\ syncer = "copy" /\ owner # "clear"
    /\ read' = dic /\ syncer' = "write"
    /\ UNCHANGED <<dic, disk, needs_sync, canceled, owner, historyGhosts>>

\* An empty history is no file, and leaves needs_sync_ set.
SaveWrite ==
    /\ syncer = "write"
    /\ \/ disk' = read /\ syncer' = (IF read = {} THEN "none" ELSE "synced")
       \/ syncer' = "none" /\ UNCHANGED disk
    /\ read' = {}
    /\ UNCHANGED <<dic, needs_sync, canceled, owner, historyGhosts>>

SaveSynced ==
    /\ syncer = "synced"
    /\ needs_sync' = FALSE /\ syncer' = "none"
    /\ UNCHANGED <<dic, disk, canceled, read, owner, historyGhosts>>

HistoryNext ==
    \/ \E e \in Entry : Insert(e) \/ Erase(e)
    \/ Clear \/ ClearFile \/ AsyncSave \/ AsyncLoad \/ Destroy \/ Join \/ LastSave
    \/ NextServer \/ Crash
    \/ LoadRead \/ LoadReplace \/ SaveTest \/ SaveCopy \/ SaveWrite \/ SaveSynced

HistorySpec == HistoryInit /\ [][HistoryNext]_historyVars
-----------------------------------------------------------------------------
\* A server that ends leaves on disk what was learned and not erased, through
\* canceled loads, failed saves and crashes before: unless something changed in
\* the middle of a save, a load dropped it, or the last save failed.
HistoryIsOnDisk ==
    (owner = "off" /\ ~failed /\ ~reloaded /\ ~overlapped) => disk = learned

\* What is in memory is what was learned, once the file is read.
HistoryIsInMemory ==
    (syncer \notin {"read", "load"} /\ owner = "idle" /\ ~reloaded /\ ~overlapped) => dic = learned
=============================================================================
