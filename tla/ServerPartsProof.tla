-------------------------- MODULE ServerPartsProof --------------------------
(***************************************************************************)
(* Proofs about the small parts of the server and its helpers, whose state *)
(* is their own, for all values of their constants:                        *)
(*                                                                         *)
(* DataLoader: loader_response_ is never used by both threads, a request   *)
(* that is due has a thread, and current_request_id_ names the data the    *)
(* engine has or is about to get.                                          *)
(*                                                                         *)
(* UserHistoryStorage: a server that ends leaves on disk what was learned, *)
(* and memory holds it before.                                             *)
(*                                                                         *)
(* RendererClient: the window shows the last update, a launch has its      *)
(* launcher, and renderers that fail or do not fit are given up.           *)
(*                                                                         *)
(* ProcessMutex: an object that holds the mutex holds its file's lock, and *)
(* two objects hold the mutex only after a file was removed under a        *)
(* process.                                                                *)
(***************************************************************************)
EXTENDS DataLoader, UserHistoryStorage, RendererClient, ProcessMutex, SelectionProof

-----------------------------------------------------------------------------
\* DataLoader

\* The main thread only reloads while there is no loader, and only it starts one.
ReloadIsAlone == main = "reload" => loader = "none"

LoaderIInv == ReloadIsAlone /\ PendingHasLoader

\* No request and no thread.
LEMMA LoaderInitHasIInv == LoaderInit => LoaderIInv
  BY DEF LoaderInit, LoaderIInv, ReloadIsAlone, PendingHasLoader, Pending

\* The steps of the main thread.
LEMMA MainKeepsIInv ==
    ASSUME LoaderIInv, (\E r \in DataRequest : Register(r)) \/ MaybeReloadEngine \/ MainStep
    PROVE  LoaderIInv'
<1> USE DEF LoaderIInv, ReloadIsAlone, PendingHasLoader, Pending, Running
<1>1. ASSUME NEW r \in DataRequest, Register(r) PROVE LoaderIInv'
  BY <1>1 DEF Register
<1>2. CASE Notify
  BY <1>2 DEF Notify
<1>3. CASE Schedule
  BY <1>3 DEF Schedule
<1>4. CASE MaybeReloadEngine
  BY <1>4 DEF MaybeReloadEngine, MayReload
<1>5. CASE ReloadModules
  BY <1>5 DEF ReloadModules
<1> QED
  BY <1>1, <1>2, <1>3, <1>4, <1>5 DEF MainStep

\* The steps of the loader's thread: it ends after a look that found nothing.
LEMMA LoaderKeepsIInv == ASSUME LoaderIInv, LoaderStep PROVE LoaderIInv'
<1> USE DEF LoaderIInv, ReloadIsAlone, PendingHasLoader, Pending
<1>1. CASE Look
  BY <1>1 DEF Look
<1>2. CASE WaitForHighPriority
  BY <1>2 DEF WaitForHighPriority
<1>3. CASE Build
  BY <1>3 DEF Build
<1>4. CASE Callback
  BY <1>4 DEF Callback
<1>5. CASE Report
  BY <1>5 DEF Report
<1>6. CASE End
  BY <1>6 DEF End
<1> QED
  BY <1>1, <1>2, <1>3, <1>4, <1>5, <1>6 DEF LoaderStep

\* The invariant holds in every state.
THEOREM LoaderInvariant == LoaderSpec => []LoaderIInv
<1>1. LoaderIInv /\ [LoaderNext]_loaderVars => LoaderIInv'
  <2> SUFFICES ASSUME LoaderIInv, [LoaderNext]_loaderVars PROVE LoaderIInv'
    OBVIOUS
  <2>1. CASE UNCHANGED loaderVars
    BY <2>1 DEF loaderVars, LoaderIInv, ReloadIsAlone, PendingHasLoader, Pending
  <2> QED
    BY <2>1, MainKeepsIInv, LoaderKeepsIInv DEF LoaderNext
<1> QED
  BY <1>1, LoaderInitHasIInv, PTL DEF LoaderSpec

\* MaybeReloadEngine and the loader's callback never use loader_response_ at the
\* same time, although no lock keeps them apart.
THEOREM LoaderResponseIsNotShared == LoaderSpec => []ResponseNotShared
<1>1. LoaderIInv => ResponseNotShared
  BY DEF LoaderIInv, ReloadIsAlone, ResponseNotShared, Running
<1> QED
  BY <1>1, LoaderInvariant, PTL

\* A request that is due has a thread that will look for it, or the main thread
\* is about to start one, unless IsRunning was asked after the last look.
THEOREM LoaderServesPending == LoaderSpec => []PendingHasLoader
<1>1. LoaderIInv => PendingHasLoader
  BY DEF LoaderIInv
<1> QED
  BY <1>1, LoaderInvariant, PTL

\* The data that was handed over last.
LatestData == IF loader_response # "none" THEN loader_response ELSE modules

\* The loader works on a request that it has taken. Only between the callback and
\* ReportLoadSuccess is the data newer than current_request_id_, and what
\* MaybeReloadEngine has seen in loader_response_ stays there until it takes it.
CurrentIInv ==
    /\ requests \in Seq(DataRequest)
    /\ loader \in {"wait", "build", "callback", "report"} => taken \in DataRequest
    /\ loader = "report" => loader_response = taken
    /\ loader # "report" => current_request = LatestData
    /\ main = "reload" => loader_response # "none"

\* What is left of a list of requests is a list of requests.
LEMMA SelectionOfRequests ==
    ASSUME NEW list \in Seq(DataRequest), NEW T
    PROVE  Selection(list, T) \in Seq(DataRequest)
  BY SelectionKeeps

\* The steps of the main thread.
LEMMA MainKeepsCurrent ==
    ASSUME LoaderIInv, CurrentIInv,
           (\E r \in DataRequest : Register(r)) \/ MaybeReloadEngine \/ MainStep
    PROVE  CurrentIInv'
<1> USE DEF CurrentIInv, LatestData
<1>1. ASSUME NEW r \in DataRequest, Register(r) PROVE CurrentIInv'
  <2>1. Prioritized(r) \in Seq(DataRequest)
    <3> DEFINE others == Selection(requests, DataRequest \ {r})
               better == {q \in DataRequest : Priority[q] < Priority[r]}
    <3>1. others \in Seq(DataRequest)
      BY SelectionOfRequests
    <3> HIDE DEF others, better
    <3>2. /\ Selection(others, better) \in Seq(DataRequest)
          /\ Selection(others, DataRequest \ better) \in Seq(DataRequest)
          /\ <<r>> \in Seq(DataRequest)
      BY <3>1, SelectionOfRequests
    <3>3. Selection(others, better) \o <<r>> \o Selection(others, DataRequest \ better)
            \in Seq(DataRequest)
      BY <3>2
    <3> QED
      BY <3>3 DEF Prioritized, others, better
  <2> QED
    BY <1>1, <2>1 DEF Register
<1>2. CASE Notify
  BY <1>2 DEF Notify
<1>3. CASE Schedule
  BY <1>3 DEF Schedule, Running
<1>4. CASE MaybeReloadEngine
  BY <1>4 DEF MaybeReloadEngine, MayReload
<1>5. CASE ReloadModules
  BY <1>5 DEF ReloadModules, LoaderIInv, ReloadIsAlone
<1> QED
  BY <1>1, <1>2, <1>3, <1>4, <1>5 DEF MainStep

\* The steps of the loader's thread.
LEMMA LoaderKeepsCurrent ==
    ASSUME LoaderIInv, CurrentIInv, LoaderStep
    PROVE  CurrentIInv'
<1> USE DEF CurrentIInv, LatestData
<1>1. CASE Look
  <2>1. requests # << >> => Head(requests) \in DataRequest
    OBVIOUS
  <2> QED
    BY <1>1, <2>1 DEF Look, Pending
<1>2. CASE WaitForHighPriority
  BY <1>2 DEF WaitForHighPriority
<1>3. CASE Build
  BY <1>3, SelectionOfRequests DEF Build
<1>4. CASE Callback
  BY <1>4, LoaderAssumption DEF Callback
<1>5. CASE Report
  BY <1>5, LoaderAssumption DEF Report
<1>6. CASE End
  BY <1>6 DEF End
<1> QED
  BY <1>1, <1>2, <1>3, <1>4, <1>5, <1>6 DEF LoaderStep

\* When the loader rests, the data that the engine uses, or will at its next
\* MaybeReloadEngine, is the data current_request_id_ names, which decides whether the
\* next request is refused. It rests on LoaderIInv: modules taken away between the
\* callback and ReportLoadSuccess would leave the two apart.
THEOREM LoadedDataIsCurrent == LoaderSpec => []DataIsCurrent
<1>1. LoaderInit => CurrentIInv
  BY DEF LoaderInit, CurrentIInv, LatestData
<1>2. LoaderIInv /\ CurrentIInv /\ [LoaderNext]_loaderVars => CurrentIInv'
  <2> SUFFICES ASSUME LoaderIInv, CurrentIInv, UNCHANGED loaderVars PROVE CurrentIInv'
    BY MainKeepsCurrent, LoaderKeepsCurrent DEF LoaderNext
  <2> QED
    BY DEF loaderVars, CurrentIInv, LatestData
<1>3. CurrentIInv => DataIsCurrent
  BY DEF CurrentIInv, LatestData, DataIsCurrent, Running
<1> QED
  BY <1>1, <1>2, <1>3, LoaderInvariant, PTL DEF LoaderSpec

\* No request twice, and those of a better priority first.
Ordered(list) ==
    \A i, j \in DOMAIN list :
        i < j => list[i] # list[j] /\ Priority[list[i]] <= Priority[list[j]]

\* What is left of an ordered list is ordered.
LEMMA SelectionIsOrdered ==
    ASSUME NEW list \in Seq(DataRequest), Ordered(list), NEW T
    PROVE  Ordered(Selection(list, T)) /\ Range(Selection(list, T)) = Range(list) \cap T
<1>1. PICK left : left = Selection(list, T)
  OBVIOUS
<1>2. left \in Seq(DataRequest) /\ Range(left) = Range(list) \cap T
  BY <1>1, SelectionKeeps
<1>3. PICK where : Picks(where, left, list, Len(list))
  BY <1>1, SelectionKeeps
<1>4. DOMAIN left = 1 .. Len(left) /\ DOMAIN list = 1 .. Len(list)
  BY <1>2
<1>5. ASSUME NEW i \in DOMAIN left, NEW j \in DOMAIN left, i < j
      PROVE  left[i] # left[j] /\ Priority[left[i]] <= Priority[left[j]]
  <2>1. /\ where[i] \in DOMAIN list /\ where[j] \in DOMAIN list /\ where[i] < where[j]
        /\ left[i] = list[where[i]] /\ left[j] = list[where[j]]
    BY <1>3, <1>4, <1>5 DEF Picks
  <2> QED
    BY <2>1 DEF Ordered
<1> QED
  BY <1>1, <1>2, <1>5 DEF Ordered

\* The requests of the first list are other ones, and none is of a worse priority.
Before(a, b) ==
    \A q \in Range(a), r \in Range(b) : q # r /\ Priority[q] <= Priority[r]

\* Two ordered lists, the better one first.
LEMMA ConcatIsOrdered ==
    ASSUME NEW a \in Seq(DataRequest), NEW b \in Seq(DataRequest), Ordered(a), Ordered(b),
           Before(a, b)
    PROVE  Ordered(a \o b)
<1>1. PICK c, m, n : c = a \o b /\ m = Len(a) /\ n = Len(b)
  OBVIOUS
<1>2. /\ m \in Nat /\ n \in Nat /\ DOMAIN c = 1 .. m + n
      /\ DOMAIN a = 1 .. m /\ DOMAIN b = 1 .. n
      /\ \A i \in 1 .. m : c[i] = a[i]
      /\ \A i \in 1 .. m + n : i > m => c[i] = b[i - m]
  BY <1>1
<1>3. ASSUME NEW i \in 1 .. m + n, NEW j \in 1 .. m + n, i < j
      PROVE  c[i] # c[j] /\ Priority[c[i]] <= Priority[c[j]]
  <2>1. CASE j <= m
    <3>1. i \in DOMAIN a /\ j \in DOMAIN a
      BY <1>2, <1>3, <2>1
    <3> QED
      BY <1>2, <1>3, <3>1 DEF Ordered
  <2>2. CASE i <= m /\ j > m
    <3>0. i \in 1 .. m /\ j - m \in 1 .. n
      BY <1>2, <2>2
    <3>1. i \in DOMAIN a /\ j - m \in DOMAIN b /\ c[i] = a[i] /\ c[j] = b[j - m]
      BY <1>2, <2>2, <3>0
    <3>2. c[i] \in Range(a) /\ c[j] \in Range(b)
      BY <3>1 DEF Range
    <3> QED
      BY <3>2 DEF Before
  <2>3. CASE i > m
    <3>1. /\ i - m \in DOMAIN b /\ j - m \in DOMAIN b /\ i - m < j - m
          /\ c[i] = b[i - m] /\ c[j] = b[j - m]
      BY <1>2, <1>3, <2>3
    <3> QED
      BY <3>1 DEF Ordered
  <2> QED
    BY <1>2, <1>3, <2>1, <2>2, <2>3
<1>4. Ordered(c)
  BY <1>2, <1>3 DEF Ordered
<1> QED
  BY <1>1, <1>4

\* RegisterRequest sorts the request in, wherever it was before.
LEMMA PrioritizedIsOrdered ==
    ASSUME requests \in Seq(DataRequest), Ordered(requests), NEW r \in DataRequest
    PROVE  Prioritized(r) \in Seq(DataRequest) /\ Ordered(Prioritized(r))
<1>1. PICK others, better :
        /\ others = Selection(requests, DataRequest \ {r})
        /\ better = {q \in DataRequest : Priority[q] < Priority[r]}
  OBVIOUS
<1>2. PICK first, rest :
        first = Selection(others, better) /\ rest = Selection(others, DataRequest \ better)
  OBVIOUS
<1>3. /\ others \in Seq(DataRequest) /\ Ordered(others)
      /\ Range(others) = Range(requests) \cap (DataRequest \ {r})
  BY <1>1, SelectionOfRequests, SelectionIsOrdered
<1>4. /\ first \in Seq(DataRequest) /\ Ordered(first) /\ Range(first) = Range(others) \cap better
      /\ rest \in Seq(DataRequest) /\ Ordered(rest)
      /\ Range(rest) = Range(others) \cap (DataRequest \ better)
  BY <1>2, <1>3, SelectionOfRequests, SelectionIsOrdered
<1>5. \A q \in DataRequest : Priority[q] \in Nat
  BY LoaderAssumption
<1>6. \A q \in Range(first) : q \in DataRequest /\ q # r /\ Priority[q] < Priority[r]
  BY <1>1, <1>3, <1>4
<1>7. \A q \in Range(rest) : q \in DataRequest /\ q # r /\ Priority[r] <= Priority[q]
  BY <1>1, <1>3, <1>4, <1>5
<1>8. <<r>> \in Seq(DataRequest) /\ Ordered(<<r>>) /\ Range(<<r>>) = {r}
  BY DEF Ordered, Range
<1>9. first \o <<r>> \in Seq(DataRequest) /\ Ordered(first \o <<r>>)
  <2>1. Before(first, <<r>>)
    BY <1>5, <1>6, <1>8 DEF Before
  <2>2. Ordered(first \o <<r>>)
    BY <1>4, <1>8, <2>1, ConcatIsOrdered
  <2> QED
    BY <1>4, <1>8, <2>2
<1>10. \A q \in Range(first \o <<r>>) : q \in Range(first) \/ q = r
  <2>1. PICK m, c : m = Len(first) /\ c = first \o <<r>>
    OBVIOUS
  <2>2. /\ m \in Nat /\ DOMAIN c = 1 .. m + 1 /\ c[m + 1] = r
        /\ DOMAIN first = 1 .. m /\ \A i \in 1 .. m : c[i] = first[i]
    BY <1>4, <2>1
  <2>3. ASSUME NEW i \in 1 .. m + 1 PROVE c[i] \in Range(first) \/ c[i] = r
    <3>1. i \in 1 .. m \/ i = m + 1
      BY <2>2
    <3> QED
      BY <2>2, <3>1 DEF Range
  <2> QED
    BY <2>1, <2>2, <2>3 DEF Range
<1>11. Ordered((first \o <<r>>) \o rest)
  <2>1. ASSUME NEW q \in Range(first \o <<r>>), NEW t \in Range(rest)
        PROVE  q # t /\ Priority[q] <= Priority[t]
    <3>1. q # t
      BY <1>1, <1>3, <1>4, <1>10
    <3>2. Priority[q] \in Nat /\ Priority[r] \in Nat /\ Priority[t] \in Nat
      BY <1>5, <1>6, <1>7, <1>10
    <3>3. Priority[q] <= Priority[r] /\ Priority[r] <= Priority[t]
      BY <1>6, <1>7, <1>10, <3>2
    <3> QED
      BY <3>1, <3>2, <3>3
  <2>2. Before(first \o <<r>>, rest)
    BY <2>1 DEF Before
  <2> QED
    BY <1>4, <1>9, <2>2, ConcatIsOrdered
<1>12. (first \o <<r>>) \o rest \in Seq(DataRequest)
  BY <1>4, <1>9
<1>13. Prioritized(r) = (first \o <<r>>) \o rest
  BY <1>1, <1>2 DEF Prioritized
<1> QED
  BY <1>11, <1>12, <1>13

\* The type invariant, which says that requests_ is sorted by priority and holds no
\* request twice, however requests are registered again, overtake each other or fail.
THEOREM RequestsStaySorted == LoaderSpec => []LoaderTypeOK
<1>0. LoaderTypeOK <=>
        /\ requests \in Seq(DataRequest) /\ unregistered \subseteq DataRequest
        /\ Ordered(requests)
        /\ current_request \in Data /\ asked \in Data /\ taken \in Data
        /\ loader_response \in Data /\ modules \in Data
        /\ notified \in BOOLEAN /\ overlooked \in BOOLEAN
        /\ loader \in {"none", "look", "wait", "build", "callback", "report", "end"}
        /\ main \in {"idle", "notify", "schedule", "reload"}
  BY DEF LoaderTypeOK, Ordered
<1>1. LoaderInit => LoaderTypeOK
  <2>1. << >> \in Seq(DataRequest) /\ Ordered(<< >>)
    BY DEF Ordered
  <2>2. "none" \in Data
    BY DEF Data
  <2> SUFFICES ASSUME LoaderInit PROVE LoaderTypeOK
    OBVIOUS
  <2>3. requests \in Seq(DataRequest) /\ Ordered(requests)
    BY <2>1 DEF LoaderInit
  <2> QED
    BY <1>0, <2>2, <2>3 DEF LoaderInit
<1>2. LoaderTypeOK /\ [LoaderNext]_loaderVars => LoaderTypeOK'
  <2> SUFFICES ASSUME LoaderTypeOK, [LoaderNext]_loaderVars PROVE LoaderTypeOK'
    OBVIOUS
  <2>0. LoaderTypeOK' <=>
          /\ requests' \in Seq(DataRequest) /\ unregistered' \subseteq DataRequest
          /\ Ordered(requests')
          /\ current_request' \in Data /\ asked' \in Data /\ taken' \in Data
          /\ loader_response' \in Data /\ modules' \in Data
          /\ notified' \in BOOLEAN /\ overlooked' \in BOOLEAN
          /\ loader' \in {"none", "look", "wait", "build", "callback", "report", "end"}
          /\ main' \in {"idle", "notify", "schedule", "reload"}
    BY DEF LoaderTypeOK, Ordered
  <2>1. ASSUME NEW r \in DataRequest, Register(r) PROVE LoaderTypeOK'
    <3>1. requests' \in Seq(DataRequest) /\ Ordered(requests')
      BY <1>0, <2>1, PrioritizedIsOrdered DEF Register
    <3>2. main' \in {"notify", "idle"} /\ asked' \in Data
      BY <2>1 DEF Register, Data
    <3> QED
      BY <1>0, <2>0, <2>1, <3>1, <3>2 DEF Register
  <2>2. CASE Notify
    BY <1>0, <2>0, <2>2 DEF Notify
  <2>3. CASE Schedule
    BY <1>0, <2>0, <2>3 DEF Schedule
  <2>4. CASE MaybeReloadEngine
    BY <1>0, <2>0, <2>4 DEF MaybeReloadEngine
  <2>5. CASE ReloadModules
    BY <1>0, <2>0, <2>5 DEF ReloadModules, Data
  <2>6. CASE Look
    <3>1. taken' \in Data
      <4>1. requests # << >> => Head(requests) \in DataRequest
        BY <1>0
      <4> QED
        BY <2>6, <4>1 DEF Look, Pending, Data
    <3>2. loader' \in {"build", "wait", "end"}
      BY <2>6 DEF Look
    <3> QED
      BY <1>0, <2>0, <2>6, <3>1, <3>2 DEF Look
  <2>7. CASE WaitForHighPriority
    BY <1>0, <2>0, <2>7 DEF WaitForHighPriority
  <2>8. CASE Build
    <3>1. \/ requests' = requests /\ unregistered' = unregistered
          \/ /\ requests' = Selection(requests, DataRequest \ {taken})
             /\ unregistered' = unregistered \cup (Range(requests) \cap {taken})
      BY <2>8 DEF Build
    <3>2. requests' \in Seq(DataRequest) /\ Ordered(requests')
      BY <1>0, <3>1, SelectionOfRequests, SelectionIsOrdered
    <3>3. unregistered' \subseteq DataRequest
      BY <1>0, <3>1 DEF Range
    <3>4. loader' \in {"callback", "look"}
      BY <2>8 DEF Build
    <3> QED
      BY <1>0, <2>0, <2>8, <3>2, <3>3, <3>4 DEF Build
  <2>9. CASE Callback
    BY <1>0, <2>0, <2>9 DEF Callback
  <2>10. CASE Report
    BY <1>0, <2>0, <2>10 DEF Report
  <2>11. CASE End
    BY <1>0, <2>0, <2>11 DEF End
  <2>12. CASE UNCHANGED loaderVars
    BY <1>0, <2>0, <2>12 DEF loaderVars
  <2> QED
    BY <2>1, <2>2, <2>3, <2>4, <2>5, <2>6, <2>7, <2>8, <2>9, <2>10, <2>11, <2>12
    DEF LoaderNext, LoaderStep, MainStep
<1> QED
  BY <1>1, <1>2, PTL DEF LoaderSpec

-----------------------------------------------------------------------------
\* UserHistoryStorage

\* Nothing has happened that may lose an entry.
Undisturbed == ~reloaded /\ ~overlapped

\* While needs_sync_ is false the file is up to date ...
SyncedIsOnDisk == Undisturbed /\ ~needs_sync => disk = learned
\* ... a save under way has seen it set, and saves everything ...
SaveIsComplete ==
    /\ syncer \in {"copy", "write", "synced"} => needs_sync \/ overlapped
    /\ syncer \in {"write", "synced"} /\ owner = "clear" => overlapped
    /\ Undisturbed /\ syncer = "write" => read = learned
    /\ Undisturbed /\ syncer = "synced" => disk = learned
\* ... a load that drops nothing loads everything ...
LoadIsComplete ==
    /\ Undisturbed /\ syncer = "load" /\ ~needs_sync => read = learned
    /\ Undisturbed /\ syncer = "read" /\ disk = {} => dic = learned
\* ... and afterwards memory is up to date, or will not be written any more.
MemoryIsCurrent ==
    Undisturbed /\ syncer \notin {"read", "load"} =>
        dic = learned \/ (owner \in {"join", "save", "off"} /\ ~needs_sync /\ syncer = "none")
ClearIsConsistent ==
    owner = "clear" => dic = {} /\ learned = {} /\ (Undisturbed => needs_sync)
CanceledMeansEnd == canceled => owner \in {"join", "save", "off"}
EndIsSaved == owner = "off" /\ ~failed /\ Undisturbed => disk = learned

HistoryIInv ==
    /\ HistoryTypeOK /\ SyncedIsOnDisk /\ SaveIsComplete /\ LoadIsComplete
    /\ MemoryIsCurrent /\ ClearIsConsistent /\ CanceledMeansEnd /\ EndIsSaved

\* The first state, and that of every later server: an empty memory and a load.
LEMMA HistoryInitHasIInv == HistoryInit => HistoryIInv
  BY DEF HistoryInit, HistoryIInv, HistoryTypeOK, Undisturbed, SyncedIsOnDisk,
         SaveIsComplete, LoadIsComplete, MemoryIsCurrent, ClearIsConsistent,
         CanceledMeansEnd, EndIsSaved

LEMMA StartedHasIInv == HistoryIInv /\ Started => HistoryIInv'
  BY DEF Started, HistoryIInv, HistoryTypeOK, Undisturbed, SyncedIsOnDisk,
         SaveIsComplete, LoadIsComplete, MemoryIsCurrent, ClearIsConsistent,
         CanceledMeansEnd, EndIsSaved

\* What the main thread does.
LEMMA OwnerKeepsIInv ==
    ASSUME HistoryIInv,
           \/ \E e \in Entry : Insert(e) \/ Erase(e)
           \/ Clear \/ ClearFile \/ AsyncSave \/ AsyncLoad \/ Destroy \/ Join \/ LastSave
    PROVE  HistoryIInv'
<1> USE DEF HistoryIInv, HistoryTypeOK, Undisturbed, SyncedIsOnDisk, SaveIsComplete,
            LoadIsComplete, MemoryIsCurrent, ClearIsConsistent, CanceledMeansEnd,
            EndIsSaved, historyGhosts
<1>1. ASSUME NEW e \in Entry, Insert(e) PROVE HistoryIInv'
  BY <1>1 DEF Insert, InSync
<1>2. ASSUME NEW e \in Entry, Erase(e) PROVE HistoryIInv'
  BY <1>2 DEF Erase, InSync
<1>3. CASE Clear
  BY <1>3 DEF Clear, InSync
<1>4. CASE ClearFile
  BY <1>4 DEF ClearFile
<1>5. CASE AsyncSave
  BY <1>5 DEF AsyncSave
<1>6. CASE AsyncLoad
  BY <1>6 DEF AsyncLoad
<1>7. CASE Destroy
  BY <1>7 DEF Destroy
<1>8. CASE Join
  BY <1>8 DEF Join
<1>9. CASE LastSave
  <2>1. syncer = "none" /\ owner = "save" /\ owner' = "off"
    BY <1>9 DEF LastSave
  <2>2. CASE ~needs_sync /\ UNCHANGED <<disk, needs_sync, failed>>
    BY <1>9, <2>1, <2>2 DEF LastSave
  <2>3. CASE needs_sync /\ disk' = dic /\ needs_sync' = (dic = {}) /\ UNCHANGED failed
    BY <1>9, <2>1, <2>3 DEF LastSave
  <2>4. CASE needs_sync /\ failed' = TRUE /\ UNCHANGED <<disk, needs_sync>>
    BY <1>9, <2>1, <2>4 DEF LastSave
  <2> QED
    BY <1>9, <2>2, <2>3, <2>4 DEF LastSave
<1> QED
  BY <1>1, <1>2, <1>3, <1>4, <1>5, <1>6, <1>7, <1>8, <1>9

\* What the syncer's thread does.
LEMMA SyncerKeepsIInv ==
    ASSUME HistoryIInv,
           LoadRead \/ LoadReplace \/ SaveTest \/ SaveCopy \/ SaveWrite \/ SaveSynced
    PROVE  HistoryIInv'
<1> USE DEF HistoryIInv, HistoryTypeOK, Undisturbed, SyncedIsOnDisk, SaveIsComplete,
            LoadIsComplete, MemoryIsCurrent, ClearIsConsistent, CanceledMeansEnd,
            EndIsSaved, historyGhosts
<1>1. CASE LoadRead
  BY <1>1 DEF LoadRead
<1>2. CASE LoadReplace
  <2>1. dic' = read \/ (canceled /\ dic' \in SUBSET read)
    BY <1>2 DEF LoadReplace
  <2>2. CASE dic' = read
    BY <1>2, <2>2 DEF LoadReplace
  <2>3. CASE canceled /\ dic' \in SUBSET read
    BY <1>2, <2>3 DEF LoadReplace
  <2> QED
    BY <2>1, <2>2, <2>3
<1>3. CASE SaveTest
  BY <1>3 DEF SaveTest
<1>4. CASE SaveCopy
  BY <1>4 DEF SaveCopy
<1>5. CASE SaveWrite
  <2>1. CASE disk' = read /\ syncer' = (IF read = {} THEN "none" ELSE "synced")
    BY <1>5, <2>1 DEF SaveWrite
  <2>2. CASE syncer' = "none" /\ UNCHANGED disk
    BY <1>5, <2>2 DEF SaveWrite
  <2> QED
    BY <1>5, <2>1, <2>2 DEF SaveWrite
<1>6. CASE SaveSynced
  BY <1>6 DEF SaveSynced
<1> QED
  BY <1>1, <1>2, <1>3, <1>4, <1>5, <1>6

\* The invariant holds in every state of every server.
THEOREM HistoryInvariant == HistorySpec => []HistoryIInv
<1>1. HistoryIInv /\ [HistoryNext]_historyVars => HistoryIInv'
  <2> SUFFICES ASSUME HistoryIInv, [HistoryNext]_historyVars PROVE HistoryIInv'
    OBVIOUS
  <2>1. CASE UNCHANGED historyVars
    BY <2>1 DEF historyVars, historyGhosts, HistoryIInv, HistoryTypeOK, Undisturbed,
                SyncedIsOnDisk, SaveIsComplete, LoadIsComplete, MemoryIsCurrent,
                ClearIsConsistent, CanceledMeansEnd, EndIsSaved
  <2>2. CASE NextServer \/ Crash
    BY <2>2, StartedHasIInv DEF NextServer, Crash
  <2> QED
    BY <2>1, <2>2, OwnerKeepsIInv, SyncerKeepsIInv DEF HistoryNext
<1> QED
  BY <1>1, HistoryInitHasIInv, PTL DEF HistorySpec

\* A server that ends leaves on disk what was learned: through canceled loads,
\* failed saves and crashes before, unless something changed during a save, a
\* load dropped it or the last save failed.
THEOREM HistoryReachesDisk == HistorySpec => []HistoryIsOnDisk
<1>1. HistoryIInv => HistoryIsOnDisk
  BY DEF HistoryIInv, EndIsSaved, Undisturbed, HistoryIsOnDisk
<1> QED
  BY <1>1, HistoryInvariant, PTL

\* Memory holds what was learned once the file is read.
THEOREM HistoryReachesMemory == HistorySpec => []HistoryIsInMemory
<1>1. HistoryIInv => HistoryIsInMemory
  BY DEF HistoryIInv, MemoryIsCurrent, Undisturbed, HistoryIsInMemory
<1> QED
  BY <1>1, HistoryInvariant, PTL

-----------------------------------------------------------------------------
\* RendererClient

\* A command is sent, or a renderer started, only when none is being launched and
\* the errors counted by then are few; one more may be seen and not yet counted. The
\* launch it allows is the last; one that succeeds, and none, is no error.
Connecting == executing \in {"connect", "restart"}
FewErrors ==
    error_times <= MaxErrorTimes + 1 /\ (launcher = "count" => error_times <= MaxErrorTimes)
ErrorsAreCounted ==
    /\ Connecting \/ executing = "join" => FewErrors
    /\ executing = "join" => launcher \in {"none", "count"}
    /\ launcher # "none" => error_times <= MaxErrorTimes + 1
    /\ Connecting => renderer_status \in {"UNKNOWN", "READY", "TIMEOUT", "TERMINATED"}
    /\ renderer_status \in {"UNKNOWN", "READY"}
         => error_times <= MaxErrorTimes /\ launcher = "none"
\* Every renderer that is told to end is counted as one of another version.
KillsAreCounted == kills <= version_mismatch_nums

\* There is a last update, and no known reason why it is not shown.
Expected == last # "none" /\ ~excused
\* ExecCommand has done with the last update.
Settled == executing = "no" \/ command = "noop"
\* The update that is being executed is the last one.
CommandIsLast == command \in Update /\ executing # "no" => last = command

\* Where an update is that ExecCommand has done with: on the screen, lost with the
\* renderer, which is not started again, or waiting for the launcher.
OnScreen ==
    /\ Up /\ shown = last /\ launcher \in {"none", "count"}
    /\ renderer_status # "READY" => build = "same"
Lost == renderer_status = "READY" /\ renderer = "none"
Waiting == renderer_status # "READY" /\ pending_command = last
UpdateIsSomewhere == Expected /\ Settled => OnScreen \/ Lost \/ Waiting
\* While ExecCommand looks again, or is about to start a renderer for a command that
\* shows nothing, the last update waits, unless the launcher has just finished.
UpdateWaits ==
    /\ Expected /\ executing = "recheck" /\ command \in Update /\ renderer_status # "READY"
         => pending_command = last
    /\ Expected /\ executing = "restart" /\ command = "noop" /\ renderer_status # "READY"
         => pending_command = last
    /\ Expected /\ executing = "join" => pending_command = last
\* Only a renderer of an older version is told to end.
EndingIsOld == renderer = "ending" => build \in {"older", "different"}

RendererIInv ==
    /\ RendererTypeOK /\ LaunchingHasLauncher /\ ErrorsAreCounted /\ KillsAreCounted
    /\ RestartsAreBounded /\ CommandIsLast /\ UpdateIsSomewhere /\ UpdateWaits /\ EndingIsOld

USE RendererAssumption DEF Update, Command

\* Nothing was sent, nothing is shown.
LEMMA RendererInitHasIInv == RendererInit => RendererIInv
<1> SUFFICES ASSUME RendererInit PROVE RendererIInv
  OBVIOUS
<1>1. RendererTypeOK
  <2>1. {elapsed, excused} \subseteq BOOLEAN
    BY Zenon DEF RendererInit
  <2>2. version_mismatch_nums \in 0 .. MaxVersionMismatchNums
    BY DEF RendererInit
  <2>3. {pending_command, shown, last} \subseteq Update \cup {"none"} /\ command \in Command
    BY DEF RendererInit
  <2> QED
    BY <2>1, <2>2, <2>3 DEF RendererInit, RendererTypeOK
<1>2. LaunchingHasLauncher /\ ErrorsAreCounted /\ KillsAreCounted /\ RestartsAreBounded
  BY DEF RendererInit, LaunchingHasLauncher, ErrorsAreCounted, Connecting, KillsAreCounted,
         RestartsAreBounded
<1>3. CommandIsLast /\ UpdateIsSomewhere /\ UpdateWaits /\ EndingIsOld
  BY DEF RendererInit, CommandIsLast, UpdateIsSomewhere, Expected, UpdateWaits, EndingIsOld
<1> QED
  BY <1>1, <1>2, <1>3 DEF RendererIInv

\* The steps of ExecCommand.
LEMMA ExecutingKeepsIInv ==
    ASSUME RendererIInv, Executing \/ \E c \in Command : ExecCommand(c)
    PROVE  RendererIInv'
<1> USE DEF RendererIInv, RendererTypeOK, LaunchingHasLauncher, ErrorsAreCounted, Connecting,
            KillsAreCounted, RestartsAreBounded, CommandIsLast, UpdateIsSomewhere, Expected,
            Settled, OnScreen, Lost, Waiting, UpdateWaits, EndingIsOld, FewErrors, Up, CanConnect,
            SetPendingCommand, Crowded, client, process, ghosts
<1>1. ASSUME NEW c \in Command, ExecCommand(c) PROVE RendererIInv'
  <2>1. RendererTypeOK'
    BY ZenonT(60), <1>1 DEF ExecCommand
  <2>2. LaunchingHasLauncher' /\ ErrorsAreCounted' /\ KillsAreCounted' /\ RestartsAreBounded'
    BY <1>1 DEF ExecCommand
  <2>3. CommandIsLast'
    BY <1>1 DEF ExecCommand
  <2>4. UpdateIsSomewhere'
    BY <1>1 DEF ExecCommand
  <2>5. UpdateWaits' /\ EndingIsOld'
    BY <1>1 DEF ExecCommand
  <2> QED
    BY <2>1, <2>2, <2>3, <2>4, <2>5
<1>2. CASE Pend
  BY ZenonT(60), <1>2 DEF Pend
<1>3. CASE Recheck
  BY <1>3 DEF Recheck
<1>4. CASE Drop
  BY <1>4 DEF Drop, GiveUp
<1>5. CASE CannotConnect
  BY <1>5 DEF CannotConnect
<1>6. CASE Restart
  <2>1. RendererTypeOK'
    BY <1>6 DEF Restart
  <2>2. LaunchingHasLauncher' /\ ErrorsAreCounted' /\ KillsAreCounted' /\ RestartsAreBounded'
    BY <1>6 DEF Restart
  <2>3. CommandIsLast' /\ UpdateIsSomewhere' /\ UpdateWaits' /\ EndingIsOld'
    BY <1>6 DEF Restart
  <2> QED
    BY <2>1, <2>2, <2>3
<1>7. CASE ReplaceRenderer
  <2>1. RendererTypeOK'
    BY <1>7 DEF ReplaceRenderer
  <2>2. LaunchingHasLauncher' /\ ErrorsAreCounted' /\ KillsAreCounted' /\ RestartsAreBounded'
    BY <1>7 DEF ReplaceRenderer
  <2>3. CommandIsLast'
    BY <1>7 DEF ReplaceRenderer
  <2>4. UpdateIsSomewhere'
    BY <1>7 DEF ReplaceRenderer
  <2>5. UpdateWaits' /\ EndingIsOld'
    BY <1>7 DEF ReplaceRenderer
  <2> QED
    BY <2>1, <2>2, <2>3, <2>4, <2>5
<1>8. CASE TooOld
  BY <1>8 DEF TooOld
<1>9. CASE Call
  BY <1>9 DEF Call, Showing
<1>10. CASE WaitLauncher
  <2>1. RendererTypeOK'
    BY <1>10 DEF WaitLauncher
  <2>2. LaunchingHasLauncher' /\ ErrorsAreCounted' /\ KillsAreCounted' /\ RestartsAreBounded'
    BY <1>10 DEF WaitLauncher
  <2>3. CommandIsLast' /\ UpdateIsSomewhere' /\ UpdateWaits' /\ EndingIsOld'
    BY <1>10 DEF WaitLauncher
  <2> QED
    BY <2>1, <2>2, <2>3
<1> QED
  BY <1>1, <1>2, <1>3, <1>4, <1>5, <1>6, <1>7, <1>8, <1>9, <1>10 DEF Executing

\* The steps of the launcher and of the renderer.
LEMMA LaunchingKeepsIInv ==
    ASSUME RendererIInv, Launching \/ Ready \/ RendererEnds \/ OtherStarts \/ RetryIntervalPasses
    PROVE  RendererIInv'
<1> USE DEF RendererIInv, RendererTypeOK, LaunchingHasLauncher, ErrorsAreCounted, Connecting,
            KillsAreCounted, RestartsAreBounded, CommandIsLast, UpdateIsSomewhere, Expected,
            Settled, OnScreen, Lost, Waiting, UpdateWaits, EndingIsOld, FewErrors, Up, client,
            process, ghosts
<1>1. CASE Spawn
  BY ZenonT(60), <1>1 DEF Spawn
<1>2. CASE WaitFailed
  BY <1>2 DEF WaitFailed
<1>3. CASE WaitDone
  BY <1>3 DEF WaitDone
<1>4. CASE FlushPendingCommand
  <2>1. RendererTypeOK'
    BY <1>4 DEF FlushPendingCommand
  <2>2. LaunchingHasLauncher' /\ ErrorsAreCounted' /\ KillsAreCounted' /\ RestartsAreBounded'
    BY <1>4 DEF FlushPendingCommand
  <2>3. CommandIsLast'
    BY <1>4 DEF FlushPendingCommand
  <2>4. UpdateIsSomewhere'
    BY <1>4 DEF FlushPendingCommand
  <2>5. UpdateWaits' /\ EndingIsOld'
    BY <1>4 DEF FlushPendingCommand
  <2> QED
    BY <2>1, <2>2, <2>3, <2>4, <2>5
<1>5. CASE Ready
  BY <1>5 DEF Ready
<1>6. CASE RendererEnds
  <2>1. RendererTypeOK'
    BY ZenonT(60), <1>6 DEF RendererEnds
  <2>2. LaunchingHasLauncher' /\ ErrorsAreCounted' /\ KillsAreCounted' /\ RestartsAreBounded'
    BY <1>6 DEF RendererEnds
  <2>3. CommandIsLast' /\ UpdateIsSomewhere' /\ UpdateWaits' /\ EndingIsOld'
    BY <1>6 DEF RendererEnds
  <2> QED
    BY <2>1, <2>2, <2>3
<1>7. CASE OtherStarts
  BY <1>7 DEF OtherStarts
<1>8. CASE RetryIntervalPasses
  BY <1>8 DEF RetryIntervalPasses
<1>9. CASE CountFailure
  <2>1. RendererTypeOK'
    BY <1>9 DEF CountFailure
  <2>2. LaunchingHasLauncher' /\ ErrorsAreCounted' /\ KillsAreCounted' /\ RestartsAreBounded'
    BY <1>9 DEF CountFailure
  <2>3. CommandIsLast' /\ UpdateIsSomewhere' /\ UpdateWaits' /\ EndingIsOld'
    BY <1>9 DEF CountFailure
  <2> QED
    BY <2>1, <2>2, <2>3
<1> QED
  BY <1>1, <1>2, <1>3, <1>4, <1>5, <1>6, <1>7, <1>8, <1>9 DEF Launching

\* The invariant holds in every state.
THEOREM RendererInvariant == RendererSpec => []RendererIInv
<1>1. RendererIInv /\ [RendererNext]_rendererVars => RendererIInv'
  <2> SUFFICES ASSUME RendererIInv, [RendererNext]_rendererVars PROVE RendererIInv'
    OBVIOUS
  <2>1. CASE UNCHANGED rendererVars
    BY <2>1 DEF rendererVars, RendererIInv, RendererTypeOK, LaunchingHasLauncher,
                ErrorsAreCounted, Connecting, KillsAreCounted, RestartsAreBounded,
                CommandIsLast, UpdateIsSomewhere, Expected, Settled, OnScreen, Lost, Waiting,
                UpdateWaits, EndingIsOld, FewErrors, Up
  <2> QED
    BY <2>1, ExecutingKeepsIInv, LaunchingKeepsIInv DEF RendererNext
<1> QED
  BY <1>1, RendererInitHasIInv, PTL DEF RendererSpec

\* The window shows the last update when the renderer is ready and ExecCommand is
\* done, whichever of the client and the launcher was to send it.
THEOREM RendererShowsLastUpdate == RendererSpec => []LastUpdateIsShown
<1>1. RendererIInv => LastUpdateIsShown
  BY DEF RendererIInv, UpdateIsSomewhere, Expected, Settled, OnScreen, Lost, Waiting,
         Up, LastUpdateIsShown
<1> QED
  BY <1>1, RendererInvariant, PTL

\* Whatever fails, a status of LAUNCHING has a launcher that will change it.
THEOREM RendererLaunchIsWatched == RendererSpec => []LaunchingHasLauncher
<1>1. RendererIInv => LaunchingHasLauncher
  BY DEF RendererIInv
<1> QED
  BY <1>1, RendererInvariant, PTL

\* Failing renderers and those of another version are given up.
THEOREM RendererIsGivenUp == RendererSpec => []RestartsAreBounded
<1>1. RendererIInv => RestartsAreBounded
  BY DEF RendererIInv
<1> QED
  BY <1>1, RendererInvariant, PTL

-----------------------------------------------------------------------------
\* ProcessMutex

\* An object that uses its process's descriptor.
Uses(h) == at[h] \in {"opened", "locked", "held"}

\* The descriptor of a process is in use by one of its objects at most ...
OneUser ==
    /\ \A h \in Holder : Uses(h) => fd[Home[h]] # None
    /\ \A g, h \in Holder : Uses(g) /\ Uses(h) /\ Home[g] = Home[h] => g = h
\* ... the lock is the lock of the file it is a descriptor of ...
LockMatchesFd ==
    /\ \A h \in Holder : at[h] \in {"locked", "held"} => lock[fd[Home[h]]] = Home[h]
    /\ \A i \in Inode, p \in Process : lock[i] = p => fd[p] = i
\* ... and, as long as none was removed too early, that is the file with the name.
FilesHaveTheName == ~stolen => \A p \in Process : fd[p] # None => fd[p] = name

MutexIInv == MutexTypeOK /\ OneUser /\ LockMatchesFd /\ FilesHaveTheName

USE MutexAssumption DEF None

\* No file, no descriptor, no lock, no user.
LEMMA MutexInitHasIInv == MutexInit => MutexIInv
<1> SUFFICES ASSUME MutexInit PROVE MutexIInv
  OBVIOUS
<1>1. MutexTypeOK
  BY DEF MutexInit, MutexTypeOK, Place
<1>2. \A h \in Holder : ~Uses(h) /\ at[h] = "free"
  BY DEF MutexInit, Uses
<1>3. \A i \in Inode, p \in Process : lock[i] # p
  BY DEF MutexInit
<1>4. FilesHaveTheName
  BY DEF MutexInit, FilesHaveTheName
<1> QED
  BY <1>1, <1>2, <1>3, <1>4 DEF MutexIInv, OneUser, LockMatchesFd

\* What closing the descriptor of h's process does, in UnLock and at a failed write.
LEMMA ClosedKeepsIInv ==
    ASSUME MutexIInv, NEW h \in Holder, Uses(h), Closed(h)
    PROVE  MutexIInv'
<1> DEFINE p == Home[h]
<1>1. p \in Process
  OBVIOUS
<1>2. MutexTypeOK'
  BY DEF MutexIInv, MutexTypeOK, Place, Closed, Dropped
<1>3. \A g \in Holder : Uses(g)' => Uses(g) /\ g # h /\ Home[g] # p
  BY DEF MutexIInv, MutexTypeOK, OneUser, Uses, Closed
<1>4. OneUser'
  BY <1>1, <1>3 DEF MutexIInv, MutexTypeOK, OneUser, Closed
<1>5. LockMatchesFd'
  <2>1. ASSUME NEW g \in Holder, at'[g] \in {"locked", "held"}
        PROVE  lock'[fd'[Home[g]]] = Home[g]
    <3>1. Uses(g)' /\ Uses(g) /\ Home[g] # p /\ at[g] = at'[g]
      BY <1>3, <2>1 DEF Uses, Closed, MutexIInv, MutexTypeOK
    <3>2. fd'[Home[g]] = fd[Home[g]] /\ fd[Home[g]] \in Inode /\ lock[fd[Home[g]]] = Home[g]
      BY <2>1, <3>1 DEF Closed, MutexIInv, MutexTypeOK, OneUser, LockMatchesFd
    <3> QED
      BY <3>1, <3>2 DEF Closed, Dropped
  <2>2. ASSUME NEW i \in Inode, NEW q \in Process, lock'[i] = q
        PROVE  fd'[q] = i
    <3>1. lock[i] = q /\ fd[q] = i /\ q # p
      BY <2>2 DEF Closed, Dropped, MutexIInv, MutexTypeOK, LockMatchesFd
    <3> QED
      BY <3>1, <1>1 DEF Closed, MutexIInv, MutexTypeOK
  <2> QED
    BY <2>1, <2>2 DEF LockMatchesFd
<1>6. FilesHaveTheName'
  BY <1>1 DEF MutexIInv, MutexTypeOK, FilesHaveTheName, Closed
<1> QED
  BY <1>2, <1>4, <1>5, <1>6 DEF MutexIInv

\* Every step keeps the invariant.
LEMMA MutexStepKeepsIInv == MutexIInv /\ [MutexNext]_mutexVars => MutexIInv'
<1> SUFFICES ASSUME MutexIInv, [MutexNext]_mutexVars PROVE MutexIInv'
  OBVIOUS
<1>1. ASSUME NEW h \in Holder, Open(h) PROVE MutexIInv'
  <2> DEFINE p == Home[h]
  <2>1. PICK i \in Inode : /\ IF name = None THEN i \in Unused ELSE i = name
                           /\ name' = i /\ fd' = [fd EXCEPT ![p] = i]
    BY <1>1 DEF Open
  <2>2. p \in Process /\ fd[p] = None
    BY <1>1 DEF Open, NotInMap
  <2>3. MutexTypeOK'
    BY <1>1, <2>1, <2>2 DEF MutexIInv, MutexTypeOK, Place, Open
  <2>4. \A g \in Holder : g # h => at'[g] = at[g] /\ (Uses(g) => Home[g] # p)
    BY <1>1, <2>2 DEF MutexIInv, MutexTypeOK, OneUser, Open
  <2>5. at'[h] = "opened" /\ fd'[p] = i
    BY <1>1, <2>1, <2>2 DEF MutexIInv, MutexTypeOK, Open
  <2>6. OneUser'
    BY <2>1, <2>2, <2>4, <2>5 DEF MutexIInv, MutexTypeOK, OneUser, Uses
  <2>7. \A j \in Inode : lock[j] # p
    BY <2>2 DEF MutexIInv, LockMatchesFd
  <2>8. LockMatchesFd'
    BY <1>1, <2>1, <2>2, <2>4, <2>5, <2>7
    DEF MutexIInv, MutexTypeOK, LockMatchesFd, OneUser, Uses, Open
  <2>9. FilesHaveTheName'
    BY <1>1, <2>1, <2>2, <2>5 DEF MutexIInv, MutexTypeOK, FilesHaveTheName, Open
  <2> QED
    BY <2>3, <2>6, <2>8, <2>9 DEF MutexIInv
<1>2. ASSUME NEW h \in Holder, SetLock(h) PROVE MutexIInv'
  <2> DEFINE p == Home[h]
             i == fd[p]
  <2>1. p \in Process /\ i \in Inode /\ Uses(h)
    BY <1>2 DEF SetLock, Uses, MutexIInv, MutexTypeOK, OneUser
  <2>2. \A g \in Holder : g # h /\ Uses(g) => Home[g] # p
    BY <2>1 DEF MutexIInv, OneUser
  <2>3. CASE lock[i] \in {None, p}
    <3>1. /\ lock' = [lock EXCEPT ![i] = p] /\ at' = [at EXCEPT ![h] = "locked"]
          /\ UNCHANGED <<name, fd, stolen>>
      BY <1>2, <2>3 DEF SetLock
    <3>2. MutexTypeOK'
      BY <2>1, <3>1 DEF MutexIInv, MutexTypeOK, Place
    <3>3. OneUser'
      BY <2>1, <3>1 DEF MutexIInv, MutexTypeOK, OneUser, Uses
    <3>4. \A g \in Holder : at[g] \in {"locked", "held"} => fd[Home[g]] # i
      BY <1>2, <2>1, <2>2, <2>3 DEF SetLock, MutexIInv, LockMatchesFd, Uses
    <3>5. LockMatchesFd'
      BY <2>1, <3>1, <3>4 DEF MutexIInv, MutexTypeOK, LockMatchesFd
    <3> QED
      BY <3>1, <3>2, <3>3, <3>5 DEF MutexIInv, FilesHaveTheName
  <2>4. CASE lock[i] \notin {None, p}
    <3>1. /\ fd' = [fd EXCEPT ![p] = None] /\ at' = [at EXCEPT ![h] = "free"]
          /\ UNCHANGED <<name, lock, stolen>>
      BY <1>2, <2>4 DEF SetLock
    <3>2. MutexTypeOK'
      BY <2>1, <3>1 DEF MutexIInv, MutexTypeOK, Place
    <3>3. OneUser'
      BY <2>1, <2>2, <3>1 DEF MutexIInv, MutexTypeOK, OneUser, Uses
    <3>4. \A j \in Inode : lock[j] # p
      BY <2>1, <2>4 DEF MutexIInv, LockMatchesFd
    <3>5. \A g \in Holder : at'[g] \in {"locked", "held"} => Home[g] # p /\ at'[g] = at[g]
      BY <2>2, <3>1 DEF Uses, MutexIInv, MutexTypeOK
    <3>6. LockMatchesFd'
      BY <2>1, <3>1, <3>4, <3>5 DEF MutexIInv, MutexTypeOK, LockMatchesFd
    <3>7. FilesHaveTheName'
      BY <2>1, <3>1 DEF MutexIInv, MutexTypeOK, FilesHaveTheName
    <3> QED
      BY <3>2, <3>3, <3>6, <3>7 DEF MutexIInv
  <2> QED
    BY <2>3, <2>4
<1>3. ASSUME NEW h \in Holder, Write(h) PROVE MutexIInv'
  BY <1>3 DEF Write, MutexIInv, MutexTypeOK, Place, OneUser, Uses, LockMatchesFd,
              FilesHaveTheName
<1>4. ASSUME NEW h \in Holder, WriteFails(h) \/ Close(h) PROVE MutexIInv'
  BY <1>4, ClosedKeepsIInv DEF WriteFails, Close, Uses
<1>5. ASSUME NEW h \in Holder, Unlink(h) PROVE MutexIInv'
  <2>1. MutexTypeOK' /\ OneUser' /\ LockMatchesFd'
    BY <1>5 DEF Unlink, MutexIInv, MutexTypeOK, Place, OneUser, Uses, LockMatchesFd
  <2>2. FilesHaveTheName'
    BY <1>5 DEF Unlink, MutexIInv, FilesHaveTheName
  <2> QED
    BY <2>1, <2>2 DEF MutexIInv
<1>6. ASSUME NEW p \in Process, Exit(p) PROVE MutexIInv'
  <2>1. MutexTypeOK'
    BY <1>6 DEF Exit, Dropped, MutexIInv, MutexTypeOK, Place
  <2>2. \A g \in Holder : Uses(g)' => Home[g] # p /\ at'[g] = at[g]
    BY <1>6 DEF Exit, Uses
  <2>3. fd' = [fd EXCEPT ![p] = None] /\ UNCHANGED <<name, stolen>>
    BY <1>6 DEF Exit
  <2>4. OneUser'
    BY <2>2, <2>3 DEF MutexIInv, MutexTypeOK, OneUser, Uses
  <2>5. \A i \in Inode : lock'[i] # p /\ (lock[i] # p => lock'[i] = lock[i])
    BY <1>6 DEF Exit, Dropped, MutexIInv, MutexTypeOK, LockMatchesFd
  <2>6. \A i \in Inode : lock'[i] \in {None, lock[i]}
    BY <1>6 DEF Exit, Dropped
  <2>7. LockMatchesFd'
    BY <2>2, <2>3, <2>5, <2>6 DEF MutexIInv, MutexTypeOK, LockMatchesFd, OneUser, Uses
  <2>8. FilesHaveTheName'
    BY <2>3 DEF MutexIInv, MutexTypeOK, FilesHaveTheName
  <2> QED
    BY <2>1, <2>4, <2>7, <2>8 DEF MutexIInv
<1>7. CASE UNCHANGED mutexVars
  BY <1>7 DEF mutexVars, MutexIInv, MutexTypeOK, OneUser, Uses, LockMatchesFd, FilesHaveTheName
<1> QED
  BY <1>1, <1>2, <1>3, <1>4, <1>5, <1>6, <1>7 DEF MutexNext

\* The invariant holds in every state.
THEOREM MutexInvariant == MutexSpec => []MutexIInv
  BY MutexInitHasIInv, MutexStepKeepsIInv, PTL DEF MutexSpec

\* An object that holds the mutex holds the lock of its file (fcntl's locks are
\* the process's, and one descriptor of it that is closed would drop them).
THEOREM MutexHeldMeansLocked == MutexSpec => []HeldMeansLocked
<1>1. MutexIInv => HeldMeansLocked
  BY DEF MutexIInv, MutexTypeOK, OneUser, Uses, LockMatchesFd, HeldMeansLocked
<1> QED
  BY <1>1, MutexInvariant, PTL

\* Two objects hold the mutex only after UnLock removed a file under a process.
THEOREM MutexExcludes == MutexSpec => []ExclusionUnlessStolen
<1>1. MutexIInv => ExclusionUnlessStolen
  BY DEF MutexIInv, MutexTypeOK, OneUser, Uses, LockMatchesFd, FilesHaveTheName,
         ExclusionUnlessStolen
<1> QED
  BY <1>1, MutexInvariant, PTL
=============================================================================
