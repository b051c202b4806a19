# Verification of fcitx-mozkey

TLA+ models of the input-method server in `src/src` and of the processes around it, the
properties TLC checks on small instances of them, and the theorems TLAPS proves for all
instances.

fcitx-mozkey is a fork of Mozc. What it adds, and what is hard about it, is *live
conversion* (the text is converted while it is typed, after a delay) and the *Zenz
correction* on top of it (a language model in another process replaces the shown
conversion when its answer arrives). Both are driven by callbacks the server asks its
client for, by a worker thread, and by keys that may come at any moment between. The
models start there, and go on to what such a session depends on: the table of sessions,
the client library that finds and restarts the server, the scorer process, the mutex
between processes, the loader of language data, the learned history, the feedback file
and the candidate window's process.

## 1. The system

| component | state it keeps | operations | meets others through |
|---|---|---|---|
| `session/session.cc` (Session) | input state, composition, live conversion, pending conversion, pending and visible correction, pending feedback and learning, generations | SendKey, TestSendKey, SendCommand and their handlers | calls EngineConverter, Composer, corrector, feedback store; asks the client for callbacks in its replies |
| `session/zenz_live_corrector.cc` | queued request, stored answer, `started_`, `stop_`, a thread | Start, Stop, Submit, CancelPending, TakeResult, WorkerLoop | `mu_`, `cv_`; calls the pipe client outside the lock |
| `session/zenz_named_pipe_client.cc` | a connection, the time of the last launch | Convert, connect, launch, retry | the scorer's socket |
| `zenz_scorer/main.cc` | lock file, socket, flags of llama-server, probe threads | serve a connection, launch and probe llama-server, stop, end | socket, lock file, signals, llama-server |
| `session/zenz_feedback_store.cc` | a TSV file of accepted and rejected corrections | append, look up, delete, import, export, clear | the server appends, the config dialog rewrites |
| `session/session_handler.cc` | sessions by id in LRU order, config, request, engine, three timestamps | EvalCommand and one method per command | owns sessions, engine and watch dog |
| `storage/lru_cache.h` | hash table, doubly linked list, free list | Insert, MutableLookup, Erase, MutableTail | used by the handler |
| `session/session_watch_dog.cc`, `session_server.cc` | a thread, its timestamps, `stop_` | ThreadMain, CanSendCleanupCommand, Process | calls its own server over IPC |
| `client/client.cc`, `client/server_launcher.cc` | server status, session id, journal of inputs, versions | every call with launch, version check, retry and replay | IPC |
| `ipc/unix_ipc.cc`, `ipc/ipc_path_manager.cc` | key file and its lock, the client's copy of the key | Init, Call, SavePathName, LoadPathName | abstract sockets, files |
| `base/process_mutex.cc` | a descriptor per file name and process, `locked_` | Lock, LockAndWrite, UnLock | `fcntl` locks on files |
| `engine/engine.cc`, `engine/data_loader.cc` | modules, requests, a loader thread, `loader_response_` | SendEngineReloadRequest, MaybeReloadEngine, StartReloadLoop | called by the handler; the loader's callback |
| `prediction/user_history_storage.cc` | learned entries, `needs_sync_`, `canceled_`, a file, a syncer thread | Insert, Erase, Clear, Load, Save, the destructor | called by the predictor |
| `renderer/renderer_client.cc` | launcher's status, pending command, counters, a thread | ExecCommand, StartRenderer, FlushPendingCommand | IPC to the renderer's process |
| `unix/fcitx5/mozc_state.cc`, `win32/tip` | preedit, one callback timer | key events, callback | client library |
| `engine/engine_converter.cc`, `converter/`, `rewriter/`, `dictionary/` | segments, candidates | Convert, Suggest, Predict, Commit | called by Session |
| `prediction/user_history_predictor.cc`, `storage/lru_storage.cc` | learned text, files | Predict, Finish, Revert | called by the converter |
| `composer/`, `config/`, `session/keymap.cc` | the typed characters; the shared config; key tables | editing; SetConfig; look-up | called by Session and handler |
| `gui/`, `android/`, other platforms | windows, dialogs | | |

What is hard to test in it: answers and callbacks that arrive after the text they are
for is gone; threads that sleep, load, save or exit while another submits, cancels or
ends; feedback and learning that stay pending over the end of a text; a server that
crashes, is replaced or forgets the session between two calls of a replay; files that
are removed by name under another process; a table, a journal and a backlog at their
limits; clocks that jump; retries within retries. `PROJECT.json` lists these hazards at
their lines, with the properties that cover them.

What makes the components correct:

* corrector: no lost wakeup, one thread, no late answer, Stop returns;
* session: conversion, pending conversion and correction belong to the present text;
  feedback and learning are decided exactly once; what was typed is committed or kept;
  callbacks do not wipe the preedit or turn the session on; waits end;
* handler: list and table agree; sessions have the handler's settings and engine; the
  empty time matches the table; a session is lost only for a reason;
* watch dog: time asleep is not idle time; the thread ends with its server;
* client: every call returns; the composition survives a lost session in order; what was
  committed does not come back; the server is of the client's version;
* scorer: every Convert returns (but for one case, below); a scorer that serves can be found; the probe flag has a
  thread;
* mutex: one holder at a time; loader: the data in use is the data on record, the
  hand-over is not shared, a due request has a thread; history: what was learned gets to
  the disk; feedback file: it holds what the user decided, and what was removed stays
  away; renderer: the window shows the last update.

## 2. Modules

```
ZenzMailbox            abstract: the one-place mailbox in front of one converter
  ^ implemented by (INSTANCE, refinement mapping running <- job)
ZenzLiveCorrector      the two threads       <- ZenzLiveCorrectorProof
ZenzMailbox
  ^ used by (INSTANCE)
LiveSession            one session, its client's timer and the corrector
                                             <- LiveSessionProof, MCLiveSession
Selection              what is left of a list <- SelectionProof
  ^ extended by SessionHandler, DataLoader and FeedbackStore, and the proofs of theirs
SessionHandler         the table of sessions
  ^ extended by
SessionWatchDog        thread and server loop around it
                                             <- SessionHandlerProof, of both
Ipc                    server processes, key file, mutex
  ^ extended by
Client                 the client library    <- ClientProof, MCClient
ZenzScorer             callers, scorer processes, llama-server
                                             <- ZenzScorerProof, MCZenzScorer
ProcessMutex \
DataLoader    \        <- ServerPartsProof, of the four
UserHistoryStorage /
RendererClient    /
FeedbackStore          <- FeedbackStoreProof
MCServer               SessionHandler and the last five, one part per behaviour
```

**ZenzMailbox** says what the corrector promises: a newer request overwrites a queued
one, cancelling empties both places but does not stop a running conversion, an answer is
handed out only to the generation that asks for it.

**ZenzLiveCorrector** has one step per block under `mu_` and one for every notify, join
and conversion between the blocks. `worker` and `owner` say where the two threads are;
`job` is the local request of `WorkerLoop`. `argument`, `generation`, `asked` and
`delivered` stand for the session that owns it: every submission and cancellation takes
a new generation, as `session.cc` does.

**LiveSession** is one step per command, because `SendKey` and `SendCommand` run to their
end on the server's only thread. The step is computed on a record with the session's
members (`c.s`) and the reply; the operators have the names of the methods they
translate. Text is abstract: the composition is a sequence of characters with a cursor,
a shown or committed text says *by* whom (`raw`, a Mozc value, `zenz`) *which* key was
made and what raw `tail` follows. The converter and the feedback store answer as they
like (`Answer`), Zenz succeeds, fails or is refused (`judged`). A generation is compared
for equality only; "increment" picks the least one nobody refers to, which keeps the
state space finite and is sound because every place that can hold one is looked at.
The timer is the client's: fcitx5 drops it on every key and with every reply to one
(`mozc_state.cc:121`, 361; SELECT_CANDIDATE and SUBMIT go the same way), the Windows client
keeps it until a reply brings another. RESET_CONTEXT and TURN_OFF_IME leave the timer alone;
in PRECOMPOSITION the former only discards what is pending. A behaviour picks one setting:
delays on or zero, which client, from how many characters on Zenz is asked, and what the
converter may answer.

**Selection** is what is left of a list when only the elements of a set stay: the erasing
of `LruCache`, `DataLoader` and the feedback store. It is a recursive function of its own
because `SelectSeq` of the standard module hides its definition from the prover.

**SessionHandler** is one step per command of `EvalCommand`; the clock, applications that
exit, the shared config and the engine's loader move in between. Commands that fail, and
those that change nothing of this state, are stutters. Timeouts are constants with the
values they have after clamping. `session[id].engine` is the engine data a session was
made with (two values suffice to tell old from new). `turned_back` remembers whether the
clock was altered, which is when times of use say nothing of their order.

**SessionWatchDog** adds the thread: a round judges the CPU load and the time since the
last round, sends CLEANUP and waits for the answer. A call that times out leaves its
request queued, and the server evaluates it later. A CLEANUP that shuts the server down is
answered by an empty reply, which counts as success. The machine may sleep once, the
thread may be late. Config and engine commands are left out of this composition: they
change nothing the thread looks at.

**Ipc** has the server processes from `ProcessMutex::Lock` in `MozcServer::Run` to the
end of `FinalizeSingletons`, the key file (truncated before its lock is tried, stamped in
seconds, removed by name) and the client's copy of it. A key that belongs to a process
that has ended leads nowhere (`Stale`); on Linux the socket's name is made of the key.

**Client** executes its methods with a stack of labels, because they call each other in
loops; a label is the stretch of code between two IPC calls. A call may be answered,
time out, be answered by nobody, or meet a server that dies before it reads, or before
it answers: then the client parses an empty reply, which says "no error" and session 0.
A server of another version may not end when it is told to, and its kill may fail.
Servers are spawned, start, crash, are shut down, forget sessions or are refused the
mutex between any two calls. An input is a number and a kind; `session` holds what was
typed into each session and not committed, and `shown` and `committed` what the
application saw of it.

**ZenzScorer** has any number of callers and scorer processes, and a bound on the probe
threads of one process (`Thread`; the run has three, as many as its other bounds ever
let run at once, so that this one refuses nothing there). A scorer's main thread is
a program counter through `main`, `RunServer` and `HandleClient`; probe threads run
beside it and may stop llama-server under it. `errno` is kept where the code tests it
without a failed call: the end of file of a caller that left is then read for ever
(`Spinning`). The listening socket is inherited by llama-server, so that closing it cuts
nobody off while llama-server runs; `StopLlama` does, and so does the end of the process.

**ProcessMutex** tells the file from its name: `fcntl` locks a file, `unlink` removes a
name, and between the two another process may have opened the file. One manager per
process has one descriptor per name, because closing any of them drops the lock.

**DataLoader** has the main thread between the statements of `MaybeReloadEngine` and
`StartNewDataBuildTask` and the loader's thread between its locks. `overlooked` marks the
one moment in which a request can be missed: `IsRunning` was asked after the last look of
a thread that had not ended yet.

**UserHistoryStorage** has the syncer with its load and its save in steps, and the main
thread with everything it may do meanwhile, to the destructor and the next server.
Crashes leave the file as it is. The ghosts `overlapped`, `reloaded` and `failed` are the
windows in which the code does lose something.

**FeedbackStore** is the server's append (open, then write, perhaps in part) and the
dialog's read, change and rename, on lines that may be cut. `raced` is an append that
met a rewrite.

**RendererClient** is `ExecCommand` up to the send, and the launcher's thread from spawn
to `FlushPendingCommand`; renderers come, go, or are of another version. A renderer that
is replaced goes on (`ending`) until it ends, which may be never: `ExecCommand` does not
look at what became of the kill or the SHUTDOWN. A failed launch is two steps, its status
and its count, because `ExecCommand` reads both without a lock of its own, and
`StartRenderer` may have to wait for the thread of the launch before (`join`). `excused`
says that the window may be another one for a known reason.

**MCServer** lets a behaviour choose one of six parts and leaves the others alone. They
share no state in the code either; the run checks each of them in every interleaving of
its own threads and processes.

Operators marked *Fault* are wrong variants of the definition below them (a dropped
guard, a missing reset, an off-by-one). No specification uses them. Each shows that a
property would notice that mistake: `PROJECT.json` ("mutants") says which.

Every module has a type invariant (`TypeOK` or `...TypeOK`), which is proved or part of an
inductive invariant that is, but for the one of the abstract `ZenzMailbox`. All of them
hold in the passing runs below when they are added to the INVARIANTS of the configuration.

## 3. What TLC checks

| run | bounds | shows |
|---|---|---|
| `corrector` | 2 keys, 2 outcomes, 4 generations | NoLostWakeup, ThreadMatchesFlag, DeliversOnlyTheLatest, ConvertsOnlyTheLatest; StopReturns and SubmissionIsAnswered; MailboxSpec (refinement with fairness) |
| `live_safety` | 2 characters, one of them held back, texts up to 2, 2 polls, 2 Mozc values; three settings: fcitx5, TSF, both delays zero | LiveConversionIsCurrent, PendingConversionIsCurrent, CorrectionIsCurrent, LearningIsDecided, FeedbackIsRecordedOrDiscarded, CallbackKeepsPreedit, NoTextLostWhenCurrent, OffStaysOff |
| `live_settles` | 1 character, texts up to 2, TSF with the delays on and at zero | DebouncedConversionHappens, CorrectionSettles |
| `server` | handler: 3 ids, 2 places, 2 configs, 2 requests, times 0..3, the clock turned back once. mutex: 4 objects in 3 processes, 4 files. loader: 3 requests, one of high priority, two of the same. history: 2 entries. feedback: 3 records and a TSV of 2, 2 classes, 2 uses of the dialog, 1 torn write. renderer: 2 windows, 1 error, 2 mismatches | ListMatchesTable, SessionsShareSettings, EmptyTimeMatchesTable, SessionLossHasReason; ExclusionUnlessStolen; DataIsCurrent, ResponseNotShared, PendingHasLoader; HistoryIsOnDisk; StoreMatchesHistory, RemovedStaysRemoved, TearLosesTwoAtMost; LastUpdateIsShown |
| `watchdog` | 1 session, times 0..6, one sleep, 2 pings | SleepIsNotIdleness, WatchDogEnds |
| `client` | 2 server processes, a journal of 2, 3 ids; one of: 4 inputs of 2 kinds; 2 inputs of 5 kinds and refused sessions; 2 faults; 4 versions; slow starts and ends | SavedServerIsFound, ShownIsInOrder, CommittedStaysCommitted, SessionOnCurrentVersion, EveryCallReturns |
| `scorer` | 1 caller, backlog 1, 2 retries; one of: two places, signals and one fault; one place, two faults, signals and callers that leave | ServingIsReachable, ProbingHasThread, ConvertReturns |

Why the bounds are enough. *Corrector*: four generations give a running conversion, a
queued request that supersedes it, a cancellation and a restart after Stop at once.
*Session*: two characters, one held back, give texts with and without conversion, a
stable prefix with a raw rest, and an edit in the middle. *Handler*: two places and three
ids give eviction of an older session, of one that is then asked for, and a table that
gets empty and full again. *Watch dog*: six units are a cleanup, a sleep that is longer
than two intervals, the skipped round, and the two rounds after it. *Client*: a journal
of two is full with four inputs, and full after a commit; two faults are a crash in a
replay after a crash; two processes are an old server on its way out and a new one.
*Scorer*: two processes are one that ends and one that starts; two faults are a signal
that interrupts a read and the caller that leaves in it, after which the scorer spins, the
backlog of one fills with the next call, and the one after that is blocked; two retries
are one that fails after the launch and the last. *Mutex*: two objects of one process and two other processes; four files are one
more than processes, so that there is always a new one. *Loader*: three requests are one
being loaded, one that overtakes it and one with the same fingerprint or priority.
*History*: one entry that is saved and one that is not. *Feedback*: a record before, in
and after a torn write, and two rewrites. *Renderer*: a window before and one after.

Runs that end in a violation. Each states what a comment or the README says, and TLC
shows a behaviour of the code that disagrees (`PROJECT.json`, "findings"):

| run | disagreement |
|---|---|
| `live_text_lost` | Shift+Enter commits the suggestion for an older prefix and drops the rest |
| `handler_shutdown` | the idle shutdown stops a server with active sessions |
| `watchdog_load` | a steady CPU load of 12 per cent suppresses every cleanup |
| `client_journal` | a session that is made without a replay leaves the old journal in place, and the next loss replays both |
| `renderer` | a renderer that dies after its first launch is never started again |

Where the code does lose something, the passing properties name the window and say that
there is no other:

* `NoTextLostWhenCurrent` is the part of `NoTextLost` that holds.
* `SleepIsNotIdleness`: before the first cleanup the handler has no timestamp to measure
  a sleep by, so a server's first CLEANUP that is on its way while the machine falls
  asleep counts the sleep as idle time.
* `ExclusionUnlessStolen`, `ServingIsReachable` (*stolen*): a lock file is closed and then
  removed by name; who had opened it meanwhile locks a file that has no name, and the
  next one makes another.
* `PendingHasLoader` (*overlooked*): `IsRunning` is still true between the loader's last
  look and the end of its thread, so the request that is registered then has no thread
  until the next one comes.
* `HistoryIsOnDisk`: entries learned while the syncer writes are marked as saved by its
  `needs_sync_ = false` (*overlapped*), although the destructor saves "just in case as
  the internal data may be updated while syncer thread is running"; a load replaces what
  was learned before it, or fails and leaves an empty history (*reloaded*); the last save
  may fail (*failed*).
* `StoreMatchesHistory` (*raced*): what the server appends between the dialog's read and
  its rename is lost, or goes into the removed file.
* `LastUpdateIsShown` (*excused*): while a renderer starts, the first pending command is
  kept and later ones are dropped, so the window shows an older one until the next. The
  renderer may also end, not answer in time, or be of another version while the status is
  READY or TIMEOUT: then no launcher sends the update that `ReplaceRenderer` made pending.
* `ConvertReturns` (`BlockedInConnect`): a call does not return while it connects to a
  scorer that spins on a stale `errno` with a full backlog; without that case TLC finds
  such a behaviour.

Disagreements seen while modelling that no run is about:

* A key without a binding (`DoNothing`) redraws the preedit without the correction and
  keeps it; the direct commit that follows accepts feedback for a correction the user
  does not see (README of the repository, lines 871-872).
* The IMEOff key ends a visible live correction like a conversion key does and rejects
  it (line 877-879 has it confirm the pending feedback).
* Under fcitx5 that same key without a binding drops the timer and its reply brings no
  new one: the pending conversion waits for the next key (line 689).
* A server that dies while it creates a session leaves the client with `SERVER_OK` and
  session 0, and the replies to unknown sessions carry id 0 too (`client.h:170`).
* A signal between the scorer's test of `g_shutdown_requested` and `accept` is seen after
  the next connection only (`scorer_signal_test.cc` expects the end within 5 seconds).
* `ReadAll` of the scorer tests `errno` after an end of file, which does not set it
  (`main.cc:1551`): after an interrupted call the scorer reads the end of file for ever, and
  `connect`, whose socket has no timeout yet (`zenz_named_pipe_client.cc:371`, 608), blocks
  when the backlog is full.
* Qt's renderer does not implement SHUTDOWN (`qt_window_manager.cc:595`), so one of another
  version stays; the update that met it is pending for a launch that does not come, and
  after three of them every command is dropped.
* A renderer's failure is published before it is counted (`renderer_client.cc:268`), so a
  command in between may start it once more than `kMaxErrorTimes` allows.
* `g_llama_server_ready` stays set when llama-server crashes, and nothing restarts it.
* `StartNewDataBuildTask` returns that a request "is accepted" (`data_loader.h:71`) also
  when it is overlooked as above.
* Descriptors are left open by a second trial of `IPCClient::Init` (`unix_ipc.cc:247`)
  and for a peer that is not valid (`unix_ipc.cc:436`); the models have no descriptors
  there.
* `ConfigHandler` ignores whether its file could be written (`config_handler.cc:253`).

Deadlock checking is on for `scorer`, where something can always happen, and off in the
other runs, because those systems may rest: a user who does not type, an owner that does
not call, a client that is not used, a server that was shut down.

### Fairness

* corrector: a call that has begun goes on and the worker runs when it can (threads are
  scheduled); a conversion ends (`zenz_named_pipe_client.cc` sets send and receive
  timeouts on its connection). Nothing makes the owner call; no spurious wakeup is owed.
* LiveSession: the client's timer fires (fcitx5's event loop, a Windows timer) and the
  worker is scheduled. The user owes nothing.
* SessionWatchDog: the thread's waits and calls end (each has a timeout), and a server
  that has left its loop reaches its destructor (`MozcServer::Run`).
* Client: its thread runs, every call ends (they have timeouts), and a server process
  that can go on does. Nobody has to call, crash or time out.
* ZenzScorer: the threads of every process run, llama-server has loaded its model in the
  end, and the two seconds of the throttle pass. Faults and signals do not have to happen.
* RendererClient: `ExecCommand` and the launcher's thread go on.
* The other modules have none; their properties are safety properties.

## 4. What TLAPS proves

`ZenzLiveCorrectorProof`, for every set of keys and outcomes and any number of
generations (assumptions: `MaxGeneration` is a positive number; `None` is no request and
no response):

* `InductiveInvariant`: `Spec => []IInv`. None of the properties is inductive alone:
  that the worker does not sleep through a request depends on where the owner is, that
  an answer is not late depends on the order of the generations held in the queue, the
  conversion, the stored answer and the Submit under way. `Positions` ties the two
  program counters to the shared state, `NothingNewerThanAsked` orders the generations;
  with the types, `NoLostWakeup` and `ThreadMatchesFlag` they form `IInv`. The step proof
  has one step per action.
* `TypeCorrect`, `LostWakeupFree`, `OneWorker` follow; `LatestDelivered` and
  `LatestConverted` are action properties proved from `IInv`.
* `ImplementsMailbox`: the initial state and every step map to `ZenzMailbox`, or leave it
  alone (its fairness stays with TLC).

`LiveSessionProof`, for any alphabet, text length, number of polls and set of settings
(assumptions: the bounds are positive; `None` is none of the values it stands in for;
"raw" is not what the converter calls a best candidate, `BestAssumption`; settings are
records of their fields). `LiveSessionInvariant` is `Spec => []IInv`, with

* `TextMatchesState`, `LiveMatchesText`, `PendingMatchesText`, `ZenzMatchesLive`: the
  state, the live conversion, what is pending and the correction agree with the text;
* `Decided`, `FeedbackIsAlone`: learning and accepted feedback that are withheld are of a
  text that has ended, and feedback that waits inside a text is a refusal, with no live
  conversion beside it. The last is not among the checked properties, but without it
  `LearningIsDecided` is not inductive: a conversion that starts would meet feedback;
* `MailMatches`: what the mailbox of the corrector holds under the generation the session
  waits for is about the text it waits for. Answers are matched by generation alone, so
  this rests on generations being fresh: six places can hold one, there are seven.

A handler is a chain of methods and its members are inconsistent in the middle of it.
The proof therefore says once what each method writes (the lemmas `...Writes`), takes the
chain of every handler to its end, where it is `Handled` (nothing undecided was dropped)
or `Corrected` (what was pending is discarded), and then goes from handlers to steps. The
checked properties follow: `LiveConversionStaysCurrent`, `PendingConversionStaysCurrent`,
`CorrectionStaysCurrent`, `LearningStaysDecided` are parts of the invariant;
`FeedbackIsNeverDropped`, `CallbacksKeepThePreedit`, `TextIsNeverLostWhenCurrent` and
`OffSessionStaysOff` are action properties with the same lemmas. `LiveSessionTypeOK` is
the type invariant.

`SelectionProof`: `SelectionKeeps`, for every list and every set: which elements are left
(all that may stay, `PicksAll`), in which order (`Picks` is an increasing map of places),
and that none is twice that was not; and what is left of a list to which one element was
appended (`SelectionOfAppended`). A recursive function is proved to exist
(`SelectedExists`) and reasoned about by its least counterexample (`LeastNumber`), because
the library's induction theorems cannot be instantiated here.

`SessionHandlerProof`, for any number of sessions, ids and settings, all timeouts and a
clock that may be turned back (assumptions: the ranges of the constants after clamping;
`InfinitePast` is no number):

* `InductiveInvariant` for the types of the table, `SessionsShareSettings` and
  `EmptyTimeMatchesTable` together; `SettingsAreShared` and `EmptyTimeIsRight` follow. An
  update writes every session; the engine is exchanged only when no session is left, so
  only the new one can have the new data; a deletion finds the empty time unset because
  there was a session, and sets it exactly if none is left. All this holds whoever is
  evicted, and nothing is said of the list.
* `ListFollowsTable` (`ListIInv`): every command does the same to the list and to the
  table, and the tail that makes room is in both.
* `SessionsAreLostForAReason` (`TimeIInv`): while the clock is not turned back the list is
  sorted by the time of last use, so that the tail that a full table loses was used no
  later than any other session. Without the list agreeing with the table the tail might
  name no session at all.
* `WatchDogInvariant`, of the handler with its watch dog (`DogSpec`; assumptions: at least
  one ping, `None` is no sleep): the handler's invariants hold on, no round starts while a
  CLEANUP is in the queue (`QueuedIsWaitedFor`), no time on record is inside a sleep
  (`TimesArePast`), and after a sleep that is longer than two intervals the rounds and the
  cleanups are late enough (`RoundsAfterSleep`: the first is skipped, what is sent next
  comes an interval after the sleep, a second cleanup after another). `WatchDogTypeOK`
  and `SleepIsNeverIdleness` follow, for every interval, timeout and length of the sleep.

`ServerPartsProof`, of four parts whose state is their own:

* ProcessMutex, for any processes, objects and files (assumptions: more files than
  processes, finitely many): `MutexInvariant`. One object at a time uses the descriptor
  of its process (`OneUser`, what `fdmap_` is for), the lock is that of the file it is
  open on (`LockMatchesFd`), and until a file is removed too early every descriptor is of
  the file that has the name (`FilesHaveTheName`). Two holders would then have one lock:
  `MutexExcludes`; and `MutexHeldMeansLocked`, that no other object of the process can
  have dropped a holder's lock.
* DataLoader, for any requests and priorities: `LoaderInvariant` says where the two
  threads may be together. `LoaderResponseIsNotShared` rests on `Running` being asked
  before `loader_response_` is touched by the only thread that can start a loader;
  `LoaderServesPending` on the loader ending only after a look that found nothing;
  `LoadedDataIsCurrent` (`CurrentIInv`) on `current_request_id_` being written with the
  data, or taken back with it, before the loader looks for the next request.
  `RequestsStaySorted` is the type invariant, which has the queue in it: sorted by priority,
  none twice, when requests come again or overtake others of the same priority.
* UserHistoryStorage, for any entries: `HistoryInvariant` relates memory, file, syncer and
  what the user expects: an unset `needs_sync_` means the file is up to date, a save under
  way has seen it set and writes everything, a load that drops nothing loads everything.
  `HistoryReachesDisk` and `HistoryReachesMemory` follow.
* RendererClient, for any windows and limits: `RendererInvariant` follows the last update
  from the command through the pending place to the screen (`UpdateIsSomewhere`,
  `UpdateWaits`, and `EndingIsOld`: only a renderer of another version is on its way out)
  and counts errors and kills (`FewErrors`, `ErrorsAreCounted`). `RendererShowsLastUpdate`,
  `RendererLaunchIsWatched` (commands are held back exactly while there is a launcher) and
  `RendererIsGivenUp` (renderers that keep ending, or keep coming back in another version,
  are neither started nor killed for ever) follow. The bound of the latter is
  `kMaxErrorTimes + 2`: one failure is counted beyond the limit because the test is `<=`, and
  one more for a command that saw the status before the count.

`ZenzScorerProof`, for any number of scorers, callers, probe threads and faults
(assumptions: the bounds are numbers, 0 is no thread): `ScorerInvariant`. Until a lock is
stolen, whoever is past the lock holds that of the file at the path and whoever serves
has the socket (`LockIsHeld`), which is what makes it safe to remove a socket left
behind: `ScorerIsReachable`. A set probe flag has a thread that will clear it
(`ProbingIsCleared`): not one that is past its own clearing, because another probe may
have set the flag since; `ProbingAlwaysHasThread` follows. `CallsInvariant` is about the
connections: `HeldAtOnePlace` says that a caller is connected to a process exactly if that
process serves it or has it in its queue, once; `FitsItsPlace` says which connections a
main thread can have where it is: one that is past its loop serves nobody, and one that is
past `StopLlama` has nobody in its queue. A caller that
waits is therefore never forgotten (`NoCallIsForgotten`), whoever crashes, is signalled or
leaves; that it is answered or cut off in the end is `ConvertReturns`, which TLC checks.
`ScorerTypeCorrect` is the type invariant.

`FeedbackStoreProof`, for any values, classes and imports, any number of records and
edits (assumptions: "garbled" is no value; the records of a file to import are intact,
have ids of their own and one record per id; ids only tell records apart and are not in
the file):

* `StoreIsTheHistory` (`MatchIInv`): without races and torn writes the file is what was
  decided, line by line, and what the dialog is about to write is what the user should
  then have. This is where an append while the dialog is open would break it, and `raced`
  says so.
* `RemovedIsNotBack` (`RemovedIInv`), with races and torn writes: an id has one key (value
  and class) wherever it is stored, but for a value that was cut (`KeysAgree`), the id
  under way is nobody's (`WriterIsNew`), and what the dialog holds was read after every
  earlier removal (`RemovedIsGone`). Only the dialog removes, so what it writes has
  nothing that was removed before.
* `TearsLoseTwoAtMost` (`TearIInv`), with torn writes: a count is not inductive, because a
  deletion hits several records, or one that was imported twice. The invariant is a
  matching: all but so many of the records the user has are in the file, each at a place
  of its own (`Survive`). A deletion takes the same records from both sides, an append adds
  one to each, a torn write leaves its own unmatched and, while the line it left has no
  end, one more is still to come (2 * tears - 1 until then).
* `FeedbackTypeCorrect` is the type invariant.

`ClientProof`, for any places for servers, any sessions, any bounds on inputs, faults and
the journal, and any kinds of inputs (assumptions: there are finitely many places, and one
at least; at least three session ids, because a session that was forgotten must not come
back under the id the client still holds; "same" is a version). `ClientInvariant` is
`ClientSpec => []ClientIInv`, in three layers:

* `World`: whoever serves holds the mutex (`OneServer`); a key that names a process was
  written by it, with its version (`KeysAreTrue`); the key file is the serving process's
  unless it was removed (`FileOfServer`); sessions live only while somebody serves. This
  layer knows nothing of the client: every step of a server and every way a call can go
  keeps it, so `OneServerServes` and `SavedServersAreFound` rest on it alone.
* `Nested`: which label may be called from which. A client's stack is several loops deep
  when it restarts a server within a version check within the restoring of a session;
  `Inputting` and `Restoring` read off it whether an input is under way and whether the
  replay is still to come.
* the journal: its inputs are in the order of typing and, unless it was cut off, what its
  replay may leave in a composition (`Alive`) was not committed (`JournalIsOver`); and
  what the session holds, for each label: nothing from its creation to the replay
  (`NewSessionIsEmpty`), what was replayed up to then during it (`ReplayIsInOrder`), what
  may be shown whenever the status is OK (`GoodSessionHolds`). A replay that fails half
  way leaves a session with a part of the text; it does no harm because its server cannot
  be reached any more.

`ShownStaysInOrder`, `CommittedTextStays` and `SessionsAreOfCurrentVersion` follow from the
third layer, `ClientTypeCorrect` is the type invariant.

Proving found one thing in the models: three operators (`Loaded`, `Typed`,
`PushHistory`) chose among overlapping cases with CASE, whose choice is then undetermined
although TLC takes the first. They are written with IF now.

Only model-checked:

* liveness and everything that needs ENABLED (StopReturns, SubmissionIsAnswered, the
  fairness half of the refinement, DebouncedConversionHappens, CorrectionSettles,
  WatchDogEnds, EveryCallReturns, ConvertReturns), which is beyond the prover.

Every invariant and every action property of the passing runs is stated by a theorem.

## 5. Plan

Done: the corrector with its abstract specification and proofs; live conversion,
correction, feedback and learning; the session handler and the watch dog; the client
library with IPC; the scorer and its client; process mutex, data loader, history storage,
renderer client and the feedback file. All of them have their safety proved.

Next, in this order:

1. What `Decide` and `GetRankedCandidates` make of the feedback records, and with them
   LiveSession's free choice of a feedback answer.
2. LiveSession: undo stack, input modes, SUBMIT_CANDIDATE and HIGHLIGHT_CANDIDATE.
3. `LruStorage` and `LruCache` as data structures of their own, with a reference
   definition of least-recently-used order.
4. The config handler's files; the predictor's Finish and Revert on the history.
5. Composer editing and mode switching as pure operators.

## 6. Not modelled, and why

* Of Session: undo, direct and ASCII input styles, password fields, Shift-ASCII commits,
  auto conversion, `CommitHead`, candidate shortcuts, SUBMIT_CANDIDATE,
  HIGHLIGHT_CANDIDATE, the preedit kept after a cancelled reranking, input modes, romaji
  that turns punctuation into another character. They do not touch the state the
  properties are about, or are planned.
* Privacy rules, prompt building, context sanitizing and output validation: rules over
  Japanese text; their verdict is a free choice.
* Of the feedback store: the escaping of its fields, and how records are weighed.
* Of Client: preferences, snapshots of the context, tools and dialogs; of IPC: bytes,
  peer checks, descriptors, Windows and macOS; of the scorer: frames, HTTP, the named
  pipe of Windows, the language model.
* Lattice search, dictionaries, rewriters: numeric search over large data; their results
  are free choices.
* One history storage lives at a time in `UserHistoryStorage`; `ReloadModules` makes the
  new one, which starts to load, before the old one saves (`engine.cc:109`).
* Durations: how long a call, a poll or a shutdown takes. The models have every order of
  events instead. That LOG(FATAL) in the watch dog can come before a slow shutdown ends is
  therefore listed as a hazard without a property.
* GUI tools, platform glue, build tools and data: drawing, operating system interfaces,
  generated files.
