----------------------------- MODULE DataLoader -----------------------------
\* How the server gets new language data (engine/data_loader.cc, engine/engine.cc):
\* the main thread registers requests and swaps the engine's modules, a thread
\* loads the request with the best priority until none is left and hands the
\* modules over in loader_response_, which no lock protects.
EXTENDS Naturals, Sequences, FiniteSets, SequencesExt, Selection

CONSTANTS
    DataRequest,    \* requests for data, as their fingerprints
    Priority,       \* the priority of each: less is better
    HighPriority    \* kHighPriority
ASSUME LoaderAssumption ==
    /\ Priority \in [DataRequest -> Nat] /\ HighPriority \in Nat
    /\ "none" \notin DataRequest

VARIABLES
    requests,           \* requests_, best first
    unregistered,       \* unregistered_
    current_request,    \* current_request_id_
    asked,              \* the request of StartNewDataBuildTask
    notified,           \* high_priority_data_registered_
    loader,             \* where the loader's thread is
    taken,              \* the request it has taken
    main,               \* where the main thread is
    loader_response,    \* the request whose modules wait in loader_response_
    modules,            \* the request whose modules the engine uses
    overlooked          \* the loader had looked for the last time when IsRunning was asked

loaderVars == <<requests, unregistered, current_request, asked, notified, loader, taken, main,
                loader_response, modules, overlooked>>

Data == DataRequest \cup {"none"}
LoaderTypeOK ==
    /\ requests \in Seq(DataRequest) /\ unregistered \subseteq DataRequest
    /\ \A i, j \in DOMAIN requests :
         i < j => requests[i] # requests[j] /\ Priority[requests[i]] <= Priority[requests[j]]
    /\ {current_request, asked, taken, loader_response, modules} \subseteq Data
    /\ notified \in BOOLEAN /\ overlooked \in BOOLEAN
    /\ loader \in {"none", "look", "wait", "build", "callback", "report", "end"}
    /\ main \in {"idle", "notify", "schedule", "reload"}

LoaderInit ==
    /\ requests = << >> /\ unregistered = {} /\ current_request = "none"
    /\ asked = "none" /\ notified = FALSE /\ loader = "none" /\ taken = "none"
    /\ main = "idle" /\ loader_response = "none" /\ modules = "none"
    /\ overlooked = FALSE

\* load_.IsRunning
Running == loader # "none"
Pending == requests # << >> /\ Head(requests) # current_request

-----------------------------------------------------------------------------
\* The sorted requests with r as the newest: before its equals.
Prioritized(r) ==
    LET others == Selection(requests, DataRequest \ {r})
        better == {q \in DataRequest : Priority[q] < Priority[r]}
    IN  Selection(others, better) \o <<r>> \o Selection(others, DataRequest \ better)

\* StartNewDataBuildTask: RegisterRequest ...
Register(r) ==
    /\ main = "idle"
    /\ r # current_request /\ r \notin unregistered
    /\ requests' = Prioritized(r)
    /\ asked' = r
    /\ main' = (IF Head(Prioritized(r)) # current_request THEN "notify" ELSE "idle")
    /\ UNCHANGED <<unregistered, current_request, notified, loader, taken, loader_response,
                   modules, overlooked>>

\* ... a notice that the first request of high priority is there ...
Notify ==
    /\ main = "notify"
    /\ notified' = (notified \/ Priority[asked] <= HighPriority)
    /\ main' = "schedule"
    /\ UNCHANGED <<requests, unregistered, current_request, asked, loader, taken,
                   loader_response, modules, overlooked>>

\* ... and a new thread unless one is running.
Schedule ==
    /\ main = "schedule"
    /\ loader' = (IF Running THEN loader ELSE "look")
    /\ overlooked' = (loader = "end")
    /\ main' = "idle"
    /\ UNCHANGED <<requests, unregistered, current_request, notified, asked, taken,
                   loader_response, modules>>

\* Fault: the response is taken whether or not the loader runs.
MayReloadAlways == loader_response # "none"

\* MaybeReloadEngine: without an engine it waits for the loader first.
MayReload == ~Running /\ loader_response # "none"

MaybeReloadEngine ==
    /\ main = "idle" /\ MayReload
    /\ main' = "reload"
    /\ UNCHANGED <<asked, requests, unregistered, current_request, notified, loader, taken,
                   loader_response, modules, overlooked>>

ReloadModules ==
    /\ main = "reload"
    /\ modules' = loader_response /\ loader_response' = "none"
    /\ main' = "idle"
    /\ UNCHANGED <<asked, requests, unregistered, current_request, notified, loader, taken,
                   overlooked>>

-----------------------------------------------------------------------------
\* StartReloadLoop: GetPendingRequestData.
Look ==
    /\ loader = "look"
    /\ IF Pending THEN taken' = Head(requests) /\ loader' = (IF notified THEN "build" ELSE "wait")
                  ELSE taken' = "none" /\ loader' = "end"
    /\ UNCHANGED <<asked, requests, unregistered, current_request, notified, main,
                   loader_response, modules, overlooked>>

\* Up to 100 ms for a request of high priority, which may come and may not.
WaitForHighPriority ==
    /\ loader = "wait"
    /\ loader' \in {"build"} \cup {l \in {"look"} : notified}
    /\ UNCHANGED <<asked, requests, unregistered, current_request, notified, taken, main,
                   loader_response, modules, overlooked>>

\* Fault: a request that fails ends the loop.
BuildOrEnd ==
    /\ loader = "build"
    /\ \/ loader' = "callback" /\ UNCHANGED <<requests, unregistered>>
       \/ /\ requests' = Selection(requests, DataRequest \ {taken})
          /\ unregistered' = unregistered \cup (Range(requests) \cap {taken})
          /\ loader' = "end"
    /\ UNCHANGED <<asked, current_request, notified, taken, main, loader_response, modules, overlooked>>

\* BuildResponse, from a file that may be missing or broken; ReportLoadFailure.
Build ==
    /\ loader = "build"
    /\ \/ loader' = "callback" /\ UNCHANGED <<requests, unregistered>>
       \/ /\ requests' = Selection(requests, DataRequest \ {taken})
          /\ unregistered' = unregistered \cup (Range(requests) \cap {taken})
          /\ loader' = "look"
    /\ UNCHANGED <<asked, current_request, notified, taken, main, loader_response, modules, overlooked>>

\* The callback of SendEngineReloadRequest.
Callback ==
    /\ loader = "callback"
    /\ loader_response' = taken /\ loader' = "report"
    /\ UNCHANGED <<asked, requests, unregistered, current_request, notified, taken, main, modules,
                   overlooked>>

\* Fault: the request that is first now is taken for the one that was loaded.
ReportFirst ==
    /\ loader = "report"
    /\ current_request' = Head(requests) /\ loader' = "look"
    /\ UNCHANGED <<asked, requests, unregistered, notified, taken, main, loader_response, modules,
                   overlooked>>

\* ReportLoadSuccess
Report ==
    /\ loader = "report"
    /\ current_request' = taken /\ loader' = "look"
    /\ UNCHANGED <<asked, requests, unregistered, notified, taken, main, loader_response, modules,
                   overlooked>>

\* The thread's function has returned, and its future becomes ready.
End ==
    /\ loader = "end"
    /\ loader' = "none"
    /\ UNCHANGED <<asked, requests, unregistered, current_request, notified, taken, main,
                   loader_response, modules, overlooked>>

LoaderStep == Look \/ WaitForHighPriority \/ Build \/ Callback \/ Report \/ End
MainStep == Notify \/ Schedule \/ ReloadModules
LoaderNext ==
    \/ \E r \in DataRequest : Register(r)
    \/ MaybeReloadEngine \/ MainStep \/ LoaderStep

LoaderSpec == LoaderInit /\ [][LoaderNext]_loaderVars
-----------------------------------------------------------------------------
\* When the loader rests, the data that the engine uses, or will at its next
\* MaybeReloadEngine, is the data current_request_id_ names, which decides
\* whether the next request is refused: whatever was registered while it loaded.
DataIsCurrent ==
    ~Running => current_request = (IF loader_response # "none" THEN loader_response ELSE modules)

\* The callback never writes loader_response_ while MaybeReloadEngine moves it
\* away: no lock keeps them apart, only the order of IsRunning and Schedule.
ResponseNotShared == ~(main = "reload" /\ Running)

\* A request that is due has a thread that will still look for it, or the main
\* thread is about to start one: through failing files and requests that overtake
\* each other, unless IsRunning was asked between the last look and the end.
PendingHasLoader ==
    Pending => \/ loader \notin {"none", "end"}
               \/ main \in {"notify", "schedule"}
               \/ overlooked
=============================================================================
