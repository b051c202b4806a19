--------------------------- MODULE SessionHandler ---------------------------
(***************************************************************************)
(* session/session_handler.cc: the server's table of sessions, its LRU     *)
(* order, the settings shared by all sessions, the engine they run on and  *)
(* the three timestamps that decide about creation, cleanup and shutdown.  *)
(*                                                                         *)
(* EvalCommand runs one command at a time, so a command is one step.  The  *)
(* clock, the applications that own sessions, the engine's loader and the  *)
(* shared config move in between.                                          *)
(*                                                                         *)
(* session_map_ is a storage/lru_cache.h: its hash table is the function   *)
(* session, its linked list the sequence lru with the head first.          *)
(***************************************************************************)
EXTENDS Integers, FiniteSets, Sequences, SequencesExt, Selection

CONSTANTS
    SessionID,         \* ids a client can hold
    MaxSessionSize,    \* max_session_size_
    Config,            \* contents of the shared config
    Request,           \* contents of a SET_REQUEST
    Interval,          \* session_watch_dog_->interval()
    MinInterval,       \* create_session_min_interval
    CreateTimeout,     \* last_create_session_timeout
    CommandTimeout,    \* last_command_timeout
    Timeout,           \* timeout; 0 when it is not enabled
    MaxTime,           \* bound: the clock
    InfinitePast       \* absl::InfinitePast()

Time == 0 .. MaxTime

ASSUME SizeAssumption == MaxSessionSize \in 2 .. 128
ASSUME TimeoutAssumption ==
    /\ Interval \in Nat \ {0} /\ MinInterval \in Nat
    /\ CreateTimeout \in Nat \ {0} /\ CommandTimeout \in Nat \ {0}
    /\ Timeout \in Nat /\ MaxTime \in Nat
ASSUME PastAssumption == InfinitePast \notin Int

VARIABLES
    now,                        \* Clock::GetAbslTime(),
    turned_back,                \*   and whether the user has turned it back
    session,                    \* session_map_: the sessions by id,
    lru,                        \*   most recently used first
    config,                     \* config_
    request,                    \* request_
    shared_config,              \* ConfigHandler::GetSharedConfig()
    engine,                     \* the data engine_ runs on
    loaded,                     \* loader_response_: newer data is ready
    is_available,               \* is_available_
    last_session_empty_time,    \* last_session_empty_time_
    last_cleanup_time,          \* last_cleanup_time_
    last_create_session_time    \* last_create_session_time_

settings == <<config, request, shared_config>>
data == <<engine, loaded>>
stamps == <<last_session_empty_time, last_cleanup_time, last_create_session_time>>
clock == <<now, turned_back>>
vars == <<clock, session, lru, settings, data, is_available, stamps>>

\* A session: its settings, the engine data it was made with, when it was last
\* used (at: create_session_time until the first command, last_command_time
\* after it) and whether its application runs.
Session == [config : Config, request : Request, engine : BOOLEAN,
            at : Time, used : BOOLEAN, alive : BOOLEAN]

Ids == DOMAIN session

Init ==
    /\ now = 0 /\ turned_back = FALSE
    /\ session = << >> /\ lru = << >>
    /\ \E c \in Config : config = c /\ shared_config = c
    /\ request \in Request
    /\ engine = FALSE /\ loaded = FALSE
    /\ is_available = TRUE
    /\ last_session_empty_time = 0
    /\ last_cleanup_time = InfinitePast
    /\ last_create_session_time = InfinitePast

-----------------------------------------------------------------------------
\* Fault: the entry is pushed without leaving its place.
PushLRUTwice(list, id) == <<id>> \o list

\* storage/lru_cache.h
Evict(list, ids) == Selection(list, SessionID \ ids)
PushLRUHead(list, id) == <<id>> \o Evict(list, {id})

\* What is left of the table.
Without(ids) == [id \in Ids \ ids |-> session[id]]

\* current_time - t >= d
Passed(t, d) == t = InfinitePast \/ now - t >= d

\* Fault: settings reach only the sessions that have been used.
UpdateUsedSessions(sessions, c, r) ==
    [id \in DOMAIN sessions |->
        IF sessions[id].used THEN [sessions[id] EXCEPT !.config = c, !.request = r]
                             ELSE sessions[id]]

\* UpdateSessions: every session gets the settings.
UpdateSessions(sessions, c, r) ==
    [id \in DOMAIN sessions |-> [sessions[id] EXCEPT !.config = c, !.request = r]]

\* Fault: becoming empty leaves no timestamp.
KeepEmptyTime(left) == last_session_empty_time

\* DeleteSessionID notes when the last session goes.
EmptyTime(left) ==
    IF last_session_empty_time = InfinitePast /\ left = {}
    THEN now ELSE last_session_empty_time

\* MutableTail: the least recently used session.
MutableTail(list) == Last(list)

\* MaybeReloadEngine: only without sessions.
ReloadsEngine(left) == left = {} /\ loaded

\* An interval is negative after the clock was turned back, and then ignored.
TooSoon ==
    /\ last_create_session_time # InfinitePast
    /\ now - last_create_session_time \in 0 .. MinInterval - 1

\* CREATE_SESSION: refused too soon after the last one; a full table loses its
\* oldest session; the engine is reloaded if nobody uses it.
CreateSession(id) ==
    LET evicted == IF Cardinality(Ids) >= MaxSessionSize
                   THEN {MutableTail(lru)} ELSE {}
        left == Ids \ evicted
        reloads == ReloadsEngine(left)
        new == [config |-> shared_config, request |-> request,
                engine |-> (engine # reloads), at |-> now, used |-> FALSE,
                alive |-> TRUE]
        sessions == [i \in left \cup {id} |-> IF i = id THEN new ELSE session[i]]
    IN  /\ is_available
        /\ id \notin left
        /\ ~TooSoon
        /\ last_create_session_time' = now
        /\ engine' = (engine # reloads)
        /\ loaded' = (loaded /\ ~reloads)
        /\ config' = shared_config
        /\ session' = UpdateSessions(sessions, shared_config, request)
        /\ lru' = <<id>> \o Evict(lru, evicted)
        /\ last_session_empty_time' = InfinitePast
        /\ UNCHANGED <<clock, request, shared_config, is_available, last_cleanup_time>>

\* DELETE_SESSION
DeleteSession(id) ==
    /\ is_available
    /\ id \in Ids
    /\ session' = Without({id})
    /\ lru' = Evict(lru, {id})
    /\ last_session_empty_time' = EmptyTime(Ids \ {id})
    /\ UNCHANGED <<clock, settings, data, is_available, last_cleanup_time,
                   last_create_session_time>>

\* Fault: the command does not move its session to the front.
LookupInPlace(list, id) == list

\* MutableLookup
MutableLookup(list, id) == PushLRUHead(list, id)

Used(id) == [session EXCEPT ![id].at = now, ![id].used = TRUE]

\* TEST_SEND_KEY, and SEND_KEY and SEND_COMMAND whose reply has no config.
TestSendKey(id) ==
    /\ is_available
    /\ id \in Ids
    /\ lru' = MutableLookup(lru, id)
    /\ session' = Used(id)
    /\ UNCHANGED <<clock, settings, data, is_available, stamps>>

\* SEND_KEY and SEND_COMMAND whose reply has a config: MaybeUpdateConfig makes
\* it everybody's.
SendKey(id, c) ==
    /\ is_available
    /\ id \in Ids
    /\ lru' = MutableLookup(lru, id)
    /\ shared_config' = c /\ config' = c
    /\ session' = UpdateSessions(Used(id), c, request)
    /\ UNCHANGED <<clock, request, data, is_available, stamps>>

\* SET_CONFIG; RELOAD, RELOAD_AND_WAIT and GET_CONFIG take up what the shared
\* config has become.
SetConfig(c) ==
    /\ is_available
    /\ shared_config' = c /\ config' = c
    /\ session' = UpdateSessions(session, c, request)
    /\ UNCHANGED <<clock, lru, request, data, is_available, stamps>>
Reload == SetConfig(shared_config)

SetRequest(r) ==
    /\ is_available
    /\ request' = r
    /\ config' = shared_config
    /\ session' = UpdateSessions(session, shared_config, r)
    /\ UNCHANGED <<clock, lru, shared_config, data, is_available, stamps>>

\* SHUTDOWN: the server stays, but evaluates nothing any more.
Shutdown ==
    /\ is_available
    /\ is_available' = FALSE
    /\ UNCHANGED <<clock, session, lru, settings, data, stamps>>

\* How long the machine slept since the last cleanup.
SuspendTime ==
    IF last_cleanup_time # InfinitePast /\ now - last_cleanup_time > 2 * Interval
    THEN now - last_cleanup_time - Interval ELSE 0

Outdated(s) ==
    \/ ~s.alive
    \/ now - s.at >= SuspendTime + (IF s.used THEN CommandTimeout ELSE CreateTimeout)

\* CLEANUP
Cleanup ==
    LET removed == {id \in Ids : Outdated(session[id])}
        empty_time == IF removed = {} THEN last_session_empty_time
                                      ELSE EmptyTime(Ids \ removed)
    IN  /\ is_available
        /\ session' = Without(removed)
        /\ lru' = Evict(lru, removed)
        /\ last_session_empty_time' = empty_time
        /\ is_available' = ~(Timeout > 0 /\ Passed(empty_time, SuspendTime + Timeout))
        /\ last_cleanup_time' = now
        /\ UNCHANGED <<clock, settings, data, last_create_session_time>>

-----------------------------------------------------------------------------
\* Surroundings
Tick ==
    /\ now < MaxTime
    /\ now' = now + 1
    /\ UNCHANGED <<turned_back, session, lru, settings, data, is_available, stamps>>

\* Bound: once.
TurnClockBack ==
    /\ ~turned_back
    /\ turned_back' = TRUE
    /\ \E t \in Time : t < now /\ now' = t
    /\ UNCHANGED <<session, lru, settings, data, is_available, stamps>>

ApplicationExits(id) ==
    /\ id \in Ids /\ session[id].alive
    /\ session' = [session EXCEPT ![id].alive = FALSE]
    /\ UNCHANGED <<clock, lru, settings, data, is_available, stamps>>

\* The shared config changes behind the handler's back.
ConfigChanges(c) ==
    /\ c # shared_config
    /\ shared_config' = c
    /\ UNCHANGED <<clock, session, lru, config, request, data, is_available, stamps>>

\* SEND_ENGINE_RELOAD_REQUEST has built newer data.
EngineLoaded ==
    /\ ~loaded
    /\ loaded' = TRUE
    /\ UNCHANGED <<clock, session, lru, settings, engine, is_available, stamps>>

Client ==
    \/ \E id \in SessionID :
          CreateSession(id) \/ DeleteSession(id) \/ TestSendKey(id)
    \/ \E id \in SessionID, c \in Config : SendKey(id, c)
    \/ \E c \in Config : SetConfig(c)
    \/ Reload
    \/ \E r \in Request : SetRequest(r)
    \/ Shutdown

Surroundings ==
    \/ Tick \/ TurnClockBack
    \/ \E id \in SessionID : ApplicationExits(id)
    \/ \E c \in Config : ConfigChanges(c)
    \/ EngineLoaded

Next == Client \/ Cleanup \/ Surroundings

Spec == Init /\ [][Next]_vars

-----------------------------------------------------------------------------
\* Types of everything but the LRU list.
TableTypeOK ==
    /\ now \in Time /\ turned_back \in BOOLEAN
    /\ Ids \subseteq SessionID
    /\ session \in [Ids -> Session]
    /\ config \in Config /\ shared_config \in Config /\ request \in Request
    /\ engine \in BOOLEAN /\ loaded \in BOOLEAN /\ is_available \in BOOLEAN
    /\ last_session_empty_time \in Time \cup {InfinitePast}
    /\ last_cleanup_time \in Time \cup {InfinitePast}
    /\ last_create_session_time \in Time \cup {InfinitePast}
TypeOK == TableTypeOK /\ lru \in Seq(SessionID)

\* The LRU list and the hash table of session_map_ name the same sessions, each
\* once, and never more than max_session_size_ of them.
ListMatchesTable ==
    /\ Range(lru) = Ids
    /\ IsInjective(lru)
    /\ Cardinality(Ids) <= MaxSessionSize

\* However often settings change, and whoever changes them, all sessions have
\* the handler's config and request, and run on the engine it runs on now.
SessionsShareSettings ==
    \A id \in Ids :
        /\ session[id].config = config
        /\ session[id].request = request
        /\ session[id].engine = engine

\* last_session_empty_time_ is InfinitePast exactly while there are sessions:
\* creation, eviction, deletion and cleanup keep it in step with the table.
EmptyTimeMatchesTable ==
    last_session_empty_time = InfinitePast <=> Ids # {}

\* A client loses its session only if it deletes it, if its application is gone
\* or it was left alone for its timeout, or if the table was full and every
\* other session was used no earlier (as far as an altered clock can tell).
SessionLossHasReason ==
    [][\A id \in Ids \ DOMAIN session' :
          \/ DeleteSession(id)
          \/ Cleanup /\ (\/ ~session[id].alive
                         \/ ~session[id].used /\ now - session[id].at >= CreateTimeout
                         \/ now - session[id].at >= CommandTimeout)
          \/ /\ Cardinality(Ids) = MaxSessionSize
             /\ turned_back \/ \A other \in Ids : session[id].at <= session[other].at
             /\ \E new \in SessionID : CreateSession(new)]_vars

\* "shutdown server if there is no active session": unless a client asks for it,
\* the server stops only when the last session is gone.
ShutdownOnlyWhenEmpty ==
    [][is_available /\ ~is_available' => Shutdown \/ DOMAIN session' = {}]_vars
=============================================================================
