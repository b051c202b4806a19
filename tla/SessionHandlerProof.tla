------------------------ MODULE SessionHandlerProof ------------------------
(***************************************************************************)
(* Proofs about SessionHandler for every number of sessions, clients and   *)
(* settings, all timeouts and any clock: the sessions follow the handler's *)
(* settings and engine, last_session_empty_time_ follows the table, so     *)
(* does the LRU list, and no session is lost without a reason.             *)
(*                                                                         *)
(* The list only decides who is evicted.  The first two results hold       *)
(* whoever that is, and their proof leaves it open; the others rest on     *)
(* what Selection returns, and need of the first only the types.           *)
(*                                                                         *)
(* Then about SessionWatchDog, whose thread sends the cleanups: sleep is   *)
(* not taken for idleness.                                                 *)
(***************************************************************************)
EXTENDS SessionWatchDog, SelectionProof, FiniteSetTheorems

\* The two results need each other's types: what a cleanup writes depends on
\* the time, and what an update writes on the shape of a session.
IInv == TableTypeOK /\ SessionsShareSettings /\ EmptyTimeMatchesTable

\* The initial state: no session, and the empty time is set.
LEMMA InitHasIInv == Init => IInv
<1> SUFFICES ASSUME Init PROVE IInv
  OBVIOUS
<1>1. 0 \in Time /\ 0 # InfinitePast
  BY TimeoutAssumption, PastAssumption DEF Time
<1>2. Ids = {}
  BY DEF Init, Ids
<1>3. session \in [Ids -> Session]
  BY <1>2 DEF Init
<1>4. TableTypeOK
  BY <1>1, <1>2, <1>3 DEF Init, TableTypeOK
<1> QED
  BY <1>1, <1>2, <1>4 DEF Init, IInv, SessionsShareSettings, EmptyTimeMatchesTable

\* UpdateSessions writes the settings and nothing else of a session.
LEMMA UpdateSessionsWrites ==
    ASSUME NEW ids, NEW sessions \in [ids -> Session], NEW c \in Config, NEW r \in Request
    PROVE  /\ UpdateSessions(sessions, c, r) \in [ids -> Session]
           /\ DOMAIN UpdateSessions(sessions, c, r) = ids
           /\ \A id \in ids :
                 /\ UpdateSessions(sessions, c, r)[id].config = c
                 /\ UpdateSessions(sessions, c, r)[id].request = r
                 /\ UpdateSessions(sessions, c, r)[id].engine = sessions[id].engine
                 /\ UpdateSessions(sessions, c, r)[id].at = sessions[id].at
  BY DEF UpdateSessions, Session

\* The sessions that are left keep their settings.
LEMMA WithoutKeeps ==
    ASSUME TableTypeOK, NEW ids
    PROVE  /\ Without(ids) \in [Ids \ ids -> Session]
           /\ DOMAIN Without(ids) = Ids \ ids
           /\ \A id \in Ids \ ids : Without(ids)[id] = session[id]
  BY DEF TableTypeOK, Without

\* The empty time after sessions were removed: set exactly if none is left.
LEMMA EmptyTimeFollows ==
    ASSUME TableTypeOK, EmptyTimeMatchesTable, NEW removed \in SUBSET Ids, removed # {}
    PROVE  /\ EmptyTime(Ids \ removed) \in Time \cup {InfinitePast}
           /\ EmptyTime(Ids \ removed) = InfinitePast <=> Ids \ removed # {}
<1>1. now # InfinitePast
  BY PastAssumption DEF TableTypeOK, Time
<1>2. last_session_empty_time = InfinitePast
  BY DEF EmptyTimeMatchesTable
<1> QED
  BY <1>1, <1>2 DEF EmptyTime, TableTypeOK

\* A command of a client.
LEMMA ClientKeepsIInv == ASSUME IInv, Client PROVE IInv'
<1>1. ASSUME NEW id \in SessionID, CreateSession(id) PROVE IInv'
  <2> DEFINE evicted == IF Cardinality(Ids) >= MaxSessionSize
                        THEN {MutableTail(lru)} ELSE {}
             left == Ids \ evicted
             reloads == ReloadsEngine(left)
             new == [config |-> shared_config, request |-> request,
                     engine |-> (engine # reloads), at |-> now, used |-> FALSE,
                     alive |-> TRUE]
             sessions == [i \in left \cup {id} |-> IF i = id THEN new ELSE session[i]]
  <2>1. /\ session' = UpdateSessions(sessions, shared_config, request)
        /\ engine' = (engine # reloads)
        /\ loaded' = (loaded /\ ~reloads)
        /\ config' = shared_config
        /\ last_create_session_time' = now
        /\ last_session_empty_time' = InfinitePast
        /\ UNCHANGED <<clock, request, shared_config, is_available, last_cleanup_time>>
    BY <1>1 DEF CreateSession
  <2>2. reloads \in BOOLEAN /\ (reloads => left = {})
    BY DEF ReloadsEngine, IInv, TableTypeOK
  <2> HIDE DEF evicted, reloads
  <2>3. new \in Session
    BY <2>2 DEF IInv, TableTypeOK, Session
  <2>4. sessions \in [left \cup {id} -> Session]
    BY <2>3 DEF IInv, TableTypeOK
  <2>5. \A i \in left \cup {id} : sessions[i].engine = engine'
    BY <2>1, <2>2 DEF IInv, TableTypeOK, SessionsShareSettings
  <2> HIDE DEF sessions, left
  <2>6. /\ session' \in [left \cup {id} -> Session]
        /\ DOMAIN session' = left \cup {id}
        /\ \A i \in left \cup {id} : /\ session'[i].config = config'
                                     /\ session'[i].request = request'
                                     /\ session'[i].engine = engine'
    BY <2>1, <2>4, <2>5, UpdateSessionsWrites DEF IInv, TableTypeOK
  <2>7. left \subseteq SessionID
    BY DEF left, IInv, TableTypeOK
  <2>8. TableTypeOK'
    BY <2>1, <2>2, <2>6, <2>7 DEF IInv, TableTypeOK, Ids, clock
  <2>9. SessionsShareSettings' /\ EmptyTimeMatchesTable'
    BY <2>1, <2>6 DEF SessionsShareSettings, EmptyTimeMatchesTable, Ids
  <2> QED
    BY <2>8, <2>9 DEF IInv
<1>2. ASSUME NEW id \in SessionID, DeleteSession(id) PROVE IInv'
  <2>1. /\ {id} \in SUBSET Ids /\ {id} # {}
        /\ session' = Without({id})
        /\ last_session_empty_time' = EmptyTime(Ids \ {id})
        /\ UNCHANGED <<clock, settings, data, is_available, last_cleanup_time,
                       last_create_session_time>>
    BY <1>2 DEF DeleteSession
  <2>2. /\ session' \in [Ids \ {id} -> Session]
        /\ DOMAIN session' = Ids \ {id}
        /\ \A i \in Ids \ {id} : session'[i] = session[i]
    BY <2>1, WithoutKeeps DEF IInv
  <2>3. Ids' = Ids \ {id}
    BY <2>2 DEF Ids
  <2>4. /\ last_session_empty_time' \in Time \cup {InfinitePast}
        /\ last_session_empty_time' = InfinitePast <=> Ids' # {}
    BY <2>1, <2>3, EmptyTimeFollows DEF IInv
  <2> QED
    BY <2>1, <2>2, <2>3, <2>4 DEF IInv, TableTypeOK, SessionsShareSettings,
                            EmptyTimeMatchesTable, settings, data, clock
<1>3. ASSUME NEW id \in SessionID, IInv, id \in Ids
      PROVE  /\ Used(id) \in [Ids -> Session]
             /\ \A i \in Ids : /\ Used(id)[i].config = session[i].config
                               /\ Used(id)[i].request = session[i].request
                               /\ Used(id)[i].engine = session[i].engine
  BY <1>3 DEF Used, IInv, TableTypeOK, Session
<1>4. ASSUME NEW id \in SessionID, TestSendKey(id) PROVE IInv'
  <2>1. /\ id \in Ids /\ session' = Used(id)
        /\ UNCHANGED <<clock, settings, data, is_available, stamps>>
    BY <1>4 DEF TestSendKey
  <2>2. session' \in [Ids -> Session] /\ Ids' = Ids
    BY <2>1, <1>3 DEF Ids
  <2> QED
    BY <2>1, <2>2, <1>3 DEF IInv, TableTypeOK, SessionsShareSettings,
                            EmptyTimeMatchesTable, settings, data, stamps, clock
<1>5. ASSUME NEW sessions \in [Ids -> Session], NEW c \in Config, NEW r \in Request,
             \A i \in Ids : sessions[i].engine = session[i].engine,
             session' = UpdateSessions(sessions, c, r),
             config' = c, request' = r, shared_config' = c,
             UNCHANGED <<clock, data, is_available, stamps>>
      PROVE  IInv'
  <2>1. /\ session' \in [Ids -> Session] /\ Ids' = Ids
        /\ \A i \in Ids : /\ session'[i].config = c /\ session'[i].request = r
                          /\ session'[i].engine = session[i].engine
    BY <1>5, UpdateSessionsWrites DEF Ids
  <2> QED
    BY <1>5, <2>1 DEF IInv, TableTypeOK, SessionsShareSettings,
                      EmptyTimeMatchesTable, data, stamps, clock
<1>6. ASSUME NEW id \in SessionID, NEW c \in Config, SendKey(id, c) PROVE IInv'
  BY <1>6, <1>3, <1>5 DEF SendKey, IInv, TableTypeOK
<1>7. ASSUME NEW c \in Config, SetConfig(c) PROVE IInv'
  BY <1>7, <1>5 DEF SetConfig, IInv, TableTypeOK
<1>8. ASSUME NEW r \in Request, SetRequest(r) PROVE IInv'
  BY <1>8, <1>5 DEF SetRequest, IInv, TableTypeOK
<1>9. ASSUME Shutdown PROVE IInv'
  BY <1>9 DEF Shutdown, IInv, TableTypeOK, SessionsShareSettings,
              EmptyTimeMatchesTable, Ids, settings, data, stamps, clock
<1> QED
  BY <1>1, <1>2, <1>4, <1>6, <1>7, <1>8, <1>9 DEF Client, Reload, IInv, TableTypeOK

\* The watch dog's command.
LEMMA CleanupKeepsIInv == ASSUME IInv, Cleanup PROVE IInv'
<1> DEFINE removed == {id \in Ids : Outdated(session[id])}
<1>1. /\ removed \in SUBSET Ids
      /\ session' = Without(removed)
      /\ last_session_empty_time' = IF removed = {} THEN last_session_empty_time
                                                    ELSE EmptyTime(Ids \ removed)
      /\ is_available' \in BOOLEAN
      /\ last_cleanup_time' = now
      /\ UNCHANGED <<clock, settings, data, last_create_session_time>>
  BY DEF Cleanup
<1> HIDE DEF removed
<1>2. /\ session' \in [Ids \ removed -> Session]
      /\ Ids' = Ids \ removed
      /\ \A i \in Ids' : session'[i] = session[i]
  BY <1>1, WithoutKeeps DEF IInv, Ids
<1>3. /\ last_session_empty_time' \in Time \cup {InfinitePast}
      /\ last_session_empty_time' = InfinitePast <=> Ids' # {}
  <2>1. CASE removed = {}
    BY <1>1, <1>2, <2>1 DEF IInv, TableTypeOK, EmptyTimeMatchesTable
  <2>2. CASE removed # {}
    BY <1>1, <1>2, <2>2, EmptyTimeFollows DEF IInv
  <2> QED
    BY <2>1, <2>2
<1> QED
  BY <1>1, <1>2, <1>3 DEF IInv, TableTypeOK, SessionsShareSettings,
                          EmptyTimeMatchesTable, settings, data, clock

\* The clock, the applications, the shared config and the loader.
LEMMA SurroundingsKeepIInv == ASSUME IInv, Surroundings PROVE IInv'
<1> USE DEF IInv, TableTypeOK, SessionsShareSettings, EmptyTimeMatchesTable,
            Ids, settings, data, stamps, clock
<1>1. ASSUME Tick PROVE IInv'
  BY <1>1, TimeoutAssumption DEF Tick, Time
<1>2. ASSUME TurnClockBack PROVE IInv'
  BY <1>2 DEF TurnClockBack
<1>3. ASSUME NEW id \in SessionID, ApplicationExits(id) PROVE IInv'
  BY <1>3 DEF ApplicationExits, Session
<1>4. ASSUME NEW c \in Config, ConfigChanges(c) PROVE IInv'
  BY <1>4 DEF ConfigChanges
<1>5. ASSUME EngineLoaded PROVE IInv'
  BY <1>5 DEF EngineLoaded
<1> QED
  BY <1>1, <1>2, <1>3, <1>4, <1>5 DEF Surroundings

\* IInv holds in every reachable state.
THEOREM InductiveInvariant == Spec => []IInv
<1>1. ASSUME IInv, [Next]_vars PROVE IInv'
  <2>1. CASE UNCHANGED vars
    BY <1>1, <2>1 DEF vars, IInv, TableTypeOK, SessionsShareSettings,
                      EmptyTimeMatchesTable, Ids, settings, data, stamps, clock
  <2> QED
    BY <1>1, <2>1, ClientKeepsIInv, CleanupKeepsIInv, SurroundingsKeepIInv DEF Next
<1> QED
  BY <1>1, InitHasIInv, PTL DEF Spec

\* All sessions have the handler's config and request and run on its engine: an
\* update reaches every session, and the engine is only replaced without any.
THEOREM SettingsAreShared == Spec => []SessionsShareSettings
  BY InductiveInvariant, PTL DEF IInv

\* last_session_empty_time_ is InfinitePast exactly while there are sessions.
THEOREM EmptyTimeIsRight == Spec => []EmptyTimeMatchesTable
  BY InductiveInvariant, PTL DEF IInv

-----------------------------------------------------------------------------
\* The list and the table; that the table is finite is what makes its size a number.
ListIInv == lru \in Seq(SessionID) /\ IsFiniteSet(Ids) /\ ListMatchesTable

\* Taking ids out of the list takes them out and nothing else.
LEMMA EvictTakesOut ==
    ASSUME NEW list \in Seq(SessionID), NEW ids
    PROVE  /\ Evict(list, ids) \in Seq(SessionID)
           /\ Range(Evict(list, ids)) = Range(list) \ ids
           /\ IsInjective(list) => IsInjective(Evict(list, ids))
<1>1. Range(list) \subseteq SessionID
  BY DEF Range
<1>2. Range(list) \cap (SessionID \ ids) = Range(list) \ ids
  BY <1>1
<1> QED
  BY <1>2, SelectionKeeps DEF Evict

\* An id that is not in the list goes to its head.
LEMMA HeadIsAdded ==
    ASSUME NEW list \in Seq(SessionID), NEW id \in SessionID, id \notin Range(list),
           IsInjective(list)
    PROVE  /\ <<id>> \o list \in Seq(SessionID)
           /\ Range(<<id>> \o list) = Range(list) \cup {id}
           /\ IsInjective(<<id>> \o list)
<1> DEFINE longer == <<id>> \o list
<1>1. /\ longer \in Seq(SessionID)
      /\ Len(list) \in Nat /\ DOMAIN list = 1 .. Len(list)
      /\ DOMAIN longer = 1 .. Len(list) + 1
      /\ longer[1] = id
      /\ \A k \in 2 .. Len(list) + 1 : k - 1 \in 1 .. Len(list) /\ longer[k] = list[k - 1]
  OBVIOUS
<1> HIDE DEF longer
<1>2. \A k \in 1 .. Len(list) : list[k] # id /\ list[k] = longer[k + 1]
  <2>1. \A k \in 1 .. Len(list) : list[k] \in Range(list)
    BY <1>1 DEF Range
  <2>2. \A k \in 1 .. Len(list) : k + 1 \in 2 .. Len(list) + 1 /\ k + 1 - 1 = k
    BY <1>1
  <2>3. ASSUME NEW k \in 1 .. Len(list) PROVE longer[k + 1] = list[k]
    <3>1. longer[k + 1] = list[(k + 1) - 1]
      BY <1>1, <2>2
    <3> QED
      BY <2>2, <3>1
  <2> QED
    BY <2>1, <2>3
<1>3. Range(longer) = Range(list) \cup {id}
  <2>1. \A k \in 1 .. Len(list) + 1 : k = 1 \/ k \in 2 .. Len(list) + 1
    BY <1>1
  <2>2. Range(longer) \subseteq Range(list) \cup {id}
    BY SMTT(30), <1>1, <2>1 DEF Range
  <2>3. Range(list) \subseteq Range(longer)
    BY <1>1, <1>2 DEF Range
  <2>4. id \in Range(longer)
    BY <1>1 DEF Range
  <2> QED
    BY <2>2, <2>3, <2>4
<1>4. IsInjective(longer)
  <2> SUFFICES ASSUME NEW i \in 1 .. Len(list) + 1, NEW j \in 1 .. Len(list) + 1,
                      longer[i] = longer[j]
               PROVE  i = j
    BY <1>1 DEF IsInjective
  <2>1. \A k \in 2 .. Len(list) + 1 : longer[k] # id
    BY <1>1, <1>2
  <2>2. CASE i = 1 \/ j = 1
    BY <1>1, <2>1, <2>2
  <2>3. CASE i # 1 /\ j # 1
    <3>1. i \in 2 .. Len(list) + 1 /\ j \in 2 .. Len(list) + 1
      BY <1>1, <2>3
    <3>2. list[i - 1] = list[j - 1] /\ i - 1 \in DOMAIN list /\ j - 1 \in DOMAIN list
      BY <1>1, <3>1
    <3>3. i - 1 = j - 1
      BY <3>2 DEF IsInjective
    <3> QED
      BY <3>3
  <2> QED
    BY <2>2, <2>3
<1> QED
  BY <1>1, <1>3, <1>4 DEF longer

\* A lookup only moves its session to the head.
LEMMA LookupReorders ==
    ASSUME ListIInv, NEW id \in SessionID, id \in Ids
    PROVE  /\ MutableLookup(lru, id) \in Seq(SessionID)
           /\ Range(MutableLookup(lru, id)) = Ids
           /\ IsInjective(MutableLookup(lru, id))
<1>1. /\ Evict(lru, {id}) \in Seq(SessionID)
      /\ Range(Evict(lru, {id})) = Ids \ {id}
      /\ IsInjective(Evict(lru, {id}))
  BY EvictTakesOut DEF ListIInv, ListMatchesTable
<1>2. id \notin Range(Evict(lru, {id})) /\ (Ids \ {id}) \cup {id} = Ids
  BY <1>1
<1> QED
  BY <1>1, <1>2, HeadIsAdded DEF MutableLookup, PushLRUHead

\* Sessions are removed from the table and from the list.
LEMMA RemovalKeepsList ==
    ASSUME ListIInv, NEW removed, Ids' = Ids \ removed, lru' = Evict(lru, removed)
    PROVE  ListIInv'
<1>1. /\ lru' \in Seq(SessionID) /\ Range(lru') = Ids \ removed /\ IsInjective(lru')
  BY EvictTakesOut DEF ListIInv, ListMatchesTable
<1>2. IsFiniteSet(Ids') /\ Cardinality(Ids') <= Cardinality(Ids)
  BY FS_Subset DEF ListIInv
<1>3. Cardinality(Ids) \in Nat /\ Cardinality(Ids') \in Nat /\ MaxSessionSize \in Nat
  BY <1>2, FS_CardinalityType, SizeAssumption DEF ListIInv
<1> QED
  BY <1>1, <1>2, <1>3 DEF ListIInv, ListMatchesTable

\* A new session: when the table is full, its place is the one of the last in the
\* list, which is in the table.
LEMMA CreationKeepsList ==
    ASSUME IInv, ListIInv, NEW id \in SessionID, CreateSession(id)
    PROVE  ListIInv'
<1> DEFINE full == Cardinality(Ids) >= MaxSessionSize
           evicted == IF full THEN {MutableTail(lru)} ELSE {}
           left == Ids \ evicted
<1>1. Cardinality(Ids) \in Nat /\ MaxSessionSize \in Nat /\ MaxSessionSize > 0
  BY FS_CardinalityType, SizeAssumption DEF ListIInv
<1>2. ASSUME full PROVE MutableTail(lru) \in Ids
  <2>1. Ids # {}
    BY <1>1, <1>2, FS_EmptySet
  <2>2. lru # << >> /\ lru \in Seq(SessionID)
    BY <2>1 DEF ListIInv, ListMatchesTable, Range
  <2>3. Len(lru) \in DOMAIN lru
    BY <2>2
  <2> QED
    BY <2>3 DEF MutableTail, Last, ListIInv, ListMatchesTable, Range
<1>3. id \notin left /\ lru' = <<id>> \o Evict(lru, evicted)
  BY DEF CreateSession
<1>4. Ids' = left \cup {id}
  BY DEF CreateSession, UpdateSessions, Ids
<1>5. IsFiniteSet(left) /\ Cardinality(left) < MaxSessionSize
  <2>1. CASE full
    <3>1. left = Ids \ {MutableTail(lru)}
      BY <2>1
    <3>2. IsFiniteSet(left) /\ Cardinality(left) = Cardinality(Ids) - 1
      BY <3>1, <1>2, <2>1, FS_RemoveElement DEF ListIInv
    <3> HIDE DEF left
    <3> QED
      BY <3>2, <1>1 DEF ListIInv, ListMatchesTable
  <2>2. CASE ~full
    BY <1>1, <2>2 DEF ListIInv
  <2> QED
    BY <2>1, <2>2
<1> HIDE DEF evicted
<1>6. /\ Evict(lru, evicted) \in Seq(SessionID)
      /\ Range(Evict(lru, evicted)) = left
      /\ IsInjective(Evict(lru, evicted))
  BY EvictTakesOut DEF ListIInv, ListMatchesTable
<1> HIDE DEF left
<1>7. /\ lru' \in Seq(SessionID) /\ Range(lru') = left \cup {id} /\ IsInjective(lru')
  BY <1>3, <1>6, HeadIsAdded
<1>8. IsFiniteSet(Ids') /\ Cardinality(Ids') = Cardinality(left) + 1
  BY <1>3, <1>4, <1>5, FS_AddElement
<1>9. Cardinality(left) \in Nat
  BY <1>5, FS_CardinalityType
<1>10. Cardinality(Ids') <= MaxSessionSize
  BY <1>1, <1>5, <1>8, <1>9
<1> QED
  BY <1>4, <1>7, <1>8, <1>10 DEF ListIInv, ListMatchesTable

\* Each command and each other step.
LEMMA NextKeepsList == ASSUME IInv, ListIInv, Next PROVE ListIInv'
<1>1. ASSUME Ids' = Ids, lru' = lru PROVE ListIInv'
  BY <1>1 DEF ListIInv, ListMatchesTable
<1>2. ASSUME NEW id \in SessionID, id \in Ids, Ids' = Ids, lru' = MutableLookup(lru, id)
      PROVE  ListIInv'
  BY <1>2, LookupReorders DEF ListIInv, ListMatchesTable
<1>3. \A id \in Ids : DOMAIN Used(id) = Ids
  BY DEF Used, Ids
<1>4. \A sessions, c, r : DOMAIN UpdateSessions(sessions, c, r) = DOMAIN sessions
  BY DEF UpdateSessions
<1>5. \A ids : DOMAIN Without(ids) = Ids \ ids
  BY DEF Without
<1>6. ASSUME NEW id \in SessionID, DeleteSession(id) PROVE ListIInv'
  <2>1. Ids' = Ids \ {id} /\ lru' = Evict(lru, {id})
    BY <1>5, <1>6 DEF DeleteSession, Ids
  <2> QED
    BY <2>1, RemovalKeepsList
<1>7. ASSUME Cleanup PROVE ListIInv'
  <2> DEFINE removed == {id \in Ids : Outdated(session[id])}
  <2>1. session' = Without(removed) /\ lru' = Evict(lru, removed)
    BY <1>7 DEF Cleanup
  <2> HIDE DEF removed
  <2>2. Ids' = Ids \ removed
    BY <1>5, <2>1 DEF Ids
  <2> QED
    BY <2>1, <2>2, RemovalKeepsList
<1>8. ASSUME NEW id \in SessionID, TestSendKey(id) PROVE ListIInv'
  BY <1>2, <1>3, <1>8 DEF TestSendKey, Ids
<1>9. ASSUME NEW id \in SessionID, NEW c \in Config, SendKey(id, c) PROVE ListIInv'
  BY <1>2, <1>3, <1>4, <1>9 DEF SendKey, Ids
<1>10. ASSUME NEW c \in Config, SetConfig(c) PROVE ListIInv'
  BY <1>1, <1>4, <1>10 DEF SetConfig, Ids
<1>11. ASSUME NEW r \in Request, SetRequest(r) PROVE ListIInv'
  BY <1>1, <1>4, <1>11 DEF SetRequest, Ids
<1>12. ASSUME Shutdown \/ Surroundings PROVE ListIInv'
  <2>1. Ids' = Ids /\ lru' = lru
    BY <1>12 DEF Shutdown, Surroundings, Tick, TurnClockBack, ApplicationExits,
                 ConfigChanges, EngineLoaded, Ids
  <2> QED
    BY <1>1, <2>1
<1>13. ASSUME Client PROVE ListIInv'
  BY <1>6, <1>8, <1>9, <1>10, <1>11, <1>12, <1>13, CreationKeepsList
  DEF Client, Reload, IInv, TableTypeOK
<1> QED
  BY <1>7, <1>12, <1>13 DEF Next

\* No session, no list.
LEMMA InitHasListIInv == Init => ListIInv
<1> SUFFICES ASSUME Init PROVE ListIInv
  OBVIOUS
<1>1. Ids = {} /\ lru = << >>
  BY DEF Init, Ids
<1>2. lru \in Seq(SessionID) /\ Range(lru) = {} /\ IsInjective(lru)
  BY <1>1 DEF Range, IsInjective
<1>3. IsFiniteSet(Ids) /\ Cardinality(Ids) = 0
  BY <1>1, FS_EmptySet
<1> QED
  BY <1>1, <1>2, <1>3, SizeAssumption DEF ListIInv, ListMatchesTable

\* The LRU list and the hash table of session_map_ name the same sessions, each once,
\* and never more than max_session_size_ of them: whatever is created, looked up,
\* deleted, evicted and cleaned up, in any order.
THEOREM ListFollowsTable == Spec => []ListMatchesTable
<1>1. IInv /\ ListIInv /\ [Next]_vars => ListIInv'
  <2> SUFFICES ASSUME IInv, ListIInv, UNCHANGED vars PROVE ListIInv'
    BY NextKeepsList
  <2> QED
    BY DEF vars, ListIInv, ListMatchesTable, Ids
<1>2. ListIInv => ListMatchesTable
  BY DEF ListIInv
<1> QED
  BY <1>1, <1>2, InitHasListIInv, InductiveInvariant, PTL DEF Spec

-----------------------------------------------------------------------------
\* The list is sorted by the time a session was last used, and no session was used
\* later than now. It is as long as the clock is not turned back.
ByTime(list, sessions) ==
    \A i, j \in DOMAIN list : i < j => sessions[list[j]].at <= sessions[list[i]].at

TimeIInv ==
    ~turned_back => (\A id \in Ids : session[id].at <= now) /\ ByTime(lru, session)

\* What is left of the list is in the order it was in.
LEMMA EvictKeepsOrder ==
    ASSUME NEW list \in Seq(SessionID), NEW ids,
           NEW i \in DOMAIN Evict(list, ids), NEW j \in DOMAIN Evict(list, ids), i < j
    PROVE  \E a, b \in DOMAIN list :
              a < b /\ Evict(list, ids)[i] = list[a] /\ Evict(list, ids)[j] = list[b]
<1> DEFINE left == Evict(list, ids)
<1>1. left \in Seq(SessionID)
  BY EvictTakesOut
<1>2. PICK where : Picks(where, left, list, Len(list))
  BY SelectionKeeps DEF Evict
<1> HIDE DEF left
<1>3. DOMAIN left = 1 .. Len(left) /\ DOMAIN list = 1 .. Len(list)
  BY <1>1
<1>4. i \in 1 .. Len(left) /\ j \in 1 .. Len(left)
  BY <1>3 DEF left
<1>5. /\ where[i] \in DOMAIN list /\ where[j] \in DOMAIN list /\ where[i] < where[j]
      /\ left[i] = list[where[i]] /\ left[j] = list[where[j]]
  BY <1>2, <1>3, <1>4 DEF Picks
<1> QED
  BY <1>5 DEF left

\* So it stays sorted when sessions are removed ...
LEMMA RemovalKeepsByTime ==
    ASSUME NEW list \in Seq(SessionID), NEW ids, NEW before, NEW after,
           ByTime(list, before),
           \A i \in Range(list) \ ids : after[i].at = before[i].at
    PROVE  ByTime(Evict(list, ids), after)
<1> SUFFICES ASSUME NEW i \in DOMAIN Evict(list, ids), NEW j \in DOMAIN Evict(list, ids), i < j
             PROVE  after[Evict(list, ids)[j]].at <= after[Evict(list, ids)[i]].at
  BY DEF ByTime
<1>1. PICK a, b \in DOMAIN list :
         a < b /\ Evict(list, ids)[i] = list[a] /\ Evict(list, ids)[j] = list[b]
  BY EvictKeepsOrder
<1>2. before[list[b]].at <= before[list[a]].at
  BY <1>1 DEF ByTime
<1>3. Evict(list, ids)[i] \in Range(Evict(list, ids)) /\ Evict(list, ids)[j] \in Range(Evict(list, ids))
  BY DEF Range
<1>4. list[a] \in Range(list) \ ids /\ list[b] \in Range(list) \ ids
  BY <1>1, <1>3, EvictTakesOut
<1> QED
  BY <1>1, <1>2, <1>4

\* ... and when the latest one then goes to the head.
LEMMA HeadKeepsByTime ==
    ASSUME NEW list \in Seq(SessionID), NEW id \in SessionID, NEW after,
           ByTime(list, after),
           \A i \in Range(list) : after[i].at <= after[id].at
    PROVE  ByTime(<<id>> \o list, after)
<1> DEFINE longer == <<id>> \o list
<1>1. /\ Len(list) \in Nat /\ DOMAIN list = 1 .. Len(list)
      /\ DOMAIN longer = 1 .. Len(list) + 1
      /\ longer[1] = id
      /\ \A k \in 2 .. Len(list) + 1 : k - 1 \in 1 .. Len(list) /\ longer[k] = list[k - 1]
  OBVIOUS
<1> HIDE DEF longer
<1> SUFFICES ASSUME NEW i \in 1 .. Len(list) + 1, NEW j \in 1 .. Len(list) + 1, i < j
             PROVE  after[longer[j]].at <= after[longer[i]].at
  BY <1>1 DEF ByTime, longer
<1>2. j \in 2 .. Len(list) + 1 /\ j - 1 \in DOMAIN list /\ longer[j] = list[j - 1]
  BY <1>1
<1>3. CASE i = 1
  BY <1>1, <1>2, <1>3 DEF Range
<1>4. CASE i # 1
  <2>1. i \in 2 .. Len(list) + 1 /\ i - 1 \in DOMAIN list /\ longer[i] = list[i - 1]
    BY <1>1, <1>4
  <2>2. i - 1 < j - 1
    OBVIOUS
  <2> QED
    BY <1>2, <2>1, <2>2 DEF ByTime
<1> QED
  BY <1>3, <1>4

\* A command or step that leaves the list, the clock and the times of the sessions.
LEMMA TimesKeepTimeIInv ==
    ASSUME TimeIInv, ListIInv, Ids' = Ids, lru' = lru, now' = now, turned_back' = turned_back,
           \A id \in Ids : session'[id].at = session[id].at
    PROVE  TimeIInv'
<1>1. \A i \in DOMAIN lru : lru[i] \in Ids
  BY DEF ListIInv, ListMatchesTable, Range
<1> QED
  BY <1>1 DEF TimeIInv, ByTime

\* A command to a session makes it the latest.
LEMMA LookupKeepsTimeIInv ==
    ASSUME IInv, TimeIInv, ListIInv, NEW id \in SessionID, id \in Ids,
           Ids' = Ids, lru' = MutableLookup(lru, id), now' = now, turned_back' = turned_back,
           \A i \in Ids : session'[i].at = IF i = id THEN now ELSE session[i].at
    PROVE  TimeIInv'
<1> SUFFICES ASSUME ~turned_back
             PROVE  (\A i \in Ids : session'[i].at <= now) /\ ByTime(lru', session')
  BY DEF TimeIInv
<1>1. now \in Int
  BY DEF IInv, TableTypeOK, Time
<1>2. \A i \in Ids : session[i].at <= now
  BY DEF TimeIInv
<1>3. \A i \in Ids : session'[i].at <= now
  BY <1>1, <1>2
<1> DEFINE rest == Evict(lru, {id})
<1>4. rest \in Seq(SessionID) /\ Range(rest) = Ids \ {id}
  BY EvictTakesOut DEF ListIInv, ListMatchesTable
<1>5. ByTime(rest, session')
  BY RemovalKeepsByTime DEF ListIInv, ListMatchesTable, TimeIInv
<1> HIDE DEF rest
<1>6. \A i \in Range(rest) : session'[i].at <= session'[id].at
  BY <1>3, <1>4
<1>7. ByTime(<<id>> \o rest, session')
  BY <1>4, <1>5, <1>6, HeadKeepsByTime
<1> QED
  BY <1>3, <1>7 DEF rest, MutableLookup, PushLRUHead

\* A new session is the latest.
LEMMA CreationKeepsTimeIInv ==
    ASSUME IInv, TimeIInv, ListIInv, NEW id \in SessionID, CreateSession(id)
    PROVE  TimeIInv'
<1> DEFINE evicted == IF Cardinality(Ids) >= MaxSessionSize
                      THEN {MutableTail(lru)} ELSE {}
           left == Ids \ evicted
           rest == Evict(lru, evicted)
<1>1. /\ id \notin left /\ lru' = <<id>> \o rest /\ now' = now /\ turned_back' = turned_back
      /\ Ids' = left \cup {id}
      /\ \A i \in left \cup {id} : session'[i].at = IF i = id THEN now ELSE session[i].at
  <2> DEFINE reloads == ReloadsEngine(left)
             new == [config |-> shared_config, request |-> request,
                     engine |-> (engine # reloads), at |-> now, used |-> FALSE,
                     alive |-> TRUE]
             sessions == [i \in left \cup {id} |-> IF i = id THEN new ELSE session[i]]
  <2>1. /\ id \notin left /\ lru' = <<id>> \o rest /\ now' = now /\ turned_back' = turned_back
        /\ session' = UpdateSessions(sessions, shared_config, request)
    BY DEF CreateSession, clock
  <2>2. shared_config \in Config /\ request \in Request
    BY DEF IInv, TableTypeOK
  <2>3. new \in Session /\ new.at = now
    BY DEF IInv, TableTypeOK, Session
  <2> HIDE DEF new, left
  <2>4. sessions \in [left \cup {id} -> Session]
    BY <2>3 DEF IInv, TableTypeOK, left
  <2>5. \A i \in left \cup {id} : sessions[i].at = IF i = id THEN now ELSE session[i].at
    BY <2>3
  <2> HIDE DEF sessions
  <2> QED
    BY <2>1, <2>2, <2>4, <2>5, UpdateSessionsWrites DEF Ids
<1> SUFFICES ASSUME ~turned_back
             PROVE  (\A i \in Ids' : session'[i].at <= now) /\ ByTime(lru', session')
  BY <1>1 DEF TimeIInv
<1> HIDE DEF evicted
<1>2. now \in Int
  BY DEF IInv, TableTypeOK, Time
<1>3. \A i \in left \cup {id} : session'[i].at <= now
  BY <1>1, <1>2 DEF TimeIInv
<1>4. rest \in Seq(SessionID) /\ Range(rest) = left
  BY EvictTakesOut DEF ListIInv, ListMatchesTable
<1>5. ByTime(rest, session')
  <2>1. \A i \in Range(lru) \ evicted : session'[i].at = session[i].at
    BY <1>1 DEF ListIInv, ListMatchesTable
  <2> QED
    BY <2>1, RemovalKeepsByTime DEF ListIInv, TimeIInv
<1> HIDE DEF rest, left
<1>6. \A i \in Range(rest) : session'[i].at <= session'[id].at
  BY <1>1, <1>3, <1>4
<1> QED
  BY <1>1, <1>3, <1>4, <1>5, <1>6, HeadKeepsByTime

\* Sessions are removed.
LEMMA RemovalKeepsTimeIInv ==
    ASSUME TimeIInv, ListIInv, NEW removed, Ids' = Ids \ removed, lru' = Evict(lru, removed),
           now' = now, turned_back' = turned_back,
           \A i \in Ids \ removed : session'[i] = session[i]
    PROVE  TimeIInv'
<1> SUFFICES ASSUME ~turned_back
             PROVE  (\A i \in Ids' : session'[i].at <= now) /\ ByTime(lru', session')
  BY DEF TimeIInv
<1>1. \A i \in Ids' : session'[i].at <= now
  BY DEF TimeIInv
<1>2. \A i \in Range(lru) \ removed : session'[i].at = session[i].at
  BY DEF ListIInv, ListMatchesTable
<1> QED
  BY <1>1, <1>2, RemovalKeepsByTime DEF ListIInv, TimeIInv

\* Each command and each other step.
LEMMA NextKeepsTimeIInv == ASSUME IInv, TimeIInv, ListIInv, Next PROVE TimeIInv'
<1> USE DEF clock
<1>1. ASSUME NEW id \in SessionID, DeleteSession(id) PROVE TimeIInv'
  <2>1. /\ session' = Without({id}) /\ lru' = Evict(lru, {id})
        /\ now' = now /\ turned_back' = turned_back
    BY <1>1 DEF DeleteSession
  <2>2. Ids' = Ids \ {id} /\ \A i \in Ids \ {id} : session'[i] = session[i]
    BY <2>1 DEF Without, Ids
  <2> QED
    BY <2>1, <2>2, RemovalKeepsTimeIInv
<1>2. ASSUME Cleanup PROVE TimeIInv'
  <2> DEFINE removed == {id \in Ids : Outdated(session[id])}
  <2>1. /\ session' = Without(removed) /\ lru' = Evict(lru, removed)
        /\ now' = now /\ turned_back' = turned_back
    BY <1>2 DEF Cleanup
  <2> HIDE DEF removed
  <2>2. Ids' = Ids \ removed /\ \A i \in Ids \ removed : session'[i] = session[i]
    BY <2>1 DEF Without, Ids
  <2> QED
    BY <2>1, <2>2, RemovalKeepsTimeIInv
<1>3. ASSUME NEW id \in SessionID, id \in Ids
      PROVE  /\ DOMAIN Used(id) = Ids
             /\ \A i \in Ids : Used(id)[i].at = IF i = id THEN now ELSE session[i].at
  BY <1>3 DEF Used, Ids, IInv, TableTypeOK, Session
<1>4. ASSUME NEW id \in SessionID, TestSendKey(id) PROVE TimeIInv'
  <2>1. /\ id \in Ids /\ lru' = MutableLookup(lru, id) /\ session' = Used(id)
        /\ now' = now /\ turned_back' = turned_back
    BY <1>4 DEF TestSendKey
  <2>2. Ids' = Ids
    BY <2>1, <1>3 DEF Ids
  <2> QED
    BY <2>1, <2>2, <1>3, LookupKeepsTimeIInv
<1>5. ASSUME NEW id \in SessionID, NEW c \in Config, SendKey(id, c) PROVE TimeIInv'
  <2>1. /\ id \in Ids /\ lru' = MutableLookup(lru, id)
        /\ session' = UpdateSessions(Used(id), c, request)
        /\ now' = now /\ turned_back' = turned_back
    BY <1>5 DEF SendKey
  <2>2. Used(id) \in [Ids -> Session]
    BY <2>1 DEF Used, IInv, TableTypeOK, Session
  <2>3. /\ Ids' = Ids
        /\ \A i \in Ids : session'[i].at = IF i = id THEN now ELSE session[i].at
    BY <2>1, <2>2, <1>3, UpdateSessionsWrites DEF Ids, IInv, TableTypeOK
  <2> QED
    BY <2>1, <2>3, LookupKeepsTimeIInv
<1>6. ASSUME NEW c \in Config, NEW r \in Request, session' = UpdateSessions(session, c, r),
             lru' = lru, UNCHANGED clock
      PROVE  TimeIInv'
  <2>1. Ids' = Ids /\ \A i \in Ids : session'[i].at = session[i].at
    BY <1>6, UpdateSessionsWrites DEF Ids, IInv, TableTypeOK
  <2> QED
    BY <1>6, <2>1, TimesKeepTimeIInv
<1>7. ASSUME NEW c \in Config, SetConfig(c) PROVE TimeIInv'
  BY <1>6, <1>7 DEF SetConfig, IInv, TableTypeOK
<1>8. ASSUME NEW r \in Request, SetRequest(r) PROVE TimeIInv'
  BY <1>6, <1>8 DEF SetRequest, IInv, TableTypeOK
<1>9. ASSUME Shutdown \/ EngineLoaded \/ \E c \in Config : ConfigChanges(c) PROVE TimeIInv'
  <2>1. UNCHANGED <<session, lru, clock>>
    BY <1>9 DEF Shutdown, ConfigChanges, EngineLoaded
  <2> QED
    BY <2>1, TimesKeepTimeIInv DEF Ids
<1>10. ASSUME NEW id \in SessionID, ApplicationExits(id) PROVE TimeIInv'
  <2>1. Ids' = Ids /\ \A i \in Ids : session'[i].at = session[i].at
    BY <1>10 DEF ApplicationExits, Ids, IInv, TableTypeOK, Session
  <2> QED
    BY <1>10, <2>1, TimesKeepTimeIInv DEF ApplicationExits
<1>11. ASSUME Tick PROVE TimeIInv'
  <2>1. now' = now + 1 /\ now \in Int /\ UNCHANGED <<session, lru, turned_back>>
    BY <1>11 DEF Tick, IInv, TableTypeOK, Time
  <2>2. \A i \in Ids : session[i].at \in Int
    BY DEF IInv, TableTypeOK, Session, Time
  <2> QED
    BY <2>1, <2>2 DEF TimeIInv, Ids, ByTime
<1>12. ASSUME TurnClockBack PROVE TimeIInv'
  BY <1>12 DEF TurnClockBack, TimeIInv
<1>13. ASSUME Client PROVE TimeIInv'
  BY <1>1, <1>4, <1>5, <1>7, <1>8, <1>9, <1>13, CreationKeepsTimeIInv
  DEF Client, Reload, IInv, TableTypeOK
<1> QED
  BY <1>2, <1>9, <1>10, <1>11, <1>12, <1>13 DEF Next, Surroundings

\* A step that loses a session has one of the reasons.
LEMMA LossHasReason ==
    ASSUME IInv, TimeIInv, ListIInv, Next, NEW id \in Ids \ DOMAIN session'
    PROVE  \/ DeleteSession(id)
           \/ Cleanup /\ (\/ ~session[id].alive
                          \/ ~session[id].used /\ now - session[id].at >= CreateTimeout
                          \/ now - session[id].at >= CommandTimeout)
           \/ /\ Cardinality(Ids) = MaxSessionSize
              /\ turned_back \/ \A other \in Ids : session[id].at <= session[other].at
              /\ \E new \in SessionID : CreateSession(new)
<1>1. ASSUME NEW deleted \in SessionID, DeleteSession(deleted) PROVE DeleteSession(id)
  <2>1. DOMAIN session' = Ids \ {deleted}
    BY <1>1 DEF DeleteSession, Without
  <2> QED
    BY <1>1, <2>1
<1>2. ASSUME Cleanup
      PROVE  \/ ~session[id].alive
             \/ ~session[id].used /\ now - session[id].at >= CreateTimeout
             \/ now - session[id].at >= CommandTimeout
  <2>1. Outdated(session[id])
    BY <1>2 DEF Cleanup, Without
  <2>2. /\ now \in Int /\ session[id].at \in Int /\ Interval \in Nat
        /\ CreateTimeout \in Nat /\ CommandTimeout \in Nat
    BY TimeoutAssumption DEF IInv, TableTypeOK, Session, Time
  <2>3. SuspendTime \in Int /\ SuspendTime >= 0
    <3>1. last_cleanup_time = InfinitePast \/ last_cleanup_time \in Int
      BY DEF IInv, TableTypeOK, Time
    <3> QED
      BY <2>2, <3>1 DEF SuspendTime
  <2> QED
    BY <2>1, <2>2, <2>3 DEF Outdated
<1>3. ASSUME NEW new \in SessionID, CreateSession(new)
      PROVE  /\ Cardinality(Ids) = MaxSessionSize
             /\ turned_back \/ \A other \in Ids : session[id].at <= session[other].at
  <2>1. id = MutableTail(lru) /\ Cardinality(Ids) >= MaxSessionSize
    BY <1>3 DEF CreateSession, UpdateSessions
  <2>2. Cardinality(Ids) = MaxSessionSize
    BY <2>1, FS_CardinalityType, SizeAssumption DEF ListIInv, ListMatchesTable
  <2>3. ASSUME ~turned_back, NEW other \in Ids PROVE session[id].at <= session[other].at
    <3>1. PICK i \in DOMAIN lru : lru[i] = other
      BY DEF ListIInv, ListMatchesTable, Range
    <3>2. DOMAIN lru = 1 .. Len(lru) /\ Len(lru) \in Nat /\ lru[Len(lru)] = id
      BY <2>1 DEF ListIInv, MutableTail, Last
    <3>3. session[id].at \in Int
      BY DEF IInv, TableTypeOK, Session, Time
    <3>4. CASE i < Len(lru)
      BY <2>3, <3>1, <3>2, <3>4 DEF TimeIInv, ByTime
    <3>5. CASE i = Len(lru)
      BY <3>1, <3>2, <3>3, <3>5
    <3> QED
      BY <3>2, <3>4, <3>5
  <2> QED
    BY <2>2, <2>3
<1>4. ASSUME Surroundings \/ Shutdown PROVE FALSE
  BY <1>4 DEF Surroundings, Shutdown, Tick, TurnClockBack, ApplicationExits, ConfigChanges,
              EngineLoaded, Ids
<1>5. ASSUME \/ \E c \in Config : SetConfig(c)
             \/ Reload
             \/ \E r \in Request : SetRequest(r)
             \/ \E i \in SessionID : TestSendKey(i)
             \/ \E i \in SessionID, c \in Config : SendKey(i, c)
      PROVE  FALSE
  BY <1>5 DEF SetConfig, Reload, SetRequest, TestSendKey, SendKey, UpdateSessions, Used, Ids
<1> QED
  BY <1>1, <1>2, <1>3, <1>4, <1>5 DEF Next, Client

\* A client loses its session only if it deletes it, if its application is gone or it
\* was left alone for its timeout, or if the table was full and every other session
\* was used no earlier: the list that decides whom CREATE_SESSION evicts is in the
\* order of last use as long as the clock is not turned back.
THEOREM SessionsAreLostForAReason == Spec => SessionLossHasReason
<1>1. Init => ListIInv /\ TimeIInv
  <2> SUFFICES ASSUME Init PROVE ListIInv /\ TimeIInv
    OBVIOUS
  <2>1. ListIInv
    BY InitHasListIInv
  <2>2. Ids = {} /\ lru = << >>
    BY DEF Init, Ids
  <2> QED
    BY <2>1, <2>2 DEF TimeIInv, ByTime
<1>2. IInv /\ ListIInv /\ TimeIInv /\ [Next]_vars => ListIInv' /\ TimeIInv'
  <2> SUFFICES ASSUME IInv, ListIInv, TimeIInv, UNCHANGED vars PROVE ListIInv' /\ TimeIInv'
    BY NextKeepsList, NextKeepsTimeIInv
  <2> QED
    BY DEF vars, clock, ListIInv, ListMatchesTable, TimeIInv, ByTime, Ids
<1>3. IInv /\ ListIInv /\ TimeIInv /\ [Next]_vars =>
        [\A id \in Ids \ DOMAIN session' :
          \/ DeleteSession(id)
          \/ Cleanup /\ (\/ ~session[id].alive
                         \/ ~session[id].used /\ now - session[id].at >= CreateTimeout
                         \/ now - session[id].at >= CommandTimeout)
          \/ /\ Cardinality(Ids) = MaxSessionSize
             /\ turned_back \/ \A other \in Ids : session[id].at <= session[other].at
             /\ \E new \in SessionID : CreateSession(new)]_vars
  BY LossHasReason
<1> QED
  BY <1>1, <1>2, <1>3, InductiveInvariant, PTL DEF Spec, SessionLossHasReason

-----------------------------------------------------------------------------
\* The watch dog.  The types, with how many pings a thread that still pings has sent.
DogTypes ==
    /\ dog \in {"wait", "call", "ping", "doomed", "fatal", "exited"}
    /\ attempt \in Time /\ wake \in 0 .. MaxTime + Interval
    /\ pings \in 0 .. PingTrial /\ (dog = "ping" => pings < PingTrial)
    /\ queued \in BOOLEAN /\ stop \in BOOLEAN
    /\ slept \in [from : Time, to : Time] \cup {None}

\* The thread goes into no new round while a CLEANUP of its own is in the queue.
QueuedIsWaitedFor == queued => dog # "wait"

\* Rounds and cleanups are of the past, and none was during the sleep.
TimesArePast ==
    /\ attempt <= now
    /\ last_cleanup_time # InfinitePast => last_cleanup_time <= now
    /\ slept # None =>
         /\ slept.from < slept.to /\ slept.to <= now
         /\ attempt <= slept.from \/ slept.to <= attempt
         /\ last_cleanup_time # InfinitePast =>
              last_cleanup_time <= slept.from \/ slept.to <= last_cleanup_time

\* After a sleep that is longer than two intervals the thread skips a round: what it
\* sends comes an interval after the sleep.  A second one comes after another interval.
RoundsAfterSleep ==
    slept # None /\ slept.to - slept.from > 2 * Interval =>
        /\ attempt > slept.from =>
             /\ queued \/ dog \in {"call", "ping", "doomed"} =>
                  attempt >= slept.to + Interval
             /\ dog = "wait" => wake >= slept.to + Interval
        /\ last_cleanup_time # InfinitePast /\ last_cleanup_time > slept.from =>
             /\ queued => attempt >= slept.to + 2 * Interval
             /\ dog = "wait" => wake >= slept.to + Interval
             /\ dog = "wait" /\ attempt > slept.from => wake >= slept.to + 2 * Interval

DogIInv ==
    IInv /\ ListIInv /\ DogTypes /\ QueuedIsWaitedFor /\ TimesArePast /\ RoundsAfterSleep

\* What the thread adds to the handler is the sleep: every other step is one of the
\* handler, or none.
LEMMA DogStepsAreHandlers ==
    ASSUME [DogNext]_all_vars
    PROVE  Next \/ Sleep \/ UNCHANGED vars
<1>1. ASSUME DogNext PROVE Next \/ Sleep \/ UNCHANGED vars
  BY <1>1 DEF DogNext, Next, Client, Surroundings, ServeCleanup, DogStep, DogWakes, CallFails,
         PingSucceeds, PingFails, Dies, DogStops, StopWatchDog
<1> QED
  BY <1>1 DEF all_vars

\* So the handler's invariants hold in its server too.
LEMMA DogKeepsHandler ==
    ASSUME IInv, ListIInv, [DogNext]_all_vars
    PROVE  IInv' /\ ListIInv'
<1>1. CASE Next
  BY <1>1, ClientKeepsIInv, CleanupKeepsIInv, SurroundingsKeepIInv, NextKeepsList DEF Next
<1>2. CASE Sleep
  BY <1>2 DEF Sleep, IInv, ListIInv, TableTypeOK, SessionsShareSettings, EmptyTimeMatchesTable,
         ListMatchesTable, Ids, settings, data, stamps
<1>3. CASE UNCHANGED vars
  BY <1>3 DEF vars, clock, IInv, ListIInv, TableTypeOK, SessionsShareSettings,
         EmptyTimeMatchesTable, ListMatchesTable, Ids, settings, data, stamps
<1> QED
  BY <1>1, <1>2, <1>3, DogStepsAreHandlers

\* What a step does to the clock and the time of the last cleanup.
LEMMA DogClock ==
    ASSUME TableTypeOK, DogNext
    PROVE  /\ now' \in Nat /\ now \in Nat /\ now' >= now
           /\ now' # now => UNCHANGED <<dog_vars, queued>>
           /\ now' # now /\ ~Sleep => UNCHANGED slept
           /\ ~ServeCleanup => last_cleanup_time' = last_cleanup_time
<1> USE DEF TableTypeOK, Time, clock, dog_vars
<1>1. ASSUME NEW id \in SessionID,
             CreateSession(id) \/ DeleteSession(id) \/ TestSendKey(id) \/ ApplicationExits(id)
      PROVE  now' = now /\ last_cleanup_time' = last_cleanup_time
  BY <1>1 DEF CreateSession, DeleteSession, TestSendKey, ApplicationExits, stamps
<1>2. CASE Shutdown
  BY <1>2 DEF Shutdown, stamps
<1>3. CASE Tick /\ UNCHANGED <<dog_vars, queued, stop, slept>>
  BY <1>3 DEF Tick, stamps
<1>4. CASE ServeCleanup
  <2>1. now' = now
    BY <1>4 DEF ServeCleanup, Cleanup
  <2> QED
    BY <1>4, <2>1
<1>5. CASE Sleep
  BY <1>5 DEF Sleep, stamps
<1>6. CASE DogStep \/ StopWatchDog
  BY <1>6 DEF DogStep, DogWakes, CallFails, PingSucceeds, PingFails, Dies, DogStops,
         StopWatchDog, vars, stamps
<1> QED
  BY <1>1, <1>2, <1>3, <1>4, <1>5, <1>6 DEF DogNext

\* Every step keeps what is said of the thread.
LEMMA DogKeepsRounds ==
    ASSUME DogIInv, DogNext, IInv'
    PROVE  DogTypes' /\ QueuedIsWaitedFor' /\ TimesArePast' /\ RoundsAfterSleep'
<1> DEFINE Goal == DogTypes' /\ QueuedIsWaitedFor' /\ TimesArePast' /\ RoundsAfterSleep'
<1>0. /\ Interval \in Nat \ {0} /\ MaxTime \in Nat /\ PingTrial \in Nat \ {0}
      /\ InfinitePast \notin Int /\ None \notin [from : Time, to : Time]
      /\ now \in Time /\ now' \in Time
      /\ last_cleanup_time \in Time \cup {InfinitePast}
  BY TimeoutAssumption, PastAssumption, PingAssumption, NeverAssumption
     DEF DogIInv, IInv, TableTypeOK
<1>1. ASSUME dog' = dog \/ dog' \notin {"wait", "call", "ping", "doomed"},
             dog' \in {"wait", "call", "ping", "doomed", "fatal", "exited"},
             UNCHANGED <<attempt, wake, pings, queued, slept, last_cleanup_time>>,
             stop' \in BOOLEAN, now' >= now
      PROVE  Goal
  BY <1>0, <1>1 DEF DogIInv, DogTypes, QueuedIsWaitedFor, TimesArePast, RoundsAfterSleep, Time
<1>2. CASE DogWakes
  <2>1. PICK sends \in BOOLEAN :
          /\ sends => now - attempt <= 2 * Interval
          /\ dog' = IF sends THEN "call" ELSE "wait"
          /\ wake' = IF sends THEN wake ELSE now + Interval
          /\ queued' = (queued \/ sends)
    BY <1>2 DEF DogWakes, CanSendCleanupCommand
  <2>2. /\ dog = "wait" /\ now >= wake /\ attempt' = now /\ now' = now
        /\ UNCHANGED <<pings, stop, slept, last_cleanup_time>>
    BY <1>2 DEF DogWakes, vars, clock, stamps
  <2>3. ~queued
    BY <2>2 DEF DogIInv, QueuedIsWaitedFor
  <2>4. DogTypes' /\ QueuedIsWaitedFor' /\ TimesArePast'
    BY <1>0, <2>1, <2>2, <2>3 DEF DogIInv, DogTypes, QueuedIsWaitedFor, TimesArePast, Time
  <2>5. RoundsAfterSleep'
    <3> SUFFICES ASSUME slept # None, slept.to - slept.from > 2 * Interval
                 PROVE  /\ queued' => now >= slept.to + Interval
                        /\ dog' = "wait" => wake' >= slept.to + Interval
                        /\ dog' = "call" => now >= slept.to + Interval
                        /\ last_cleanup_time # InfinitePast /\ last_cleanup_time > slept.from =>
                             /\ queued' => now >= slept.to + 2 * Interval
                             /\ dog' = "wait" => wake' >= slept.to + 2 * Interval
      BY <1>0, <2>1, <2>2 DEF RoundsAfterSleep, DogIInv, DogTypes, Time
    <3>1. /\ slept.from \in Nat /\ slept.to \in Nat /\ slept.from < slept.to
          /\ slept.to <= now /\ attempt \in Nat /\ wake \in Nat /\ now \in Nat
          /\ attempt <= slept.from \/ slept.to <= attempt
      BY <1>0 DEF DogIInv, DogTypes, TimesArePast, Time
    <3>2. CASE attempt <= slept.from
      <4>1. ~sends
        BY <1>0, <2>1, <3>1, <3>2
      <4>2. last_cleanup_time # InfinitePast /\ last_cleanup_time > slept.from =>
              wake >= slept.to + Interval
        BY <2>2 DEF DogIInv, RoundsAfterSleep
      <4> QED
        BY <1>0, <2>1, <2>2, <2>3, <3>1, <4>1, <4>2
    <3>3. CASE slept.to <= attempt
      <4>1. /\ wake >= slept.to + Interval
            /\ last_cleanup_time # InfinitePast /\ last_cleanup_time > slept.from =>
                 wake >= slept.to + 2 * Interval
        BY <2>2, <3>1, <3>3 DEF DogIInv, RoundsAfterSleep
      <4> QED
        BY <1>0, <2>1, <2>2, <2>3, <3>1, <4>1
    <3> QED
      BY <3>1, <3>2, <3>3
  <2> QED
    BY <2>4, <2>5
<1>3. CASE ServeCleanup
  <2>1. /\ queued /\ queued' = FALSE /\ now' = now /\ last_cleanup_time' = now
        /\ UNCHANGED <<attempt, stop, slept>>
    BY <1>3 DEF ServeCleanup, Cleanup, clock
  <2>2. \/ UNCHANGED <<dog, wake, pings>>
        \/ dog' = "wait" /\ wake' = now + Interval /\ pings' = pings
        \/ dog' = "ping" /\ pings' = 0 /\ wake' = wake
    BY <1>3 DEF ServeCleanup
  <2>3. dog # "wait"
    BY <2>1 DEF DogIInv, QueuedIsWaitedFor
  <2>4. dog' # dog => dog = "call"
    BY <1>3, <2>2, <2>3 DEF ServeCleanup
  <2>5. DogTypes'
    <3>1. /\ wake' \in 0 .. MaxTime + Interval
          /\ dog' \in {"wait", "call", "ping", "doomed", "fatal", "exited"}
      BY <1>0, <2>2 DEF DogIInv, DogTypes, Time
    <3>2. pings' \in 0 .. PingTrial /\ (dog' = "ping" => pings' < PingTrial)
      BY <1>0, <2>2 DEF DogIInv, DogTypes
    <3> QED
      BY <2>1, <3>1, <3>2 DEF DogIInv, DogTypes
  <2>7. QueuedIsWaitedFor' /\ TimesArePast'
    BY <1>0, <2>1 DEF DogIInv, QueuedIsWaitedFor, TimesArePast, DogTypes, Time
  <2>6. RoundsAfterSleep'
    BY <1>0, <2>1, <2>2, <2>3, <2>4
       DEF DogIInv, DogTypes, TimesArePast, RoundsAfterSleep, Time
  <2> QED
    BY <2>5, <2>6, <2>7
<1>4. CASE CallFails \/ PingFails
  <2>1. /\ dog \in {"call", "ping"} /\ dog' \in {"ping", "doomed"}
        /\ pings' \in 0 .. PingTrial /\ (dog' = "ping" => pings' < PingTrial)
        /\ UNCHANGED <<now, attempt, wake, queued, stop, slept, last_cleanup_time>>
    BY <1>0, <1>4 DEF CallFails, PingFails, vars, clock, stamps, DogIInv, DogTypes
  <2> QED
    BY <1>0, <2>1 DEF DogIInv, DogTypes, QueuedIsWaitedFor, TimesArePast, RoundsAfterSleep, Time
<1>5. CASE PingSucceeds
  <2>1. /\ dog = "ping" /\ dog' = "wait" /\ ~queued /\ wake' = now + Interval
        /\ UNCHANGED <<now, attempt, pings, queued, stop, slept, last_cleanup_time>>
    BY <1>5 DEF PingSucceeds, vars, clock, stamps
  <2>2. DogTypes' /\ QueuedIsWaitedFor' /\ TimesArePast'
    BY <1>0, <2>1 DEF DogIInv, DogTypes, QueuedIsWaitedFor, TimesArePast, Time
  <2>3. RoundsAfterSleep'
    BY <1>0, <2>1 DEF DogIInv, DogTypes, TimesArePast, RoundsAfterSleep, Time
  <2> QED
    BY <2>2, <2>3
<1>6. CASE Dies \/ DogStops \/ StopWatchDog
  <2>1. /\ (dog' = dog \/ dog' \in {"fatal", "exited"}) /\ stop' \in BOOLEAN
        /\ UNCHANGED <<now, attempt, wake, pings, queued, slept, last_cleanup_time>>
    BY <1>6 DEF Dies, DogStops, StopWatchDog, dog_vars, vars, clock, stamps, DogIInv, DogTypes
  <2> QED
    BY <1>0, <1>1, <2>1 DEF DogIInv, DogTypes, Time
<1>7. CASE Sleep
  <2>1. /\ slept = None /\ now' > now + 1 /\ slept' = [from |-> now, to |-> now']
        /\ UNCHANGED <<attempt, wake, pings, dog, queued, stop, last_cleanup_time>>
    BY <1>7 DEF Sleep, dog_vars, stamps
  <2>2. slept'.from = now /\ slept'.to = now' /\ slept' \in [from : Time, to : Time]
    BY <1>0, <2>1
  <2>3. DogTypes' /\ QueuedIsWaitedFor'
    BY <1>0, <2>1, <2>2 DEF DogIInv, DogTypes, QueuedIsWaitedFor
  <2>4. TimesArePast'
    BY <1>0, <2>1, <2>2 DEF DogIInv, DogTypes, TimesArePast, Time
  <2>5. RoundsAfterSleep'
    <3>1. /\ ~(attempt > now)
          /\ ~(last_cleanup_time # InfinitePast /\ last_cleanup_time > now)
      BY <1>0 DEF DogIInv, DogTypes, TimesArePast, Time
    <3> QED
      BY <2>1, <2>2, <3>1 DEF RoundsAfterSleep
  <2> QED
    BY <2>3, <2>4, <2>5
<1>8. CASE UNCHANGED <<dog_vars, queued, stop, slept>> /\ ~ServeCleanup
  <2>1. now' >= now /\ last_cleanup_time' = last_cleanup_time
    BY <1>8, DogClock DEF DogIInv, IInv
  <2> QED
    BY <1>1, <1>8, <2>1 DEF dog_vars, DogIInv, DogTypes
<1> QED
  BY <1>2, <1>3, <1>4, <1>5, <1>6, <1>7, <1>8 DEF DogNext, DogStep

\* The invariant of the server with its watch dog holds in every reachable state.
THEOREM WatchDogInvariant == DogSpec => []DogIInv
<1>1. DogInit => DogIInv
  <2> SUFFICES ASSUME DogInit PROVE DogIInv
    OBVIOUS
  <2>1. IInv /\ ListIInv
    BY InitHasIInv, InitHasListIInv DEF DogInit
  <2>2. DogTypes /\ QueuedIsWaitedFor /\ TimesArePast /\ RoundsAfterSleep
    <3>1. slept = None /\ last_cleanup_time = InfinitePast /\ ~queued
      BY DEF DogInit, Init
    <3>2. DogTypes
      <4>1. 0 \in Time /\ Interval \in 0 .. MaxTime + Interval
        BY TimeoutAssumption DEF Time
      <4>2. 0 \in 0 .. PingTrial
        BY PingAssumption
      <4> QED
        BY <4>1, <4>2 DEF DogInit, DogTypes
    <3> QED
      BY <3>1, <3>2 DEF DogInit, Init, QueuedIsWaitedFor, TimesArePast, RoundsAfterSleep
  <2> QED
    BY <2>1, <2>2 DEF DogIInv
<1>2. ASSUME DogIInv, [DogNext]_all_vars PROVE DogIInv'
  <2>1. IInv' /\ ListIInv'
    BY <1>2, DogKeepsHandler DEF DogIInv
  <2>2. CASE DogNext
    BY <1>2, <2>1, <2>2, DogKeepsRounds DEF DogIInv
  <2>3. CASE UNCHANGED all_vars
    BY <2>1, <2>3, <1>2 DEF all_vars, vars, clock, stamps, dog_vars, DogIInv, DogTypes,
       QueuedIsWaitedFor, TimesArePast, RoundsAfterSleep
  <2> QED
    BY <1>2, <2>2, <2>3
<1> QED
  BY <1>1, <1>2, PTL DEF DogSpec

\* DogTypeOK, with the handler's list.
THEOREM WatchDogTypeOK == DogSpec => []DogTypeOK
<1>1. DogIInv => DogTypeOK
  BY DEF DogIInv, IInv, ListIInv, DogTypes, DogTypeOK, TypeOK
<1> QED
  BY <1>1, WatchDogInvariant, PTL

\* A cleanup that takes a session of a running application: it was awake for its
\* timeout, or the sleep was long ago, or this is the first cleanup and was sent before.
LEMMA CleanupHasReason ==
    ASSUME DogIInv, ServeCleanup, NEW id \in Ids, id \notin DOMAIN session', session[id].alive
    PROVE  \/ AwakeSince(session[id].at) + 2 * Interval
                >= (IF session[id].used THEN CommandTimeout ELSE CreateTimeout)
           \/ /\ slept # None
              /\ now - slept.to >= (IF last_cleanup_time = InfinitePast
                                    THEN Interval ELSE 2 * Interval)
           \/ /\ slept # None
              /\ last_cleanup_time = InfinitePast /\ attempt <= slept.from
<1> DEFINE timeout == IF session[id].used THEN CommandTimeout ELSE CreateTimeout
           at == session[id].at
<1>0. /\ Interval \in Nat \ {0} /\ CreateTimeout \in Nat /\ CommandTimeout \in Nat
      /\ timeout \in Nat /\ InfinitePast \notin Int /\ now \in Nat
      /\ last_cleanup_time \in Nat \cup {InfinitePast}
      /\ session[id] \in Session /\ at \in Nat /\ attempt \in Nat
      /\ slept # None => slept.from \in Nat /\ slept.to \in Nat
  BY TimeoutAssumption, PastAssumption
     DEF DogIInv, IInv, TableTypeOK, DogTypes, Session, Time
<1>1. Outdated(session[id]) /\ queued
  <2>1. DOMAIN session' = Ids \ {i \in Ids : Outdated(session[i])}
    BY DEF ServeCleanup, Cleanup, Without
  <2> QED
    BY <2>1 DEF ServeCleanup
<1>2. now - at >= SuspendTime + timeout
  BY <1>1 DEF Outdated
<1> HIDE DEF timeout, at
<1>3. SuspendTime \in Nat /\ (last_cleanup_time # InfinitePast /\ now - last_cleanup_time > 2 * Interval
                               => SuspendTime = now - last_cleanup_time - Interval)
  BY <1>0 DEF SuspendTime
<1>4. CASE slept = None \/ slept.from < at
  <2>1. AwakeSince(at) = now - at
    BY <1>0, <1>4 DEF AwakeSince
  <2> QED
    BY <1>0, <1>2, <1>3, <2>1 DEF timeout, at
<1>5. CASE slept # None /\ slept.from >= at
  <2>1. AwakeSince(at) = now - at - (slept.to - slept.from)
    BY <1>0, <1>5 DEF AwakeSince
  <2>2. slept.from < slept.to /\ slept.to <= now /\ attempt <= now
    BY <1>5 DEF DogIInv, TimesArePast
  <2>3. CASE slept.to - slept.from <= 2 * Interval
    <3>1. AwakeSince(at) + 2 * Interval >= timeout
      BY <1>0, <1>2, <1>3, <1>5, <2>1, <2>2, <2>3
    <3> QED
      BY <3>1 DEF timeout, at
  <2>4. CASE /\ slept.to - slept.from > 2 * Interval
             /\ last_cleanup_time # InfinitePast /\ last_cleanup_time <= slept.from
    <3>1. SuspendTime = now - last_cleanup_time - Interval
      BY <1>0, <1>3, <1>5, <2>2, <2>4
    <3>2. AwakeSince(at) + 2 * Interval >= timeout
      BY <1>0, <1>2, <1>5, <2>1, <2>2, <2>4, <3>1
    <3> QED
      BY <3>2 DEF timeout, at
  <2>5. CASE /\ slept.to - slept.from > 2 * Interval
             /\ last_cleanup_time # InfinitePast /\ last_cleanup_time > slept.from
    <3>1. attempt >= slept.to + 2 * Interval
      BY <1>1, <1>5, <2>5 DEF DogIInv, RoundsAfterSleep
    <3> QED
      BY <1>0, <1>5, <2>2, <2>5, <3>1
  <2>6. CASE /\ slept.to - slept.from > 2 * Interval
             /\ last_cleanup_time = InfinitePast
    <3>1. attempt > slept.from => attempt >= slept.to + Interval
      BY <1>1, <1>5, <2>6 DEF DogIInv, RoundsAfterSleep
    <3> QED
      BY <1>0, <1>5, <2>2, <2>6, <3>1
  <2> QED
    BY <1>0, <1>5, <2>3, <2>4, <2>5, <2>6
<1> QED
  BY <1>0, <1>4, <1>5

\* SleepIsNotIdleness for every interval, timeout and length of the sleep: the thread
\* and the handler each subtract the sleep by a timestamp of their own, and no order of
\* rounds, late answers and pings makes a session that slept look idle.
THEOREM SleepIsNeverIdleness == DogSpec => SleepIsNotIdleness
<1>1. DogIInv /\ [DogNext]_all_vars =>
        [\A id \in Ids \ DOMAIN session' :
          ServeCleanup /\ session[id].alive =>
             \/ AwakeSince(session[id].at) + 2 * Interval
                   >= (IF session[id].used THEN CommandTimeout ELSE CreateTimeout)
             \/ /\ slept # None
                /\ now - slept.to >= (IF last_cleanup_time = InfinitePast
                                      THEN Interval ELSE 2 * Interval)
             \/ /\ slept # None
                /\ last_cleanup_time = InfinitePast /\ attempt <= slept.from]_all_vars
  BY CleanupHasReason
<1> QED
  BY <1>1, WatchDogInvariant, PTL DEF DogSpec, SleepIsNotIdleness
=============================================================================
