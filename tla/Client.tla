------------------------------- MODULE Client -------------------------------
\* The client library (client/client.cc, client/server_launcher.cc): one
\* client::Client that finds, starts and restarts the server, keeps a session in
\* it and replays its journal of inputs into a new session when the old one is
\* lost. Every IPC call is one step, and servers start, crash, shut down and
\* drop sessions between any two of them.
EXTENDS Ipc, Sequences, SequencesExt

CONSTANTS
    SessionId,          \* ids a server hands out
    Kind,               \* the kinds of inputs: type and effect
    MaxPlayBackSize,    \* kMaxPlayBackSize
    MaxTrial,           \* kTrial of the launcher
    Bounds              \* bounds to choose from, see below

\* keys:     inputs of the user
\* kinds:    what they may be
\* faults:   crashes, timeouts, lost sessions, starts by others
\* versions: of the servers that run and of the program on disk
\* quick:    server processes start and end before anybody else moves, in a second
\* others:   the client is used for more than inputs
\* interval: the servers run with --create_session_min_interval and may refuse
ASSUME BoundsAssumption ==
    \A b \in Bounds :
        /\ b.keys \in Nat /\ b.kinds \subseteq Kind /\ b.faults \in Nat
        /\ {b.quick, b.others, b.interval} \subseteq BOOLEAN
        /\ b.versions \subseteq Version /\ b.versions # {}

ASSUME SizeAssumption ==
    /\ Cardinality(SessionId) >= 3 /\ 0 \notin SessionId
    /\ MaxPlayBackSize \in Nat \ {0} /\ MaxTrial \in Nat \ {0}
ASSUME KindAssumption ==
    Kind \subseteq {"SEND_KEY", "SEND_COMMAND", "TEST_SEND_KEY"}
                    \X {"edit", "commit", "pass"}
ASSUME VersionAssumption ==
    /\ Version \subseteq {"same", "older_product", "older_protocol", "newer_protocol"}
    /\ "same" \in Version

VARIABLES
    server_status,  \* server_status_
    id,             \* id_
    history,        \* history_inputs_
    seen,           \* server_protocol_version_ and server_product_version_
    seen_pid,       \* server_process_id_
    stack,          \* what is to be executed next, in which callers
    ret,            \* what the last of them returned
    trial,          \* the counters of the launcher's and the version check's loops
    version_trial,
    input,          \* the input of the EnsureCallCommand under way
    output,         \* the reply to the last call
    played,         \* the loop counter of PlaybackHistory
    own,            \* the process the launcher has spawned
    session,        \* the sessions of the listening server: what was typed into them
    disk,           \* the version of the server program on disk
    keys,           \* how many inputs the user has made,
    shown,          \*   the composition that the last good reply showed,
    committed,      \*   the inputs that good replies have reported as committed
    replayed,       \*   the last call replayed the whole journal before its second trial
    faults,         \* how many faults there have been
    bound           \* the bounds of this behaviour

local == <<trial, version_trial, input, output, played, own>>
ghost == <<keys, shown, committed>>
clientVars == <<server_status, id, history, seen, seen_pid, stack, ret, local,
                session, disk, ghost, replayed, faults, bound>>
cvars == <<ipcServer, ipcClient, clientVars>>

Status == {"UNKNOWN", "SHUTDOWN", "INVALID_SESSION", "OK",
           "TIMEOUT", "VERSION_MISMATCH", "BROKEN_MESSAGE", "FATAL"}
\* server_status_ >= SERVER_TIMEOUT
Dead == {"TIMEOUT", "VERSION_MISMATCH", "BROKEN_MESSAGE", "FATAL"}

\* An input of the user: a key, a command or a test key, and what the session
\* does with it: take it in, commit, or leave it to the application.
Input == [n : 1 .. bound.keys, kind : Kind]
NoInput == [n |-> 0, kind |-> <<"NO_OPERATION", "pass">>]
Type(in) == in.kind[1]
Effect(in) == in.kind[2]

\* A reply. The empty one is what an empty response parses to.
\* result: the inputs whose text it commits.
EmptyOutput == [id |-> 0, error |-> FALSE, consumed |-> FALSE, result |-> {},
                text |-> << >>]
Output == [id : SessionId \cup {0}, error : BOOLEAN, consumed : BOOLEAN,
           result : SUBSET (1 .. bound.keys), text : Seq(1 .. bound.keys)]

Labels == {"EnsureConnection", "ConnectionStarted", "StartServer", "Spawn", "StartWait",
           "WaitEvent", "LastPing", "StartTry", "EnsureSession", "SessionConnected",
           "SessionCreated", "ReturnFalse", "SetRequest", "CheckVersion", "Shutdown",
           "WaitServer", "ForceTerminate", "Reconnected", "VersionChecked",
           "EnsureCall", "SessionRestored", "Playback", "SecondTrial", "Done"}

\* The steps that neither read nor write what others can: they commute with
\* everything the others do, so nobody needs to come before them.
LocalLabels == {"EnsureConnection", "ConnectionStarted", "EnsureSession",
                "SessionConnected", "SessionCreated", "ReturnFalse", "Reconnected",
                "VersionChecked", "SessionRestored", "Done"}

ClientTypeOK ==
    /\ IpcTypeOK
    /\ server_status \in Status
    /\ id \in SessionId \cup {0}
    /\ history \in Seq(Input) /\ Len(history) <= MaxPlayBackSize
    /\ seen \in Version \cup {"unset"} /\ seen_pid \in Proc \cup {NoProc}
    /\ stack \in Seq(Labels) /\ ret \in BOOLEAN
    /\ trial \in 0 .. MaxTrial /\ version_trial \in 0 .. 1
    /\ input \in Input \cup {NoInput} /\ output \in Output
    /\ played \in 0 .. MaxPlayBackSize
    /\ own \in Proc \cup {NoProc}
    /\ DOMAIN session \subseteq SessionId /\ disk \in Version
    /\ replayed \in BOOLEAN /\ bound \in Bounds

ClientInit ==
    /\ IpcInit
    /\ server_status = "UNKNOWN" /\ id = 0
    /\ history = << >>
    /\ seen = "unset" /\ seen_pid = NoProc
    /\ stack = << >> /\ ret = TRUE
    /\ trial = 0 /\ version_trial = 0
    /\ input = NoInput /\ output = EmptyOutput /\ played = 0 /\ own = NoProc
    /\ session = << >>
    /\ keys = 0 /\ shown = << >> /\ committed = {} /\ replayed = FALSE
    /\ faults = 0
    /\ bound \in Bounds
    /\ disk \in bound.versions
    /\ \A p \in Proc : proc[p].st = "none" \/ proc[p].version \in bound.versions

-----------------------------------------------------------------------------
\* Control: the top of the stack is executed, and returns to what is below it.
At(label) == stack # << >> /\ Head(stack) = label
Goto(label) == stack' = <<label>> \o Tail(stack) /\ UNCHANGED ret
Perform(label, then) == stack' = <<label, then>> \o Tail(stack) /\ UNCHANGED ret
Return(value) == stack' = Tail(stack) /\ ret' = value

Fault == faults < bound.faults /\ faults' = faults + 1
NoFault == UNCHANGED faults

OtherProtocol == {"older_protocol", "newer_protocol"}

\* Where a new process goes, if there is place.
FreePlace ==
    LET free == {p \in Proc : proc[p].st = "none"}
    IN  IF free = {} THEN {} ELSE {CHOOSE p \in free : TRUE}

\* What a session makes of an input.
Typed(text, in) ==
    IF Type(in) = "TEST_SEND_KEY" \/ Effect(in) = "pass" THEN text
    ELSE IF Effect(in) = "edit" THEN Append(text, in.n) ELSE << >>

\* SessionHandler::EvalCommand for one of the inputs above. Every other session
\* but this client's is left out.
EvalInput(in, sid) ==
    IF sid \notin DOMAIN session
    THEN [sessions |-> session, reply |-> [EmptyOutput EXCEPT !.error = TRUE]]
    ELSE LET text == Typed(session[sid], in)
         IN  [sessions |-> [session EXCEPT ![sid] = text],
              reply |-> [id |-> sid, error |-> FALSE, consumed |-> Effect(in) # "pass",
                         result |-> IF Effect(in) = "commit" /\ Type(in) # "TEST_SEND_KEY"
                                    THEN Range(session[sid]) \cup {in.n} ELSE {},
                         text |-> text]]

\* CREATE_SESSION. The client has forgotten the session it may have had before,
\* so that one is left out too from now on.
EvalCreate ==
    LET new == CHOOSE s \in SessionId : s \notin DOMAIN session \cup {id}
    IN  [sessions |-> [s \in {new} |-> << >>],
         reply |-> [EmptyOutput EXCEPT !.id = new]]

\* CREATE_SESSION too soon after another.
EvalRefused ==
    [sessions |-> session, reply |-> [EmptyOutput EXCEPT !.error = TRUE]]

\* DELETE_SESSION
EvalDelete(sid) ==
    [sessions |-> [s \in DOMAIN session \ {sid} |-> session[s]],
     reply |-> [EmptyOutput EXCEPT !.id = sid]]

\* A command that no session is needed for.
EvalOther(sid) ==
    [sessions |-> session, reply |-> [EmptyOutput EXCEPT !.id = sid]]

-----------------------------------------------------------------------------
\* What a call returns: the result, the reply and the new server_status_.
Reply(ok, out, status) == [ok |-> ok, out |-> out, status |-> status]
Replies(eval) ==
    {Reply(TRUE, out, server_status) : out \in {eval.reply, EmptyOutput}} \cup
    {Reply(FALSE, EmptyOutput, status) :
        status \in {server_status, "SHUTDOWN", "BROKEN_MESSAGE", "TIMEOUT"}}

\* What can become of a request that was sent to p. A server that dies after it
\* has read the request closes the connection, which RecvMessage takes for the
\* end of an empty reply; so does one that evaluates SHUTDOWN.
Exchange(p, eval, shuts, r) ==
    \/ /\ ~shuts /\ NoFault
       /\ r = Reply(TRUE, eval.reply, server_status)
       /\ session' = eval.sessions /\ path' = KeyOf(p) /\ UNCHANGED ipcServer
    \/ /\ shuts /\ NoFault
       /\ r = Reply(TRUE, EmptyOutput, server_status)
       /\ session' = << >> /\ LoopEnds(p) /\ path' = KeyOf(p)
    \/ /\ Fault           \* dies before it reads, before or while it answers
       /\ r \in {Reply(FALSE, EmptyOutput, "SHUTDOWN"),
                 Reply(TRUE, EmptyOutput, server_status),
                 Reply(FALSE, EmptyOutput, "BROKEN_MESSAGE")}
       /\ session' = << >> /\ Died(p, KeyOf(p))
    \/ /\ Fault           \* answers too late
       /\ r = Reply(FALSE, EmptyOutput, "TIMEOUT")
       /\ session' = eval.sessions /\ path' = KeyOf(p) /\ UNCHANGED ipcServer

\* Nobody is asked.
NotSent(c, status, r) ==
    /\ r = Reply(FALSE, EmptyOutput, status)
    /\ NoFault /\ path' = c.path /\ UNCHANGED <<ipcServer, session>>

\* Client::Call
Call(eval, shuts, r) ==
    LET c == Connect IN
    \/ /\ server_status \in Dead
       /\ NotSent(Cache, server_status, r) /\ UNCHANGED <<last_modified, seen, seen_pid>>
    \/ /\ server_status \notin Dead
       /\ last_modified' = c.stamp
       /\ seen' = (IF c.to = NoProc THEN "same" ELSE c.path.version)
       /\ seen_pid' = c.to
       /\ \/ /\ c.to = NoProc
             /\ NotSent(c, IF server_status = "UNKNOWN" THEN "UNKNOWN" ELSE "SHUTDOWN", r)
          \/ /\ c.to # NoProc /\ c.path.version \in OtherProtocol
             /\ NotSent(c, server_status, r)
          \/ /\ c.to # NoProc /\ c.path.version \notin OtherProtocol
             /\ Exchange(c.to, eval, shuts, r)

\* Client::PingServer: whatever the status and the version, and without a trace.
PingServer(ok) ==
    LET c == Connect IN
    /\ last_modified' = c.stamp
    /\ UNCHANGED <<seen, seen_pid>>
    /\ \E r \in Replies(EvalOther(id)) :
         /\ IF c.to = NoProc THEN NotSent(c, server_status, r)
                             ELSE Exchange(c.to, EvalOther(id), FALSE, r)
         /\ ok = r.ok

\* Nothing but the stack moves.
calls == <<ipcServer, ipcClient, seen, seen_pid, session, faults>>
journal == <<history, played, input, ghost, replayed>>
loops == <<trial, version_trial, own>>

-----------------------------------------------------------------------------
\* EnsureConnection: errors are reported once and are fatal; a server that is
\* not known to run is started.
EnsureConnection ==
    /\ At("EnsureConnection")
    /\ \/ /\ server_status \in {"OK", "INVALID_SESSION"}
          /\ Return(TRUE) /\ UNCHANGED server_status
       \/ /\ server_status \in Dead
          /\ server_status' = "FATAL" /\ Return(FALSE)
       \/ /\ server_status \in {"SHUTDOWN", "UNKNOWN"}
          /\ Perform("StartServer", "ConnectionStarted") /\ UNCHANGED server_status
    /\ UNCHANGED <<calls, journal, loops, id, output, disk>>

ConnectionStarted ==
    /\ At("ConnectionStarted")
    /\ server_status' = (IF ret THEN "INVALID_SESSION" ELSE "FATAL")
    /\ Return(ret)
    /\ UNCHANGED <<calls, journal, loops, id, output, disk>>

\* ServerLauncher::StartServer: ping, spawn, ping, wait, ping again and again.
StartServer ==
    /\ At("StartServer")
    /\ \E ok \in BOOLEAN : PingServer(ok) /\ IF ok THEN Return(TRUE) ELSE Goto("Spawn")
    /\ UNCHANGED <<server_status, journal, loops, id, output, disk>>

Spawn ==
    /\ At("Spawn")
    /\ \/ \E p \in Proc :
            /\ p \in FreePlace
            /\ proc' = Spawned(p, disk) /\ own' = p
            /\ Goto("StartWait") /\ NoFault
       \/ /\ Fault
          /\ Return(FALSE) /\ UNCHANGED <<proc, own>>
    /\ UNCHANGED <<server_mutex, file, file_lock, ipcClient, server_status, id,
                   seen, seen_pid, session, journal, trial, version_trial, output, disk>>

StartWait ==
    /\ At("StartWait")
    /\ \E ok \in BOOLEAN : PingServer(ok) /\ IF ok THEN Return(TRUE) ELSE Goto("WaitEvent")
    /\ UNCHANGED <<server_status, journal, loops, id, output, disk>>

\* WaitEventOrProcess: the process has ended, or the event or the timeout came.
WaitEvent ==
    /\ At("WaitEvent")
    /\ \/ proc[own].st = "none" /\ Goto("LastPing") /\ UNCHANGED trial
       \/ Goto("StartTry") /\ trial' = 0
    /\ UNCHANGED <<server_status, calls, journal, version_trial, own, id, output, disk>>

LastPing ==
    /\ At("LastPing")
    /\ \E ok \in BOOLEAN : PingServer(ok) /\ Return(ok)
    /\ UNCHANGED <<server_status, journal, loops, id, output, disk>>

StartTry ==
    /\ At("StartTry")
    /\ \E ok \in BOOLEAN :
         /\ PingServer(ok)
         /\ CASE ok -> Return(TRUE) /\ UNCHANGED trial
              [] ~ok /\ trial + 1 < MaxTrial -> Goto("StartTry") /\ trial' = trial + 1
              [] OTHER -> Return(FALSE) /\ UNCHANGED trial
    /\ UNCHANGED <<server_status, journal, version_trial, own, id, output, disk>>

-----------------------------------------------------------------------------
EnsureSession ==
    /\ At("EnsureSession")
    /\ Perform("EnsureConnection", "SessionConnected")
    /\ UNCHANGED <<server_status, calls, journal, loops, id, output, disk>>

\* CreateSession forgets the old id before it asks for a new one.
SessionConnected ==
    /\ At("SessionConnected")
    /\ \/ /\ ~ret \/ server_status = "OK"
          /\ Return(ret) /\ UNCHANGED <<id, version_trial>>
       \/ /\ ret /\ server_status # "OK"
          /\ id' = 0 /\ version_trial' = 0
          /\ Perform("CheckVersion", "SessionCreated")
    /\ UNCHANGED <<server_status, calls, journal, trial, own, output, disk>>

SessionCreated ==
    /\ At("SessionCreated")
    /\ \/ /\ ret /\ ~output.error
          /\ id' = output.id /\ Goto("SetRequest") /\ UNCHANGED server_status
       \/ /\ ret /\ output.error
          /\ server_status' = "INVALID_SESSION"
          /\ Perform("EnsureConnection", "ReturnFalse") /\ UNCHANGED id
       \/ /\ ~ret
          /\ Perform("EnsureConnection", "ReturnFalse") /\ UNCHANGED <<server_status, id>>
    /\ UNCHANGED <<calls, journal, loops, output, disk>>

ReturnFalse ==
    /\ At("ReturnFalse") /\ Return(FALSE)
    /\ UNCHANGED <<server_status, calls, journal, loops, id, output, disk>>

\* Whatever becomes of SET_REQUEST, the session counts as good.
SetRequest ==
    /\ At("SetRequest")
    /\ \E r \in Replies(EvalOther(id)) : Call(EvalOther(id), FALSE, r)
    /\ server_status' = "OK" /\ Return(TRUE)
    /\ UNCHANGED <<journal, loops, id, output, disk>>

-----------------------------------------------------------------------------
\* Fault: the loop has no end.
IsLastTrialNever == FALSE

IsLastTrial == version_trial > 0

\* Fault: an older product version is good enough.
MismatchOfProtocol(ok, version) == ~ok /\ version \in {"unset", "older_protocol"}

\* The server is older than this client.
Mismatch(ok, version) ==
    \/ ok /\ version = "older_product"
    \/ ~ok /\ version \in {"unset", "older_protocol"}

\* CheckVersionOrRestartServerInternal: one round of its loop.
CheckVersion ==
    LET creating == Len(stack) > 1 /\ stack[2] = "SessionCreated"
        Judged(r) ==
            /\ output' = r.out
            /\ CASE ~r.ok /\ seen' = "newer_protocol" ->
                      server_status' = "VERSION_MISMATCH" /\ Return(FALSE)
                 [] Mismatch(r.ok, seen') /\ IsLastTrial ->
                      server_status' = "BROKEN_MESSAGE" /\ Return(FALSE)
                 [] Mismatch(r.ok, seen') /\ ~IsLastTrial ->
                      /\ server_status' = r.status
                      /\ Goto(IF r.ok THEN "Shutdown" ELSE "ForceTerminate")
                 [] OTHER -> server_status' = r.status /\ Return(r.ok)
    IN  /\ At("CheckVersion")
        /\ \E eval \in IF ~creating THEN {EvalOther(id)}
                      ELSE {EvalCreate} \cup {e \in {EvalRefused} : bound.interval} :
             \E r \in Replies(eval) : Call(eval, FALSE, r) /\ Judged(r)
        /\ UNCHANGED <<journal, loops, id, disk>>

\* The SHUTDOWN command, whose result does not matter.
ShutdownServer ==
    /\ At("Shutdown") /\ Goto("WaitServer")
    /\ \E r \in Replies(EvalOther(id)) : Call(EvalOther(id), TRUE, r) /\ server_status' = r.status
    /\ UNCHANGED <<journal, loops, id, output, disk>>

\* WaitServer, and if the process does not end, kill it.
WaitServer ==
    /\ At("WaitServer")
    /\ \/ /\ IF seen_pid = NoProc THEN TRUE ELSE proc[seen_pid].st = "none"
          /\ server_status' = "UNKNOWN"
          /\ Perform("EnsureConnection", "Reconnected")
       \/ /\ IF seen_pid = NoProc THEN FALSE ELSE proc[seen_pid].st # "none"
          /\ Goto("ForceTerminate") /\ UNCHANGED server_status
    /\ UNCHANGED <<calls, journal, loops, id, output, disk>>

\* TerminateServer kills the server it can connect to, and WaitServer waits. When the
\* kill fails, the version cannot be mended.
ForceTerminate ==
    LET c == Connect
    IN  /\ At("ForceTerminate")
        /\ last_modified' = c.stamp
        /\ \/ /\ IF c.to = NoProc THEN path' = c.path /\ UNCHANGED <<ipcServer, session>>
                                 ELSE Died(c.to, c.path) /\ session' = << >>
              /\ server_status' = "UNKNOWN" /\ NoFault
              /\ Perform("EnsureConnection", "Reconnected")
           \/ /\ c.to # NoProc /\ path' = c.path /\ UNCHANGED <<ipcServer, session>>
              /\ server_status' = "BROKEN_MESSAGE" /\ Fault
              /\ Return(FALSE)
        /\ UNCHANGED <<seen, seen_pid, journal, loops, id, output, disk>>

Reconnected ==
    /\ At("Reconnected")
    /\ \/ /\ ret
          /\ version_trial' = 1 /\ Goto("CheckVersion") /\ UNCHANGED server_status
       \/ /\ ~ret
          /\ server_status' = "VERSION_MISMATCH" /\ Return(FALSE)
          /\ UNCHANGED version_trial
    /\ UNCHANGED <<calls, journal, trial, own, id, output, disk>>

\* CheckVersionOrRestartServer
VersionChecked ==
    /\ At("VersionChecked")
    /\ IF ret THEN Return(TRUE) ELSE Goto("EnsureConnection")
    /\ UNCHANGED <<server_status, calls, journal, loops, id, output, disk>>

-----------------------------------------------------------------------------
\* Fault: a journal that was full once is replayed as if it were complete.
TooLongOnlyBeyond == Len(history) > MaxPlayBackSize

\* PlaybackHistory gives up on a full journal: more may have followed.
TooLong == Len(history) >= MaxPlayBackSize

\* PushHistory: consumed inputs until a key commits.
PushHistory(out) ==
    IF ~out.consumed THEN history
    ELSE IF Type(input) = "SEND_KEY" /\ out.result # {} THEN << >>
    ELSE IF Len(history) < MaxPlayBackSize THEN Append(history, input) ELSE history

\* CallAndCheckVersion: a failed call to another protocol is a mismatch.
CheckedStatus(status) ==
    IF seen' \in OtherProtocol \cup {"unset"} THEN "VERSION_MISMATCH" ELSE status

\* The application gets a reply of its session.
Delivered(out) ==
    IF out.id # 0 /\ out.id = id
    THEN /\ shown' = out.text
         /\ committed' = committed \cup out.result
    ELSE UNCHANGED <<shown, committed>>

\* EnsureCallCommand: the first trial, in the session of EnsureSession.
EnsureCall ==
    LET Taken(r) ==
            LET lost == r.ok /\ r.out.id # id
                then == CASE r.ok /\ lost -> "INVALID_SESSION"
                          [] r.ok /\ ~lost -> r.status
                          [] OTHER -> CheckedStatus(r.status)
            IN  /\ output' = r.out
                /\ server_status' = then
                /\ CASE then \in Dead -> Return(FALSE) /\ UNCHANGED <<history, shown, committed>>
                     [] then \in {"SHUTDOWN", "INVALID_SESSION"} ->
                          /\ Perform("EnsureSession", "SessionRestored")
                          /\ UNCHANGED <<history, shown, committed>>
                     [] OTHER -> /\ Return(TRUE)
                                 /\ history' = PushHistory(r.out) /\ Delivered(r.out)
    IN  /\ At("EnsureCall")
        /\ \/ /\ ~ret /\ Return(FALSE)
              /\ UNCHANGED <<calls, server_status, output, history, shown, committed>>
           \/ /\ ret
              /\ \E r \in Replies(EvalInput(input, id)) :
                   Call(EvalInput(input, id), FALSE, r) /\ Taken(r)
        /\ UNCHANGED <<played, input, keys, replayed, loops, id, disk>>

\* Fault: the input under way is journalled before the replay.
SessionRestoredWithInput ==
    /\ At("SessionRestored")
    /\ IF ~ret
       THEN Return(FALSE) /\ UNCHANGED <<history, played, replayed>>
       ELSE /\ history' = (IF TooLong THEN << >> ELSE Append(history, input))
            /\ played' = 0 /\ replayed' = FALSE
            /\ Goto(IF TooLong THEN "SecondTrial" ELSE "Playback")
    /\ UNCHANGED <<server_status, calls, input, ghost, loops, id, output, disk>>

\* PlaybackHistory into the new session.
SessionRestored ==
    /\ At("SessionRestored")
    /\ \/ /\ ~ret
          /\ Return(FALSE) /\ UNCHANGED <<history, played, replayed>>
       \/ /\ ret /\ TooLong
          /\ history' = << >> /\ Goto("SecondTrial") /\ UNCHANGED <<played, replayed>>
       \/ /\ ret /\ ~TooLong
          /\ played' = 0
          /\ replayed' = (history = << >>)
          /\ Goto(IF history = << >> THEN "SecondTrial" ELSE "Playback")
          /\ UNCHANGED history
    /\ UNCHANGED <<server_status, calls, input, ghost, loops, id, output, disk>>

Playback ==
    LET Evaluated == EvalInput(history[played + 1], id)
        last == played + 1 = Len(history)
    IN  /\ At("Playback")
        /\ \E r \in Replies(Evaluated) :
             /\ Call(Evaluated, FALSE, r)
             /\ server_status' = r.status
             /\ played' = (IF r.ok THEN played + 1 ELSE played)
             /\ replayed' = (r.ok /\ last)
             /\ Goto(IF r.ok /\ ~last THEN "Playback" ELSE "SecondTrial")
        /\ UNCHANGED <<history, input, ghost, loops, id, output, disk>>

\* The second trial: its reply is taken as it is, and a failure clears the
\* journal (DumpQueryOfDeath).
SecondTrial ==
    LET Evaluated == EvalInput(input, id)
    IN  /\ At("SecondTrial")
        /\ \E r \in Replies(Evaluated) :
             /\ Call(Evaluated, FALSE, r)
             /\ output' = r.out /\ Return(r.ok)
             /\ IF r.ok
                THEN /\ server_status' = r.status
                     /\ history' = PushHistory(r.out) /\ Delivered(r.out)
                ELSE /\ server_status' = CheckedStatus(r.status)
                     /\ history' = << >> /\ UNCHANGED <<shown, committed>>
        /\ UNCHANGED <<played, input, keys, replayed, loops, id, disk>>

\* The variables of the operation are gone.
Done ==
    /\ At("Done") /\ Return(TRUE)
    /\ trial' = 0 /\ version_trial' = 0 /\ input' = NoInput /\ output' = EmptyOutput
    /\ played' = 0 /\ own' = NoProc /\ replayed' = FALSE /\ seen_pid' = NoProc
    /\ UNCHANGED <<server_status, ipcServer, ipcClient, seen, session, faults, history,
                   ghost, id, disk>>

-----------------------------------------------------------------------------
Idle == stack = << >>

\* SendKeyWithContext, TestSendKeyWithContext, SendCommandWithContext
SendInput(in) ==
    /\ Idle /\ in.n = keys + 1
    /\ keys' = in.n /\ input' = in
    /\ stack' = <<"EnsureSession", "EnsureCall", "Done">>
    /\ UNCHANGED <<server_status, calls, history, played, shown, committed, replayed,
                   loops, id, ret, output, disk>>

\* CallCommand: SyncData, Reload, Cleanup, GetConfig and the like.
CallCommand ==
    /\ Idle /\ stack' = <<"Done">>
    /\ \E r \in Replies(EvalOther(id)) : Call(EvalOther(id), FALSE, r) /\ server_status' = r.status
    /\ UNCHANGED <<journal, loops, ret, id, output, disk>>

\* EnsureConnection, EnsureSession and CheckVersionOrRestartServer of the client
\* interface.
Ensure ==
    /\ Idle
    /\ stack' \in {<<"EnsureConnection", "Done">>, <<"EnsureSession", "Done">>,
                   <<"CheckVersion", "VersionChecked", "Done">>}
    /\ UNCHANGED <<server_status, calls, journal, loops, ret, id, output, disk>>

Reset ==
    /\ Idle /\ server_status # "UNKNOWN"
    /\ server_status' = "UNKNOWN" /\ seen' = "unset" /\ seen_pid' = NoProc
    /\ UNCHANGED <<ipcServer, ipcClient, session, faults, journal, loops, stack, ret,
                   id, output, disk>>

\* The application drops its client and makes a new one.
Replace ==
    /\ Idle /\ id # 0
    /\ \E r \in Replies(EvalDelete(id)) : Call(EvalDelete(id), FALSE, r)
    /\ server_status' = "UNKNOWN" /\ id' = 0 /\ history' = << >>
    /\ shown' = << >> /\ stack' = <<"Done">>
    /\ UNCHANGED <<played, input, keys, committed, replayed, loops, ret, output, disk>>

ClientStep ==
    \/ EnsureConnection \/ ConnectionStarted
    \/ StartServer \/ Spawn \/ StartWait \/ WaitEvent \/ LastPing \/ StartTry
    \/ EnsureSession \/ SessionConnected \/ SessionCreated \/ ReturnFalse \/ SetRequest
    \/ CheckVersion \/ ShutdownServer \/ WaitServer \/ ForceTerminate \/ Reconnected
    \/ VersionChecked
    \/ EnsureCall \/ SessionRestored \/ Playback \/ SecondTrial \/ Done

Operation ==
    \/ \E n \in 1 .. bound.keys, kind \in bound.kinds : SendInput([n |-> n, kind |-> kind])
    \/ bound.others /\ (CallCommand \/ Ensure \/ Reset \/ Replace)

-----------------------------------------------------------------------------
unheard == <<server_status, id, history, seen, seen_pid, stack, ret, local, disk,
             ghost, replayed>>

ServerProceeds(p) ==
    /\ ServerStep(p, IF bound.quick THEN {0} ELSE Stamp)
    /\ UNCHANGED clientVars

\* A server crashes or is killed by another client.
Crash(p) ==
    /\ proc[p].st # "none" /\ Fault
    /\ Died(p, path) /\ UNCHANGED last_modified
    /\ session' = IF proc[p].st = "ready" THEN << >> ELSE session
    /\ UNCHANGED <<unheard>>

\* SHUTDOWN ends the loop: another client's or a tool's, the server's own when it
\* is idle, or this client's, which leaves server_status_ as it is.
OthersShutdown(p) ==
    /\ proc[p].st = "ready" /\ Fault
    /\ LoopEnds(p) /\ session' = << >>
    /\ UNCHANGED <<unheard, ipcClient>>

\* Another client launches a server.
OthersSpawn(p) ==
    /\ p \in FreePlace \ {own} /\ Fault
    /\ proc' = Spawned(p, disk)
    /\ UNCHANGED <<server_mutex, file, file_lock, session, unheard, ipcClient>>

\* The server drops a session: the table is full, or it is outdated.
LoseSession(s) ==
    /\ Fault
    /\ session' = [t \in DOMAIN session \ {s} |-> session[t]]
    /\ UNCHANGED <<ipcServer, unheard, ipcClient>>

Others ==
    \/ \E p \in Proc : Crash(p) \/ OthersShutdown(p) \/ OthersSpawn(p)
    \/ \E s \in DOMAIN session : LoseSession(s)

\* Who has to wait for whom: nobody moves before a local step, and in a quick
\* behaviour nobody before a server process that can go on.
AtLocalStep == stack # << >> /\ Head(stack) \in LocalLabels
ServersRest ==
    bound.quick => \A p \in Proc : proc[p].st \in {"none", "ready"}

ClientNext ==
    /\ UNCHANGED bound
    /\ \/ (AtLocalStep \/ ServersRest) /\ ClientStep
       \/ ServersRest /\ Operation
       \/ ~AtLocalStep /\ ServersRest /\ Others
       \/ ~AtLocalStep /\ \E p \in Proc : ServerProceeds(p)

\* The client's thread and the server processes keep running; nobody has to call,
\* crash or time out.
ClientSpec ==
    /\ ClientInit /\ [][ClientNext]_cvars
    /\ WF_cvars(UNCHANGED bound /\ (AtLocalStep \/ ServersRest) /\ ClientStep)
    /\ \A p \in Proc : WF_cvars(~AtLocalStep /\ ServerProceeds(p))

-----------------------------------------------------------------------------
\* The composition that the application is shown holds every input at most once
\* and in the order of typing, over every crash, retry and replay.
ShownIsInOrder == \A i, j \in DOMAIN shown : i < j => shown[i] < shown[j]

\* Text that was committed never comes back into the composition, although
\* commands that commit stay in the journal and the journal is cut off.
CommittedStaysCommitted == Range(shown) \cap committed = {}

\* The session a client holds is one of a server of its own version.
SessionOnCurrentVersion ==
    (id \in DOMAIN session /\ stack = << >>)
        => \A p \in Proc : proc[p].st = "ready" => proc[p].version = "same"

\* Every operation of the client returns: no loop of retries, restarts and
\* version checks goes on for ever, whatever the servers do.
EveryCallReturns == (stack # << >>) ~> (stack = << >>)

\* What client.h says of the journal: replaying it restores the composition as it
\* was shown before the session was lost.
ReplayRestores ==
    [][(At("SecondTrial") /\ replayed /\ shown' # shown)
            => shown' = Typed(shown, input)]_cvars
=============================================================================
