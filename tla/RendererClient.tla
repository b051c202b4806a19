--------------------------- MODULE RendererClient ---------------------------
\* The candidate window's process as a client sees it (renderer/renderer_client.cc):
\* ExecCommand sends what is to be shown, or leaves it to the launcher's thread,
\* which starts the renderer and hands over the command that has waited for it.
EXTENDS Naturals

CONSTANTS
    Window,                 \* what an UPDATE may show
    MaxErrorTimes,          \* kMaxErrorTimes
    MaxVersionMismatchNums  \* kMaxVersionMismatchNums
ASSUME RendererAssumption ==
    /\ MaxErrorTimes \in Nat /\ MaxVersionMismatchNums \in Nat
    /\ Window \cap {"none", "hide", "noop"} = {}

VARIABLES
    renderer_status,        \* renderer_status_
    pending_command,        \* pending_command_
    error_times,            \* error_times_
    elapsed,                \* kRetryIntervalTime has passed since last_launch_time_
    launcher,               \* where the launcher's thread is
    version_mismatch_nums,  \* version_mismatch_nums_
    executing,              \* where ExecCommand is
    command,                \*   and its command
    renderer,               \* the renderer's process
    build,                  \*   its version
    shown,                  \*   and its window
    last,                   \* ghost: the last UPDATE
    excused,                \* ghost: why the window may be another one is known
    kills                   \* ghost: how often a renderer was told to end

rendererVars == <<renderer_status, pending_command, error_times, elapsed, launcher,
                  version_mismatch_nums, executing, command, renderer, build, shown,
                  last, excused, kills>>

Update == Window \cup {"hide"}
Command == Update \cup {"noop"}
RendererTypeOK ==
    /\ renderer_status \in {"UNKNOWN", "LAUNCHING", "READY", "TIMEOUT", "TERMINATED", "FATAL"}
    /\ {pending_command, shown, last} \subseteq Update \cup {"none"}
    /\ command \in Command
    /\ error_times \in Nat /\ version_mismatch_nums \in 0 .. MaxVersionMismatchNums
    /\ kills \in Nat
    /\ launcher \in {"none", "spawn", "wait", "count", "flush"}
    /\ executing \in {"no", "pend", "recheck", "connect", "restart", "join"}
    /\ renderer \in {"none", "starting", "up", "ending"}
    /\ build \in {"same", "older", "newer", "different"}
    /\ {elapsed, excused} \subseteq BOOLEAN

\* Another client may have started a renderer, of any version, before.
RendererInit ==
    /\ renderer_status = "UNKNOWN" /\ pending_command = "none" /\ error_times = 0
    /\ elapsed = TRUE /\ launcher = "none" /\ version_mismatch_nums = 0
    /\ executing = "no" /\ command = "noop"
    /\ renderer \in {"none", "up"} /\ build \in {"same", "older", "newer", "different"}
    /\ shown = "none" /\ last = "none" /\ excused = FALSE /\ kills = 0

client == <<version_mismatch_nums, executing, command>>
process == <<renderer, build, shown>>
ghosts == <<last, excused, kills>>

-----------------------------------------------------------------------------
\* It answers, or may, until it has ended.
Up == renderer \in {"up", "ending"}

CanConnect ==
    \/ renderer_status \in {"UNKNOWN", "READY"}
    \/ renderer_status \in {"TIMEOUT", "TERMINATED"} /\ error_times <= MaxErrorTimes /\ elapsed

\* SetPendingCommand: the first one stays.
Crowded == command \in Update /\ pending_command # "none"
SetPendingCommand ==
    /\ pending_command' = (IF command \in Update /\ pending_command = "none" THEN command
                                                                            ELSE pending_command)
\* ExecCommand: is the renderer there ...
ExecCommand(c) ==
    /\ executing = "no"
    /\ command' = c
    /\ executing' = (IF CanConnect THEN "connect" ELSE "pend")
    /\ IF c \in Update THEN last' = c /\ excused' = FALSE ELSE UNCHANGED <<last, excused>>
    /\ UNCHANGED <<renderer_status, pending_command, error_times, elapsed, launcher,
                   version_mismatch_nums, process, kills>>

Pend ==
    /\ executing = "pend" /\ executing' = "recheck"
    /\ SetPendingCommand
    /\ excused' = (excused \/ Crowded)
    /\ UNCHANGED <<renderer_status, error_times, elapsed, launcher, version_mismatch_nums,
                   command, process, last, kills>>

\* Fault: what is pending is left to the launcher.
RecheckNothing ==
    /\ executing = "recheck" /\ executing' = "no"
    /\ UNCHANGED <<renderer_status, pending_command, error_times, elapsed, launcher,
                   version_mismatch_nums, command, process, ghosts>>

\* ... or by now?
Recheck ==
    /\ executing = "recheck"
    /\ executing' = (IF CanConnect THEN "connect" ELSE "no")
    /\ UNCHANGED <<renderer_status, pending_command, error_times, elapsed, launcher,
                   version_mismatch_nums, command, process, ghosts>>

\* A command that is given up, for a reason the properties know.
GiveUp ==
    /\ executing' = "no" /\ excused' = TRUE
    /\ UNCHANGED <<renderer_status, pending_command, error_times, elapsed, launcher,
                   version_mismatch_nums, command, process, last, kills>>

\* After too many renderers of another version, while it does not answer in time,
\* or with nothing to hide, nothing is sent.
Drop ==
    /\ executing = "connect"
    /\ \/ version_mismatch_nums >= MaxVersionMismatchNums
       \/ Up
       \/ ~Up /\ command = "hide"
    /\ GiveUp

CannotConnect ==
    /\ executing = "connect" /\ version_mismatch_nums < MaxVersionMismatchNums
    /\ ~Up /\ command # "hide"
    /\ executing' = "restart"
    /\ UNCHANGED <<renderer_status, pending_command, error_times, elapsed, launcher,
                   version_mismatch_nums, command, process, ghosts>>

\* "restarting": StartRenderer, unless it was started already.
Restart ==
    /\ executing = "restart"
    /\ SetPendingCommand
    /\ IF renderer_status \in {"LAUNCHING", "READY", "TIMEOUT"}
       THEN executing' = "no" /\ excused' = TRUE /\ UNCHANGED renderer_status
       ELSE /\ executing' = "join" /\ renderer_status' = "LAUNCHING"
            /\ excused' = (excused \/ Crowded)
    /\ UNCHANGED <<error_times, elapsed, launcher, version_mismatch_nums, command, process, last,
                   kills>>

\* launcher_->Wait(): the thread of the launch before has to end first.
WaitLauncher ==
    /\ executing = "join" /\ launcher = "none"
    /\ executing' = "no" /\ launcher' = "spawn"
    /\ UNCHANGED <<renderer_status, pending_command, error_times, elapsed, version_mismatch_nums,
                   command, process, ghosts>>

\* A renderer of an older protocol is killed, one of an older version told to end.
\* The kill may fail, and a renderer told to end does so later, or (Qt's) never:
\* the client goes on alike. With a status of READY or TIMEOUT no launcher will send
\* what is left pending here.
ReplaceRenderer ==
    /\ executing = "connect" /\ version_mismatch_nums < MaxVersionMismatchNums
    /\ Up /\ build \in {"older", "different"}
    /\ executing' = "no"
    /\ SetPendingCommand
    /\ excused' = (excused \/ Crowded \/ renderer_status \in {"READY", "TIMEOUT"})
    /\ renderer' \in {renderer, "ending"} /\ kills' = kills + 1
    /\ version_mismatch_nums' = version_mismatch_nums + 1
    /\ UNCHANGED <<renderer_status, error_times, elapsed, launcher, command, build, shown, last>>

\* One of a newer protocol ends it for this client: INT_MAX.
TooOld ==
    /\ executing = "connect" /\ version_mismatch_nums < MaxVersionMismatchNums
    /\ Up /\ build = "newer"
    /\ executing' = "no" /\ excused' = TRUE
    /\ version_mismatch_nums' = MaxVersionMismatchNums
    /\ UNCHANGED <<renderer_status, pending_command, error_times, elapsed, launcher,
                   command, process, last, kills>>

\* What a command does to the window.
Showing(c) == IF c \in Update THEN c ELSE shown

\* CallCommand; its failure is only logged, and is one of Drop's.
Call ==
    /\ executing = "connect" /\ version_mismatch_nums < MaxVersionMismatchNums
    /\ Up /\ build = "same"
    /\ shown' = Showing(command)
    /\ executing' = "no"
    /\ UNCHANGED <<renderer_status, pending_command, error_times, elapsed, launcher,
                   version_mismatch_nums, command, renderer, build, ghosts>>

-----------------------------------------------------------------------------
\* ThreadMain: the process is started; next to another one it ends at once.
Spawn ==
    /\ launcher = "spawn"
    /\ elapsed' = FALSE
    /\ \/ /\ launcher' = "wait"
          /\ IF renderer = "none" THEN renderer' = "starting" /\ build' \in {"same", "different"}
                                  ELSE UNCHANGED <<renderer, build>>
          /\ UNCHANGED renderer_status
       \/ launcher' = "none" /\ renderer_status' = "FATAL" /\ UNCHANGED <<renderer, build>>
    /\ UNCHANGED <<pending_command, error_times, client, shown, ghosts>>

\* WaitEventOrProcess: a timeout, or the end of the process, which is seen in the
\* status before it is counted ...
WaitFailed ==
    /\ launcher = "wait" /\ launcher' = "count"
    /\ renderer_status' \in {"TIMEOUT", "TERMINATED"}
    /\ renderer_status' = "TIMEOUT" <=> renderer = "starting"
    /\ UNCHANGED <<pending_command, error_times, elapsed, client, process, ghosts>>
CountFailure ==
    /\ launcher = "count" /\ launcher' = "none"
    /\ error_times' = error_times + 1
    /\ UNCHANGED <<renderer_status, pending_command, elapsed, client, process, ghosts>>

\* ... or the renderer's event; without a listener, ten seconds.
WaitDone ==
    /\ launcher = "wait" /\ launcher' = "flush"
    /\ UNCHANGED <<renderer_status, pending_command, error_times, elapsed, client, process,
                   ghosts>>

\* FlushPendingCommand, all of it under mu_.
FlushPendingCommand ==
    /\ launcher = "flush" /\ launcher' = "none"
    /\ \/ Up /\ shown' = (IF pending_command = "none" THEN shown ELSE pending_command)
          /\ UNCHANGED excused
       \/ shown' = shown /\ excused' = TRUE
    /\ pending_command' = "none"
    /\ renderer_status' = "READY" /\ error_times' = 0
    /\ UNCHANGED <<elapsed, client, renderer, build, last, kills>>

-----------------------------------------------------------------------------
\* Surroundings: a renderer gets ready, dies, or is started for another client.
Ready ==
    /\ renderer = "starting" /\ renderer' = "up"
    /\ UNCHANGED <<renderer_status, pending_command, error_times, elapsed, launcher, client,
                   build, shown, ghosts>>
RendererEnds ==
    /\ renderer # "none" /\ renderer' = "none"
    /\ shown' = "none" /\ excused' = (excused \/ renderer # "ending")
    /\ UNCHANGED <<renderer_status, pending_command, error_times, elapsed, launcher, client,
                   build, last, kills>>
OtherStarts ==
    /\ renderer = "none" /\ renderer' = "up"
    /\ build' \in {"same", "older", "newer", "different"} /\ excused' = TRUE
    /\ UNCHANGED <<renderer_status, pending_command, error_times, elapsed, launcher, client,
                   shown, last, kills>>
RetryIntervalPasses ==
    /\ ~elapsed /\ elapsed' = TRUE
    /\ UNCHANGED <<renderer_status, pending_command, error_times, launcher, client, process,
                   ghosts>>

Executing ==
    \/ Pend \/ Recheck \/ Drop \/ CannotConnect \/ Restart \/ WaitLauncher \/ ReplaceRenderer \/ TooOld
    \/ Call
Launching == Spawn \/ WaitFailed \/ CountFailure \/ WaitDone \/ FlushPendingCommand
RendererNext ==
    \/ \E c \in Command : ExecCommand(c)
    \/ Executing \/ Launching
    \/ Ready \/ RendererEnds \/ OtherStarts \/ RetryIntervalPasses

\* A command and the launcher's thread go on; nobody has to ask for a window.
RendererSpec ==
    /\ RendererInit /\ [][RendererNext]_rendererVars
    /\ WF_rendererVars(Executing) /\ WF_rendererVars(Launching)
-----------------------------------------------------------------------------
\* "RendererClient checks the status AGAIN after SetPendingCommand": a command that
\* meets the end of a launch is shown, by the launcher or by the client. Unless the
\* launcher has an older one pending, or the renderer ended, did not answer or was
\* not started, or is of an older version, met when no launcher was to come.
LastUpdateIsShown ==
    (renderer_status = "READY" /\ executing = "no" /\ Up /\ ~excused /\ last # "none")
        => shown = last

\* While commands are held back because the renderer is launching there is a
\* launcher that will say how it ends, or one is about to be started: after
\* failures of every kind.
LaunchingHasLauncher ==
    renderer_status = "LAUNCHING" <=> launcher \in {"spawn", "wait", "flush"} \/ executing = "join"

\* Renderers that end at once, and renderers of another version that do not go, are
\* given up: the client neither starts them nor tells them to end for ever. A failure
\* that is seen before it is counted allows one launch more.
RestartsAreBounded ==
    error_times <= MaxErrorTimes + 2 /\ kills <= MaxVersionMismatchNums

\* "cannot connect to renderer. restarting": then a renderer is started, or it is
\* known that it cannot be.
RestartStartsRenderer ==
    executing = "restart" ~> renderer # "none" \/ renderer_status = "FATAL"
=============================================================================
