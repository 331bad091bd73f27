--------------------------- MODULE CaptureSession ---------------------------
(***************************************************************************)
(* The orchestration of one capture session (src-tauri commands/engine.rs):*)
(* start, node switch, stop, tray, helper removal and exit cleanup run one *)
(* at a time under `EngineAppState::gate`; beside the gate run the sidecar *)
(* and its monitor, the exit-event listener, the two-second health poller, *)
(* the subscription sync that emits the engine's payload again, the        *)
(* elevated helper's TUN session, and crashes of the application.          *)
(*                                                                         *)
(* The program under the gate is the pc of `op`; each await or file, OS or *)
(* engine call in it is a step of its own.  Starts by the IPC command, the *)
(* tray and auto-connect differ only in the node they resolve, so they are *)
(* one request with a capture mode.                                        *)
(***************************************************************************)
EXTENDS EngineState

CONSTANT Platform
ASSUME PlatformAssumption == Platform \in {"linux", "windows", "macos"}

VARIABLES
    (* what survives the application *)
    marker,     \* engine-runtime.json: "none", "system" or "tun"
    proxy,      \* the OS system proxy points at us
    tun,        \* the helper's TUN session: "down", "pending" (starting), "up"
    installed,  \* the elevated helper is installed
    orphan,     \* a sidecar of a crashed application still holds our ports
    (* EngineAppState and the engine *)
    engine,     \* EngineState of XrayEngine
    why,        \* the reason Failed carries: "none", "exit", "missing", "start"
    core,       \* the sidecar of this application: "none", "alive" or "dead"
    mode,       \* capture_mode: "off", "system" or "tun"
    payload,    \* state of last_emitted, what the UI and the tray show
    announced,  \* history: the last state a holder of the gate has emitted
    clone,      \* last_emitted as a subscription sync has read it, or "none"
    (* the operation that holds the gate *)
    op, pc,
    target,     \* capture mode a start was asked for
    cmode,      \* the mode cleanup_runtime works on
    cerr,       \* cleanup_runtime has collected an error
    (* the tasks beside the gate *)
    exitEvent,  \* an exit event waits for the listener
    poll,       \* where the health poller is
    pollWhy     \* the reason it passes to handle_runtime_failure

os    == <<proxy, tun, installed, orphan>>
eng   == <<engine, why, core>>
ui    == <<mode, payload, announced, clone>>
flow  == <<op, pc, target, cmode, cerr>>
watch == <<exitEvent, poll, pollWhy>>
vars  == <<marker, proxy, tun, installed, orphan, engine, why, core, mode, payload,
           announced, clone, op, pc, target, cmode, cerr, exitEvent, poll, pollWhy>>

Modes     == {"off", "system", "tun"}
Reasons   == {"none", "exit", "missing", "start"}
Ops       == {"none", "boot", "start", "undo", "stop", "failure", "uninstall",
              "remove", "exit"}
StartPcs  == {"begin", "announce", "prepare", "arm", "sidecar", "spawn", "await",
              "setProxy", "external", "prompt", "submit", "tunWait", "adopt", "live"}
CleanPcs  == {"cProxy", "cTun", "cExternal", "cStop", "cJoin", "cDone", "after"}
Pcs       == {"down", "free", "uninstall"} \cup StartPcs \cup CleanPcs
PollSteps == {"sleep", "mode", "probe", "fail", "raw", "gate", "busy"}

TypeOK ==
    /\ marker \in {"none", "system", "tun"}
    /\ proxy \in BOOLEAN
    /\ tun \in {"down", "pending", "up"}
    /\ installed \in BOOLEAN
    /\ orphan \in BOOLEAN
    /\ engine \in EngineStates
    /\ why \in Reasons
    /\ core \in {"none", "alive", "dead"}
    /\ mode \in Modes
    /\ payload \in EngineStates
    /\ announced \in EngineStates
    /\ clone \in EngineStates \cup {"none"}
    /\ op \in Ops
    /\ pc \in Pcs
    /\ target \in Modes
    /\ cmode \in Modes
    /\ cerr \in BOOLEAN
    /\ exitEvent \in BOOLEAN
    /\ poll \in PollSteps
    /\ pollWhy \in Reasons

(* The memory of an application that has just started or has just gone. *)
FreshMemory ==
    /\ engine = "idle" /\ why = "none" /\ core = "none"
    /\ mode = "off" /\ payload = "idle" /\ announced = "idle" /\ clone = "none"
    /\ op = "none" /\ target = "off" /\ cmode = "off" /\ cerr = FALSE
    /\ exitEvent = FALSE /\ poll = "sleep" /\ pollWhy = "none"

ForgetMemory ==
    /\ engine' = "idle" /\ why' = "none" /\ core' = "none"
    /\ mode' = "off" /\ payload' = "idle" /\ announced' = "idle" /\ clone' = "none"
    /\ op' = "none" /\ target' = "off" /\ cmode' = "off" /\ cerr' = FALSE
    /\ exitEvent' = FALSE /\ poll' = "sleep" /\ pollWhy' = "none"

Init ==
    /\ marker = "none"
    /\ proxy = FALSE
    /\ tun = "down"
    /\ installed \in BOOLEAN
    /\ orphan = FALSE
    /\ pc = "down"
    /\ FreshMemory

-----------------------------------------------------------------------------
(* Platform and engine helpers *)

(* platform_tun::probe() = Running: the Linux and Windows helpers can tell; *)
(* a Windows service that is starting counts, a Linux helper that is busy   *)
(* starting does not answer in time.                                        *)
ProbeRunning ==
    /\ installed
    /\ CASE Platform = "windows" -> tun \in {"pending", "up"}
         [] Platform = "linux"   -> tun = "up"
         [] OTHER                -> FALSE

(* tun_runtime_is_missing *)
NeverMissing == FALSE                       \* mutant: no platform is probed
TunIsMissing == Platform = "windows" /\ ~ProbeRunning

(* platform_tun::stop_tun() = Ok.  The Linux helper serves one request at a *)
(* time, so it answers after a start in flight ended.  The Windows client   *)
(* ignores a refused or timed-out stop, and the macOS helper replies Ok when*)
(* it knows of no core: one whose start is late, or of an earlier instance. *)
StopTunOk ==
    IF Platform = "linux" THEN tun # "pending" /\ tun' = "down"
    ELSE tun' \in {tun, "down"}

(* Another process listens on the local ports. *)
PortsTaken == orphan \/ tun = "up"

(* cleanup_mode: memory first, then the marker. *)
MarkerAsMode == IF mode # "off" THEN mode ELSE marker   \* mutant: no default
CleanupMode == IF mode # "off" THEN mode
               ELSE IF marker = "none" THEN "off" ELSE marker

HasPreviousRuntime == CleanupMode # "off" \/ engine # "idle"

EngineTo(s) == engine' = s /\ why' = IF s = "failed" THEN why ELSE "none"

FailEngine(reason) ==
    /\ engine' = Transition(engine, "failed")
    /\ why' = IF IsLegal(engine, "failed") THEN reason ELSE why

(* emit_engine_state by the holder of the gate: recorded, then emitted. *)
Announce(s) == payload' = s /\ announced' = s /\ UNCHANGED <<mode, clone>>

-----------------------------------------------------------------------------
(* The program counter of the gate's holder *)

GoTo(step) == pc' = step /\ UNCHANGED <<op, target, cmode, cerr>>

Release ==
    /\ op' = "none" /\ pc' = "free"
    /\ target' = "off" /\ cmode' = "off" /\ cerr' = FALSE

(* Enter cleanup_runtime on behalf of operation o. *)
Cleanup(o) ==
    /\ op' = o /\ pc' = "cProxy"
    /\ cmode' = CleanupMode
    /\ cerr' = FALSE
    /\ UNCHANGED target

(* start_steps returned Err: fail_cleanup. *)
Undo == Cleanup("undo")

-----------------------------------------------------------------------------
(* Requests: what can take the gate when it is free *)

(* start_with_node first cleans up whatever session it finds. *)
StartWith(m) ==
    /\ op' = "start" /\ target' = m
    /\ pc' = IF HasPreviousRuntime THEN "cProxy" ELSE "begin"
    /\ cmode' = CleanupMode /\ cerr' = FALSE

(* engine_start, tray_start_system, tray_start_tun, auto_connect_on_startup *)
RequestStart(m) ==
    /\ pc = "free"
    /\ StartWith(m)
    /\ UNCHANGED <<marker, os, eng, ui, watch>>

(* engine_select_node over a running session; otherwise it only remembers. *)
RequestSwitch ==
    /\ pc = "free"
    /\ engine = "running" \/ payload = "running"
    /\ StartWith(IF mode = "off" THEN "system" ELSE mode)
    /\ UNCHANGED <<marker, os, eng, ui, watch>>

(* engine_stop, and tray_stop past its early return. *)
RequestStop ==
    /\ pc = "free"
    /\ Announce("stopping")
    /\ Cleanup("stop")
    /\ UNCHANGED <<marker, os, eng, watch>>

RequestUninstall ==
    /\ pc = "free"
    /\ IF HasPreviousRuntime
       THEN Announce("stopping") /\ Cleanup("uninstall")
       ELSE /\ op' = "remove" /\ pc' = "uninstall"
            /\ UNCHANGED <<ui, target, cmode, cerr>>
    /\ UNCHANGED <<marker, os, eng, watch>>

(* cleanup_on_exit *)
RequestExit ==
    /\ pc = "free"
    /\ Cleanup("exit")
    /\ UNCHANGED <<marker, os, eng, ui, watch>>

-----------------------------------------------------------------------------
(* start_with_node and start_steps *)

BeginCapture ==
    /\ pc = "begin"
    /\ mode' = target
    /\ GoTo("announce")
    /\ UNCHANGED <<marker, os, eng, payload, announced, clone, watch>>

AnnounceStarting ==
    /\ pc = "announce"
    /\ Announce("starting")
    /\ GoTo("prepare")
    /\ UNCHANGED <<marker, os, eng, watch>>

(* Build the config; for TUN also clear the system proxy, whatever comes of *)
(* it, and find the kernel.                                                 *)
Prepare ==
    /\ pc = "prepare"
    /\ UNCHANGED proxy \/ (mode = "tun" /\ proxy' = FALSE)
    /\ GoTo("arm") \/ Undo
    /\ UNCHANGED <<marker, tun, installed, orphan, eng, ui, watch>>

(* arm_runtime_cleanup replaces the marker atomically or fails. *)
ArmLate == marker' = marker                 \* mutant: armed only once captured
WriteMarker == marker' = mode

Arm ==
    /\ pc = "arm"
    /\ \/ WriteMarker /\ GoTo(IF mode = "tun" THEN "external" ELSE "sidecar")
       \/ UNCHANGED marker /\ Undo
    /\ UNCHANGED <<os, eng, ui, watch>>

(* XrayEngine::start up to the port probes. *)
BeginSidecar ==
    /\ pc = "sidecar"
    /\ IF IsLegal(engine, "starting")
       THEN EngineTo("starting") /\ core' = "none" /\ GoTo("spawn")
       ELSE UNCHANGED eng /\ Undo
    /\ UNCHANGED <<marker, os, ui, watch>>

SpawnSidecar ==
    /\ pc = "spawn"
    /\ \/ FailEngine("start") /\ Undo /\ UNCHANGED core
       \/ ~PortsTaken /\ core' = "alive" /\ GoTo("await") /\ UNCHANGED <<engine, why>>
    /\ UNCHANGED <<marker, os, ui, watch>>

(* Readiness and the commit; a child that is given up is killed. *)
AwaitSidecar ==
    /\ pc = "await"
    /\ \/ FailEngine("start") /\ core' = "none" /\ Undo
       \/ IF IsLegal(engine, "running")
          THEN EngineTo("running") /\ UNCHANGED core /\ GoTo("setProxy")
          ELSE UNCHANGED <<engine, why>> /\ core' = "none" /\ Undo
    /\ UNCHANGED <<marker, os, ui, watch>>

(* A failed set_system_proxy may have set part of it. *)
SetSystemProxy ==
    /\ pc = "setProxy"
    /\ \/ proxy' = TRUE /\ GoTo("live")
       \/ (UNCHANGED proxy \/ proxy' = TRUE) /\ Undo
    /\ UNCHANGED <<marker, tun, installed, orphan, eng, ui, watch>>

(* ensure_installed: a helper that is missing or out of date is installed  *)
(* first, which asks the user; on Linux the package installs it.           *)
HelperSteps == CASE Platform = "linux" -> {"submit"}
                 [] Platform # "linux" /\ installed -> {"submit", "prompt"}
                 [] OTHER -> {"prompt"}

BeginExternalStart ==
    /\ pc = "external"
    /\ IF IsLegal(engine, "starting")
       THEN /\ EngineTo("starting") /\ core' = "none"
            /\ \E step \in HelperSteps : GoTo(step)
       ELSE UNCHANGED eng /\ Undo
    /\ UNCHANGED <<marker, os, ui, watch>>

(* The user answers the prompt, or the installation fails; it may end a    *)
(* session of the helper it replaces.                                      *)
Elevate ==
    /\ pc = "prompt"
    /\ tun' \in {tun, "down"}
    /\ \/ FailEngine("start") /\ Undo /\ (UNCHANGED installed \/ installed' = TRUE)
       \/ GoTo("submit") /\ installed' = TRUE /\ UNCHANGED <<engine, why>>
    /\ UNCHANGED <<marker, proxy, orphan, core, ui, watch>>

(* platform_tun::start_tun: an old session of the helper ends first. *)
SubmitTun ==
    /\ pc = "submit"
    /\ \/ FailEngine("start") /\ Undo /\ tun' \in {tun, "down"}
       \/ /\ installed
          /\ tun' = "pending" /\ GoTo("tunWait")
          /\ UNCHANGED <<engine, why>>
    /\ UNCHANGED <<marker, proxy, installed, orphan, core, ui, watch>>

(* The helper answers Ok, or it fails or does not answer in time. *)
HelperFails == tun = "down"                 \* mutant: no deadline on the answer
HelperFailsOrIsLate == TRUE

AwaitTun ==
    /\ pc = "tunWait"
    /\ \/ tun = "up" /\ GoTo("adopt") /\ UNCHANGED <<tun, engine, why>>
       \/ /\ HelperFailsOrIsLate
          /\ FailEngine("start") /\ Undo
          /\ tun' \in {tun, "down"}
    /\ UNCHANGED <<marker, proxy, installed, orphan, core, ui, watch>>

(* finish_external_start, then the second clear_system_proxy. *)
AdoptTun ==
    /\ pc = "adopt"
    /\ IF IsLegal(engine, "running")
       THEN /\ EngineTo("running") /\ GoTo("live")
            /\ UNCHANGED proxy \/ proxy' = FALSE
       ELSE UNCHANGED <<engine, why, proxy>> /\ Undo
    /\ UNCHANGED <<marker, tun, installed, orphan, core, ui, watch>>

AnnounceRunning ==
    /\ pc = "live"
    /\ Announce("running")
    /\ Release
    /\ UNCHANGED <<marker, os, eng, watch>>

-----------------------------------------------------------------------------
(* cleanup_runtime, and reconcile_stale_runtime as operation "boot" *)

CleanupProxy ==
    /\ pc = "cProxy"
    /\ \/ proxy' = FALSE /\ UNCHANGED cerr
       \/ UNCHANGED proxy /\ cerr' = TRUE
    /\ pc' = CASE cmode = "tun"                -> "cTun"
               [] cmode # "tun" /\ op = "boot" -> "cDone"
               [] OTHER                        -> "cStop"
    /\ UNCHANGED <<marker, tun, installed, orphan, eng, ui, op, target, cmode, watch>>

(* A helper that is not installed has nothing to stop. *)
CleanupTun ==
    /\ pc = "cTun"
    /\ \/ ~installed /\ UNCHANGED <<tun, cerr>>
       \/ installed /\ StopTunOk /\ UNCHANGED cerr
       \/ installed /\ tun' \in {tun, "down"} /\ cerr' = TRUE
    /\ pc' = IF op = "boot" THEN "cDone" ELSE "cExternal"
    /\ UNCHANGED <<marker, proxy, installed, orphan, eng, ui, op, target, cmode, watch>>

(* finish_external_stop; a monitor that is still there is dropped. *)
CleanupExternal ==
    LET stopping == IF engine \in {"idle", "failed"} THEN engine
                    ELSE Transition(engine, "stopping")
    IN  /\ pc = "cExternal"
        /\ EngineTo(Transition(stopping, "idle"))
        /\ core' = "none"
        /\ GoTo("cDone")
        /\ UNCHANGED <<marker, os, ui, watch>>

(* XrayEngine::stop, first critical section. *)
CleanupStop ==
    /\ pc = "cStop"
    /\ IF engine = "stopping"
       THEN UNCHANGED <<engine, why>> /\ cerr' = TRUE /\ pc' = "cDone"
       ELSE /\ UNCHANGED cerr
            /\ \/ engine = "idle" /\ UNCHANGED <<engine, why>> /\ pc' = "cDone"
               \/ engine = "failed" /\ EngineTo("idle") /\ pc' = "cJoin"
               \/ engine \in {"starting", "running"} /\ EngineTo("stopping")
                                                    /\ pc' = "cJoin"
    /\ UNCHANGED <<marker, os, core, ui, op, target, cmode, watch>>

(* ... the monitor is signalled and joined, last critical section. *)
CleanupJoin ==
    /\ pc = "cJoin"
    /\ core' = "none"
    /\ IF engine = "stopping" THEN EngineTo("idle") ELSE UNCHANGED <<engine, why>>
    /\ GoTo("cDone")
    /\ UNCHANGED <<marker, os, ui, watch>>

(* finish_capture_cleanup(errors.is_empty()); removing the file may fail. *)
AlwaysRemoved == {"none"}                   \* mutant: removed after errors too
MarkersAfterCleanup == IF cerr THEN {marker} ELSE {"none", marker}

(* A start goes on only from a clean slate. *)
StartsAnyway == op = "start"                \* mutant: its errors do not matter
StartGoesOn == op = "start" /\ ~cerr

FinishCleanup ==
    /\ pc = "cDone"
    /\ mode' = "off"
    /\ marker' \in MarkersAfterCleanup
    /\ IF StartGoesOn
       THEN pc' = "begin" /\ cmode' = "off" /\ UNCHANGED <<op, target, cerr>>
       ELSE GoTo("after")
    /\ UNCHANGED <<os, eng, payload, announced, clone, watch>>

(* What each operation emits once its cleanup is over. *)
SilentUndo == op \in {"boot", "undo"}       \* mutant: a failed start is silent
SilentFailure == op \in {"boot", "failure"} \* mutant: a handled failure is silent
Silent == op = "boot"

IdleAfterStop == IF op = "stop" THEN "idle" ELSE "failed"   \* mutant: errors or not
Outcome == IF op = "stop" /\ ~cerr THEN "idle" ELSE "failed"

AfterCleanup ==
    /\ pc = "after" /\ op # "exit"
    /\ IF op = "uninstall" /\ ~cerr
       THEN GoTo("uninstall") /\ UNCHANGED <<ui, poll>>
       ELSE /\ IF Silent THEN UNCHANGED ui ELSE Announce(Outcome)
            /\ poll' = IF op = "failure" /\ poll = "busy" THEN "sleep" ELSE poll
            /\ Release
    /\ UNCHANGED <<marker, os, eng, exitEvent, pollWhy>>

Terminate ==
    /\ pc = "after" /\ op = "exit"
    /\ pc' = "down"
    /\ orphan' = (orphan \/ core = "alive")
    /\ ForgetMemory
    /\ UNCHANGED <<marker, proxy, tun, installed>>

(* uninstall_elevated, after a best-effort stop_tun; it asks the user. *)
Uninstall ==
    /\ pc = "uninstall"
    /\ tun' \in {tun, "down"}
    /\ \E ok \in BOOLEAN :
          /\ installed' = (installed /\ ~ok)
          /\ IF op = "remove" THEN UNCHANGED ui
             ELSE Announce(IF ok THEN "idle" ELSE "failed")
    /\ Release
    /\ UNCHANGED <<marker, proxy, orphan, eng, watch>>

-----------------------------------------------------------------------------
(* Beside the gate: sidecar, helper, exit event, health poller *)

(* Commands, poller and listener exist once setup is done. *)
Serving == pc # "down" /\ op # "boot"

CoreDies ==
    /\ core = "alive"
    /\ core' = "dead"
    /\ UNCHANGED <<marker, os, engine, why, ui, flow, watch>>

(* The process monitor: only a Running engine fails and publishes. *)
MonitorReports ==
    /\ core = "dead" /\ engine = "running"
    /\ FailEngine("exit")
    /\ exitEvent' = TRUE
    /\ UNCHANGED <<marker, os, core, ui, flow, poll, pollWhy>>

TunComesUp ==
    /\ tun = "pending"
    /\ tun' = "up"
    /\ UNCHANGED <<marker, proxy, installed, orphan, eng, ui, flow, watch>>

TunEnds ==
    /\ tun # "down"
    /\ tun' = "down"
    /\ UNCHANGED <<marker, proxy, installed, orphan, eng, ui, flow, watch>>

OrphanExits ==
    /\ orphan
    /\ orphan' = FALSE
    /\ UNCHANGED <<marker, proxy, tun, installed, eng, ui, flow, watch>>

(* handle_runtime_failure, once it has the gate. *)
NotYetShown(reason) == payload # "failed"   \* mutant: no look at the engine
OnlyOfTun(reason) ==                        \* mutant: system sessions left out
    engine = "failed" /\ why = reason /\ mode = "tun" /\ payload # "failed"
StillFailed(reason) == engine = "failed" /\ why = reason /\ payload # "failed"

HandleFailure(reason) ==
    IF StillFailed(reason) THEN Cleanup("failure") ELSE UNCHANGED flow

ListenerHandles ==
    /\ pc = "free" /\ exitEvent
    /\ exitEvent' = FALSE
    /\ HandleFailure("exit")
    /\ UNCHANGED <<marker, os, eng, ui, poll, pollWhy>>

(* The listener lags behind the broadcast channel: it logs how many events *)
(* it has missed and goes on.                                              *)
EventLost ==
    /\ exitEvent
    /\ exitEvent' = FALSE
    /\ UNCHANGED <<marker, os, eng, ui, flow, poll, pollWhy>>

(* The poller reads the payload, the mode, the helper and the engine one   *)
(* after the other and without the gate.                                   *)
PollPayload ==
    /\ Serving /\ poll = "sleep"
    /\ poll' = IF payload = "running" THEN "mode" ELSE "raw"
    /\ UNCHANGED <<marker, os, eng, ui, flow, exitEvent, pollWhy>>

PollMode ==
    /\ poll = "mode"
    /\ poll' = IF mode = "tun" THEN "probe" ELSE "raw"
    /\ UNCHANGED <<marker, os, eng, ui, flow, exitEvent, pollWhy>>

PollProbe ==
    /\ poll = "probe"
    /\ poll' = IF TunIsMissing THEN "fail" ELSE "raw"
    /\ UNCHANGED <<marker, os, eng, ui, flow, exitEvent, pollWhy>>

PollFails ==
    /\ poll = "fail"
    /\ FailEngine("missing")
    /\ poll' = "gate" /\ pollWhy' = "missing"
    /\ UNCHANGED <<marker, os, core, ui, flow, exitEvent>>

PollRaw ==
    /\ poll = "raw"
    /\ IF engine = "failed" /\ payload # "failed"
       THEN poll' = "gate" /\ pollWhy' = why
       ELSE poll' = "sleep" /\ UNCHANGED pollWhy
    /\ UNCHANGED <<marker, os, eng, ui, flow, exitEvent>>

PollHandles ==
    /\ pc = "free" /\ poll = "gate"
    /\ HandleFailure(pollWhy)
    /\ poll' = IF StillFailed(pollWhy) THEN "busy" ELSE "sleep"
    /\ pollWhy' = "none"
    /\ UNCHANGED <<marker, os, eng, ui, exitEvent>>

(* emit_reconciled_selection at the end of subs_sync, without the gate: it *)
(* clones last_emitted, and then records and emits the clone.  The syncs   *)
(* themselves run one at a time.                                           *)
SyncReads ==
    /\ Serving /\ clone = "none"
    /\ clone' = payload
    /\ UNCHANGED <<marker, os, eng, mode, payload, announced, flow, watch>>

SyncRecords ==
    /\ clone # "none"
    /\ payload' = clone /\ clone' = "none"
    /\ UNCHANGED <<marker, os, eng, mode, announced, flow, watch>>

-----------------------------------------------------------------------------
(* Crash and launch *)

(* The application is killed or aborts: nothing of its memory survives, its *)
(* sidecar does.                                                            *)
Crash ==
    /\ pc # "down"
    /\ pc' = "down"
    /\ orphan' = (orphan \/ core = "alive")
    /\ ForgetMemory
    /\ UNCHANGED <<marker, proxy, tun, installed>>

(* setup: reconcile_stale_runtime runs before anything else is accepted. *)
NothingStale == marker = "none" /\ ~ProbeRunning

Launch ==
    /\ pc = "down"
    /\ IF NothingStale
       THEN pc' = "free" /\ UNCHANGED <<op, cmode>>
       ELSE /\ op' = "boot" /\ pc' = "cProxy"
            /\ cmode' = IF marker = "tun" \/ ProbeRunning THEN "tun" ELSE "system"
    /\ UNCHANGED <<marker, os, eng, ui, target, cerr, watch>>

-----------------------------------------------------------------------------
(* The commands of the UI, and those of the tray and of auto-connect, which  *)
(* resolve their node before they take the gate for the same start.         *)
Request ==
    \/ \E m \in {"system", "tun"} : RequestStart(m)
    \/ RequestSwitch \/ RequestStop \/ RequestUninstall \/ RequestExit

StartStep ==
    \/ BeginCapture \/ AnnounceStarting \/ Prepare \/ Arm
    \/ BeginSidecar \/ SpawnSidecar \/ AwaitSidecar \/ SetSystemProxy
    \/ BeginExternalStart \/ Elevate \/ SubmitTun \/ AwaitTun \/ AdoptTun
    \/ AnnounceRunning

CleanupStep ==
    \/ CleanupProxy \/ CleanupTun \/ CleanupExternal
    \/ CleanupStop \/ CleanupJoin \/ FinishCleanup
    \/ AfterCleanup \/ Terminate \/ Uninstall

GateStep == StartStep \/ CleanupStep

PollReads == PollPayload \/ PollMode \/ PollProbe \/ PollFails \/ PollRaw

SubsSync == SyncReads \/ SyncRecords

Environment == CoreDies \/ TunComesUp \/ TunEnds \/ OrphanExits \/ Crash \/ Launch

Next ==
    \/ Request \/ GateStep \/ SubsSync
    \/ MonitorReports \/ ListenerHandles \/ EventLost \/ PollReads \/ PollHandles
    \/ Environment

(* Where the holder of the gate waits for a person: pkexec on Linux, the UAC *)
(* prompt, the macOS password; none of these waits has a deadline.          *)
Prompts == {"prompt", "uninstall"}

(* Elsewhere the holder of the gate runs on: it waits for the helper, the    *)
(* core, the monitor or the server with a deadline, and the local commands   *)
(* it runs are taken to end.                                                 *)
GateRuns == WF_vars(pc \notin Prompts /\ GateStep)

(* The monitor and the poller are tokio tasks, and the gate is tokio's fair  *)
(* mutex: whoever waits for it gets it although requests keep coming.        *)
PollerRuns == WF_vars(PollReads) /\ SF_vars(PollHandles)

Fairness == GateRuns /\ PollerRuns /\ WF_vars(MonitorReports) /\ SF_vars(ListenerHandles)

Spec == Init /\ [][Next]_vars
FairSpec == Spec /\ Fairness

(* Monitor and listener, which know of sidecars only, are owed nothing. *)
PolledSpec == Spec /\ GateRuns /\ PollerRuns

-----------------------------------------------------------------------------
(* Properties *)

(* The recovery marker covers the system proxy: it is only ever on under a *)
(* marker that tells the next launch to clear it.                          *)
MarkerCoversProxy == proxy => marker = "system"

(* The recovery marker covers the elevated TUN session, one that is still  *)
(* starting included.                                                      *)
MarkerCoversTun == tun # "down" => marker = "tun"

(* The elevated helper owns the TUN core: no sidecar of ours runs beside it. *)
NoSidecarBesideTun == core = "alive" => tun = "down"

(* What was announced as connected is backed: with nobody at work the mode *)
(* is armed on disk, the engine is Running or has just failed, and a system *)
(* session has its proxy set.                                              *)
ConnectedIsBacked ==
    pc = "free" /\ announced = "running" =>
        /\ mode # "off" /\ marker = mode
        /\ engine \in {"running", "failed"}
        /\ mode = "system" => proxy

(* An operation that announces Idle leaves nothing captured and no sidecar. *)
IdleIsClean ==
    [][announced' = "idle" /\ announced # "idle" /\ pc' = "free"
          => ~proxy' /\ tun' = "down" /\ core' # "alive"]_vars

(* Failure handling, with its alert, is only ever started for a session    *)
(* that was announced as connected: a stop, or a start that failed, is not  *)
(* followed by an error event of its own making, whatever a subscription    *)
(* sync has put into the payload that handle_runtime_failure looks at.      *)
FailureOnlyOfConnected ==
    [][op' = "failure" /\ op # "failure" => announced = "running"]_vars

(* The poller fails the engine only for a TUN session that has gone. *)
PollerFailsOnlyDeadTun ==
    [][why' = "missing" /\ why # "missing" => mode = "tun" /\ tun = "down"
                                                 /\ engine = "running"]_vars

(* A start that was announced is settled: connected, failed or terminated, *)
(* unless the user leaves its prompt open.                                 *)
StartSettles ==
    (announced = "starting")
        ~> (announced \in {"running", "failed"} \/ pc \in {"down", "prompt"})

(* A subscription sync has put back what was shown before the last         *)
(* announcement.                                                           *)
Overwritten == payload # announced

(* A connected session whose sidecar died does not stay connected, even if *)
(* its exit event is lost.  Both watchers read the payload, and one that   *)
(* was overwritten hides the session from them (ShownIsCurrent).           *)
DeadCoreIsHandled ==
    (pc = "free" /\ announced = "running" /\ core = "dead")
        ~> (announced # "running" \/ Overwritten \/ pc = "down")

(* The same for a TUN session that ended by itself. *)
DeadTunIsHandled ==
    (pc = "free" /\ announced = "running" /\ mode = "tun" /\ tun = "down")
        ~> (announced # "running" \/ Overwritten \/ pc = "down")

(* Nobody but a user who does not answer a prompt keeps the gate. *)
GateIsReleased ==
    (pc \notin {"free", "down"}) ~> (pc \in {"free", "down"} \cup Prompts)

(* engine.rs:765: a sync emits the current payload, and last_emitted is the *)
(* source of truth for engine_get_state (:155): with nobody at work the UI  *)
(* shows the outcome that was announced last.                               *)
ShownIsCurrent == pc = "free" => payload = announced

(* The marker's contract.  What is captured is the system proxy that is    *)
(* set, and the helper's session from the request for it on.               *)
Captured ==
    (IF proxy THEN {"system"} ELSE {}) \cup (IF tun # "down" THEN {"tun"} ELSE {})
Intent == INSTANCE CaptureIntent WITH marker <- marker, captured <- Captured
ImplementsIntent == Intent!Spec
=============================================================================
