# A TLA+ model of AureStream

AureStream is a desktop VPN client: a Tauri application (Rust, with a React
frontend) that runs an Xray core either as a sidecar process behind the OS
system proxy, or inside an elevated helper that captures all traffic with a TUN
device. What makes it hard is not the traffic but the bookkeeping around it:
a capture left behind after a crash, a failure handled for the wrong session or
a start that never ends leaves a machine without a network.

This directory models that bookkeeping, checks it with TLC and proves its safety
with TLAPS. Line numbers below refer to the repository.

## Inventory

| Part | State it keeps | Operations | What makes it correct |
|---|---|---|---|
| Engine state machine `aurestream-engine/src/state.rs` | `EngineState` | `transition`, `force` | only the legal edges |
| Xray engine `aurestream-engine/src/xray/mod.rs` | machine, generation, process monitor, last exit, child processes | `start`, `stop`, `*_external_*`, monitor task | no sidecar leaks, a stop is final, no event of a stopped session |
| Capture orchestration `src-tauri/src/commands/engine.rs` | gate, capture mode, last payload, marker file | start, switch, stop, helper removal, failure handling, exit cleanup, startup reconciliation, poller, listener | what is captured is named on disk; what the UI shows is true; every operation ends |
| Node selection (same file, `node_key.rs`) | tag, key, endpoint, file | `set_selected`, `pick_node`, reconcile | the three names are of one node; a rename or a rotation does not move the user |
| Traffic accounting (same file) | baseline, pending per subscription | observe, acknowledge, sample, report | nothing lost, nothing counted twice |
| Auth session `src-tauri/src/state.rs`, `commands/auth.rs` | token pair in memory and on disk | save, clear, restore, refresh | a logout is final, the stored pair is the live one |
| Subscription cache `state.rs`, `commands/subs.rs` | snapshot in memory and on disk | sync, update traffic | a sync does not overwrite a newer total |
| State files `persist.rs` | files | atomic write, quarantine | old or new content, never a mix |
| Settings, tray `settings.rs`, `tray.rs` | settings, menu | read-modify-write, toggles | no lost update |
| System proxy backends `aurestream-platform-proxy` | OS settings | set, clear | a cleared proxy is off everywhere it was set |
| TUN helpers `aurestream-platform-tun` (Linux socket service, Windows SCM service, macOS XPC helper) | session, DNS of the machine | start, stop, status, watchdog | the machine's DNS comes back |
| Config building, node decoding, API client | none | pure or request/response | text in, text out |
| Frontend `src/` | view state | hydrate, sync, IPC | shows the last payload |

### How the parts interact

* IPC commands, tray, auto-connect, exit-event listener, health poller and exit
  hook all call the orchestration. `EngineAppState::gate`, a tokio mutex, lets
  one operation in at a time; the poller looks at state *without* it, and the
  subscription sync records and emits the last payload once more without it.
* In system-proxy mode the orchestration calls `XrayEngine::start`, which spawns
  the sidecar and a monitor task; the monitor reports an unexpected exit through
  the engine's machine and a broadcast channel that the listener reads.
* In TUN mode the elevated helper owns the core; the engine only tracks the state
  (`begin_external_start` and its relatives).
* `engine-runtime.json`, the *marker*, is written before anything is captured and
  removed after a clean cleanup; the next launch reads it to undo what a crash
  left behind.

### Behaviours that are hard

Awaits between critical sections of the engine's mutex; a start overtaken by a
stop and a second start; exit events that arrive late; failures of any single
step of a cleanup; a crash between two steps; a helper that answers after its
deadline; reads without the gate. `PROJECT.json` lists them, each at its line,
with the property that covers it or the module planned for it.

## Modules

| Module | Models | Role |
|---|---|---|
| `EngineState` | `EngineState`, `StateMachine` | shared definitions |
| `XrayEngine` | `XrayEngine` | component, concurrent callers |
| `CaptureIntent` | what the marker promises | abstract specification |
| `CaptureSession` | `commands/engine.rs` with what it sees of engine, helpers, proxy and disk | component, refines `CaptureIntent` |
| `AuthSession` | `AuthState`, `commands/auth.rs`, the server's token rotation | component |
| `SubsTraffic` | `TrafficAccounting`, `SubsState`, `subs_sync` | two components that share a gate |
| `LinuxTunHelper` | the root helper and its client | component |
| `WindowsTunService` | the SCM service, its client, the elevated installer | component |
| `MacTun` | the XPC helper, its client, the DNS watcher | component |
| `NodeSelection` | `NodeQuery`, `pick_node`, `node_key.rs`, `reconcile_persisted_state` | pure operators and their theorems |
| `MC_XrayEngine`, `MC_SubsTraffic`, `MC_WindowsTunService` | | instances for TLC that need defined constants |
| `*_proofs` | | theorems of `XrayEngine`, `CaptureSession`, `AuthSession`, `SubsTraffic`, `LinuxTunHelper`, `WindowsTunService`, `MacTun` |

Variables under "history" are read by properties and by the bounds on faults only.
A definition marked *mutation* or *mutant* is a plausible bug: it replaces the one
below it when the properties are tested.

### `XrayEngine`

A caller is a task that calls the engine; a sidecar is named by the generation of
the start that spawned it. Every critical section of the `Runtime` mutex is one
action, and so is every await between two of them:

| Code | Actions |
|---|---|
| `start` | `BeginStart`, `StartFailsEarly` or `Spawn`, `BecomesReady` or `NotReady` + `Reap`, `Commit` |
| `stop` | `BeginStop`, `Signal`, `Join`, `FinishStop` |
| `begin_/finish_/fail_external_start`, `finish_external_stop` | one action each |
| process monitor | `MonitorStop`, `MonitorExit`, `Report`, `Publish` |
| the process itself | `CoreDies` |

`stopped` stands for the resolved `stop_rx` channels: a monitor handle that is
dropped resolves its channel just as a sent message does, which is why dropping
one kills its sidecar. `cancelled` and `stopReturned` are history variables that
only properties read. Ports, log pumps and asset paths are left out.

### `CaptureSession`

`pc` is the place of the operation that holds the gate, `op` which one it is. The
rest of the state is grouped in the module as what survives the application
(marker, proxy, helper session, orphaned sidecar), its memory, and the tasks
beside the gate. Correspondence:

| Code | Actions |
|---|---|
| `engine_start`, tray and auto-connect starts | `RequestStart` |
| `engine_select_node` over a running session | `RequestSwitch` |
| `engine_stop`, `tray_stop`; `engine_uninstall_helper`; `cleanup_on_exit` | `RequestStop`; `RequestUninstall`, `Uninstall`; `RequestExit`, `Terminate` |
| `start_with_node`, `start_steps` | `BeginCapture` ... `AnnounceRunning` |
| `cleanup_runtime`, `fail_cleanup` | `CleanupProxy` ... `FinishCleanup`, `AfterCleanup` |
| `reconcile_stale_runtime` | `Launch` and the same cleanup steps as operation `boot` |
| `handle_runtime_failure` | `ListenerHandles`, `PollHandles` |
| the poller, one read per step | `PollPayload`, `PollMode`, `PollProbe`, `PollFails`, `PollRaw` |
| `emit_reconciled_selection` at the end of `subs_sync`, without the gate | `SyncReads`, `SyncRecords` |
| `RecvError::Lagged` in the listener | `EventLost` |
| a helper that is missing or outdated is installed, which asks the user | `BeginExternalStart` to `"prompt"`, `Elevate` |
| helper, sidecar, machine | `TunComesUp`, `TunEnds`, `CoreDies`, `OrphanExits`, `Crash` |

`payload` is what `last_emitted` holds: the UI and the watchers read it, and a
subscription sync may put back an older one it has in `clone`. `announced` is
history: what a holder of the gate has emitted last. The properties are about
`announced` where they say what an operation tells the user, and `ShownIsCurrent`
(a run that is violated) says that the two agree while nobody is at work.

The engine appears in it as its state and its sidecar only; inside the gate there
is one caller, so its interleavings are the ones `XrayEngine` explores. Platforms
differ in three definitions: `ProbeRunning` (what `probe` can see), `TunIsMissing`
(whether the poller looks) and `StopTunOk` (what an Ok of `stop_tun` means). On
Linux the helper serves one connection at a time and answers a stop with the
session gone. The Windows client returns Ok after a stop that was refused or
timed out, and the macOS helper replies without an error when it knows of no
core, so on both an Ok may leave the session as it is.

Abstractions, each coarser than the code unless noted:

* The marker is read back as it was written. An unreadable marker, which the code
  treats as a stale TUN session, is not modelled.
* `Failed` carries a reason class (`exit`, `missing`, `start`), not its text; two
  failures of one class are not told apart by `handle_runtime_failure`, where the
  code would tell them apart by a different text.
* The monitor reports and broadcasts in one step here, in two in `XrayEngine`.
* `PollRaw` reads the engine and the payload in one step.
* A `clear_system_proxy` that returns Ok left the proxy off; what a backend with
  several services does is left to a module of its own.
* `TunEnds` is the moment the helper gives up its session; the teardown it then
  runs is not broken up.
* `emit_engine_state` records and emits in one step, so an event that overtakes
  another between the two is not modelled; nor is `engine_select_node` outside a
  session, which emits the payload again under the gate, unchanged but for the node.
* The steps of an installation of the helper are in `WindowsTunService` and `MacTun`;
  here `Elevate` is one step that may end the session of the helper it replaces.
* Traffic flushes inside a cleanup, and the traffic sampler and reporter, which
  also take the gate, change nothing modelled here; their requests have timeouts.
* A sidecar orphaned by a crash may answer the readiness probe of a later start;
  the early port probe refuses such starts, hence `PortsTaken`.

### `CaptureIntent`

Two variables, `marker` and `captured` (the kinds of capture that are in force),
and the rule that capture happens only under a marker that names it and that the
marker changes or goes away only when nothing is captured. `CaptureSession`
implements it with `captured <- Captured`: `"system"` while the system proxy is
on, `"tun"` from the moment a start is submitted to the helper until its session
is gone. Every step of the session maps to one step of the intent or to a stutter.

### `AuthSession`

A token pair is a number in the order the server issued it; `root` tells from which
login it descends. Every hold of `AuthState::inner` is one action, two where it
spans memory and file, so that a crash fits in between. Correspondence:

| Code | Actions |
|---|---|
| `AuthState::save`, `auth_login` | `BeginLogin`, `SaveFile`, `SaveMemory` |
| `AuthState::clear`, `auth_logout` | `BeginLogout`, `Revoke`, `ClearMemory`, `RemoveFile` |
| `restore_from_disk`, `auth_restore` | `Launch`, `Reload`, `ReadFile`, `ResetMemory` and a renewal |
| `refresh_access_token` behind its gate | `Expired`, `Enter`, `Send`, `Answered` (`Store`), `Write`, `Lost` |
| the server | `Rotate` (the old refresh token dies), `Refuse` |

`race` marks the two races the code has: a restore that stores what it read before
a change, and a renewal that ends under another login. `fault` marks an answer
that never arrived, `unsaved` a file operation that failed. The properties exclude
exactly these, so that everything else is shown to be safe.

### `SubsTraffic`

One direction of traffic. Who holds the engine gate (`gate`: sampler, reporter or
cleanup) goes through `step`; the operation gate (`opGate`) is held by a flush or by
a sync.

| Code | Actions |
|---|---|
| sampler and `record_observation` | `TakeGate`, `Query`, `Record` |
| `flush_traffic_usage`, reporter, `acknowledge` | `TakePending`, `Counted` or `NotCounted`, `Reply` or `ReplyLost`, `Flushed` |
| `finish_traffic_session`, a stop, a start, `begin_traffic_session` | `FinishSession`, `StopCore`, `StartCore`, `BeginSession` |
| `subs_sync`, `replace` | `BeginSync`, `SyncListed`, `ReplaceFile`, `ReplaceMemory` |
| the sidecar, the application | `Flow`, `CoreDies`, `Crash`, `Launch` |

`Unsampled`, `InFlight`, `lost` and `dup` are the terms of the balance that
`TrafficIsConserved` states. `lost` counts what the code gives up knowingly (a
session finished without a last query, a crash with pending usage), `dup` what
the server counted for a reply that never came and that is therefore sent again.

### `LinuxTunHelper`

The helper's main thread (`server`) and its watchdog, with the session slot, the
queue of the socket, the client's deadlines and the DNS of the machine.

| Code | Actions |
|---|---|
| accept loop, `status` | `Accept`, `AnswerStatus`, `Answer` |
| `start_session` | `RefuseStart`, `Evict`, `Kill`, `Restore`, `Sweep`, `Purge`, `Spawn`, `ApiReady` or `ApiNotReady`, `ApplyDns` or `ApplyDnsFails`, `Store` |
| `stop_session`, `teardown_session` | `Take`, `Kill`, `Restore`, `Sweep`, `Purge` |
| `watchdog_loop` | `Notice`, then the same teardown on its own thread |
| `linux/mod.rs`, `client.rs` | `StartTun`, `StopTun`, `TimeOut`, `StatusTimesOut`, `Exit` |
| systemd, `uninstall`, `orphan_check` | `HelperCrashes`, `HelperStarts`, `BeginUninstall`, `EndUninstall`, `OrphanCheck`, `InstallUnits` |

`hand[t]` is the session thread `t` builds or tears down: it is in nobody's slot,
which is why the properties quantify over slot and hands. `RestoreDns` may fail as
`restore_dns` may, each `resolvectl` call for itself and unnoticed; `unrestored` says
that the override it should have taken off is still there and nobody knows the
servers it replaced.

### `WindowsTunService`

| Code | Actions |
|---|---|
| `service_main` | `Refuse`, `Spawn`, `ApiReady` or `ApiNotReady`, `Report`, `LeaveLoop`, `ReportStopped` |
| `apply_override` | `RestoreStale`, `RemoveStale`, `SaveSnapshot`, `Override` and their failures |
| `remove_override` | `RestoreSnapshot`, `RemoveSnapshot`, `StripGateway` and a failure |
| `start_tun`, `start_service_with_args`, `stop_service` | `StartTun` ... `ApiSilent`, `StopTun`, `StopEnds` |
| elevated installer and uninstaller | `AdminStops` ... `RemoveFiles`, `AdminDies` |
| scheduled orphan task | `OrphanCheck` |

`NameServer` is a set of servers for each interface, `Own` what the user chose; the
snapshot file survives every process. `version`, `exe`, `runs` and the markers let
an old service meet a new application. `stray` is the core of a service
that was killed, which no job object ties to it (`ServiceCrashes`); nothing in the
code ends it (`StrayEnds` is nobody's duty), it keeps its image locked
(`CoreIsLocked`), and `wait_api` takes it for the core it waits for (`ApiAnswers`), as
it does any other program that listens on the port (`ProgramAnswers`).

### `MacTun`

| Code | Actions |
|---|---|
| `main.m`: start, stop, routes, uninstall | `StartKills`, `Spawn`, `RoutesUp` or `RoutesFail`; `ReadTarget`, `Reap`, `Clear`; `RemoveRoutes`; `UninstallSelf` |
| exit handler, orphan task | `ExitHandler`, `OrphanAppCleanup` |
| `helper.m`: reply, deadline, retry | `Return`, `TimeOut`, `Unreachable`, `ConnectionDrops`, `HelperCrashes` |
| `start_tun`, `stop_tun`, installation and removal | `StartTun` ... `ShellFails` |
| `reapply_on_active_primary`, by the caller and by the watcher | `Detect`, `Decide`, `Restore`, `Write`, `WriteFails`, `Record`; `Wake` |

A call that was given up stays in `jobs` with `open = FALSE` and goes on beside its
retry. `raced` marks the one race the override has: a stop drains the slot
(`StopTun`), or skips doing so (`SkipStop`), while the watcher is between its reads
and its write.

### How the models fit together

`CaptureSession` sees each helper through three definitions. `LinuxTunHelper` backs
the Linux ones: when `stop_tun` returns Ok no core runs and no override is in
force (`StoppedMeansNoCore`), but for what the watchdog is tearing down that moment,
what a crashed helper left and an override that `restore_dns` failed to take off. `tun`
of `CaptureSession` is the helper's session: a core or an override that outlives the
session is not in it.
`WindowsTunService` shows why `StopTunOk` promises nothing on Windows (`StopEnds`
has no guard), and `MacTun` where an Ok on macOS can be trusted (`StopIsExact`). The
traffic flush inside a cleanup is a stutter of `CaptureSession` and the operation
`cleanup` of `SubsTraffic`; `GatesAreReleased` there is what justifies the fairness
of the gate's holder here.

## Runs

| Run | Question | Result | Distinct states |
|---|---|---|---|
| `engine` | Can two callers make the engine leak, revive, misreport or hang? | holds | 13,998 |
| `capture_linux` | Does the session protocol keep marker, UI and OS in step through failures and crashes? | holds | 216,402 |
| `capture_windows` | Is a TUN session that ended noticed where the poller can see it? | holds | 847,586 |
| `auth` | Can a logout be undone; do memory, file and server agree on the live token? | holds | 606,115 |
| `subs_traffic` | Is a byte lost or counted twice, does a total go back, can the gates block each other? | holds | 473,122 |
| `linux_tun` | Is a core or an overridden DNS ever without somebody who will undo it? | holds | 658,048 |
| `windows_tun` | Can the user's DNS be lost; can a start take another launch's session for its own? | holds | 575,796 |
| `mac_tun` | Does an override always have a keeper; does a stop leave its core dead? | holds | 700,983 |
| `capture_windows_poller` | Does the poller only fail a TUN session that ended? | violated | |
| `capture_windows_marker` | Is a live service always covered by a marker? | violated | |
| `capture_linux_sync` | Does the UI show what was announced last? | violated | |
| `linux_tun_order` | Does a stop on Linux restore the DNS before it kills the core? | violated | |

**Bounds.**

* `XrayEngine`: two `Callers`, `MaxGen = 2` generations. Two are enough for the cases
  the code guards against, a start overtaken by a stop and replaced by a second
  start, a stop beside a stop, a poller's failure beside a start.
* `CaptureSession`: none; its state is finite and the runs explore behaviours of
  any length.
* `AuthSession`: `MaxPairs = 3`, the least with which a login, its renewal and
  another login meet. Faults, crashes and restarts are not bounded.
* `SubsTraffic`: two subscriptions, three bytes altogether (`MaxBytes`), one lost
  reply. Two bytes of one subscription are needed for usage that is observed while
  a batch is on its way, a second subscription for a batch with two requests.
* `LinuxTunHelper`: two cores, two launches, a queue of one, one fault: a session that
  the watchdog ends while the next launch starts its own needs two of each.
* `WindowsTunService`: two launches of two versions, two interfaces (one with servers of
  the user's, one with automatic ones), one fault. A list that names the gateway is left
  to the theorem, whose exception it is.
* `MacTun`: two cores, two services, one change of the network, one fault. With two
  changes it held as well (3.7 million states, not part of the runs).

The theorems below hold for every value of these constants.

**Deadlock** is checked in every run but `linux_tun`, `linux_tun_order` and
`windows_tun`, where nothing is left to happen once every launch was used up and
the helper was removed.

**What the violations show.**

1. `capture_linux_sync`. A subscription sync clones the last payload, an operation
   announces its outcome, and the sync records and emits the clone
   (`engine.rs:767`). Nothing emits the outcome again: the UI stays at "starting"
   or "running" until the next operation. The watchers read the same field, so a
   "failed" that was put back hides a dead core from them, and a TUN session whose
   "running" was overwritten is not probed. The platform does not matter.
2. `capture_windows_poller`. The poller sees a connected TUN session, a node switch
   takes the gate and stops the service, the poller sees it stopped and fails the
   engine under the switch: the user gets "TUN service stopped unexpectedly"
   for a session that was being replaced. The start then fails or is torn down by
   the poller's own handling, so marker and UI stay consistent, but the switch is
   lost.
3. `capture_windows_marker`. `stop_service` ignores its errors, so a service that
   does not stop in ten seconds is left capturing with the marker removed.
4. `linux_tun_order`. `docs/capture-modes.md:62` says of all three platforms that a
   stop restores the DNS before it kills the core. `teardown_session` on Linux kills
   and reaps the core first, up to three seconds of it, and restores the DNS then.

On Windows and macOS the lax stop also takes away what depends on it:
`NoSidecarBesideTun`, `IdleIsClean` and `ImplementsIntent` do not hold there, and
`FailureOnlyOfConnected` does not where the poller looks (Windows). They are
checked on Linux only.

**What the exceptions in the other properties show.** Each history variable stands
for behaviour of the code that a reader should know of:

* `AuthSession`, `race`: `restore_from_disk` reads the file outside the lock, so a
  reload of the page beside a logout brings the session back (`state.rs:188`); a
  renewal that ends under another login stores one user's tokens under the other's
  name (`state.rs:237`). `fault`: a renewal cut off by the report's timeout leaves
  a token the server has already rotated. When `auth_restore` is refused the
  session stays in memory and on disk.
* `SubsTraffic`, `dup`: a usage report has no identity, so one whose reply is lost is
  counted twice.
* `CaptureSession`, `Overwritten`: a session whose payload a sync put back is hidden
  from both watchers, so `DeadCoreIsHandled` and `DeadTunIsHandled` promise nothing
  for it.
* `LinuxTunHelper`, `unrestored`: `restore_dns` ignores the failures of `resolvectl`
  and its caller has dropped the servers by then, so the override stays while the
  stop answers Ok (`service.rs:334`, `:442`).
* `LinuxTunHelper`, `orphans` and `lost`: a helper that dies leaves its core, unless
  systemd ends the control group, and forgets the user's DNS; the next start may
  then capture the tunnel's own server as the user's. The watchdog ends whatever
  session is in the slot when it gets there, even a newer one (`service.rs:374`), and
  its `pkill` the newer one's core: the session ends, but nothing is left behind.
* `WindowsTunService`, `stray`: the core of a killed service survives it and nothing
  ends it. `StartedIsOurs` therefore allows a start to return Ok with no service at all,
  when its own has ended since SCM saw it run and something else answers on the
  port, and `DeadOwnerLeavesNothing` claims nothing of such a core.
* `WindowsTunService`, `undercut`: the orphan task restores the DNS under a service that
  is still running. `left`: a service that crashed leaves its override until the
  next start; a snapshot that cannot be restored makes every later start go without
  an override. `broken`: an installer that is killed, or outlives the application
  that asked for it, leaves markers and binaries of different versions.
  `UserDnsIsKnown` excepts a user whose own list names the gateway: without a
  snapshot it is stripped.
* `MacTun`, `raced`: the watcher puts the override back after a stop has taken it away
  (`tun_ops.rs:315`). `lost`: a killed application leaves the override, and a failed
  write is logged and forgotten. `orphans`, `leaked`: a restarted or upgraded
  helper does not know its core, and its sweep looks at ports 2345 and 9191 while
  the configuration uses 10808 and 10809 (`main.m:1186`). A stop gives back what is
  left of the list without the gateway, never the list it replaced
  (`tun_ops.rs:386`): a user with static servers ends up with automatic ones.

**Limits of what holds.** Outside Windows nothing notices a TUN core that ends by
itself while the application shows "connected": `engine.rs:1194` says that Linux and
macOS are not probed, so `DeadTunIsHandled` is checked on Windows only. At the
engine's own interface a start that was stopped and replaced, when it fails, turns
the *new* start's machine Failed (`xray/mod.rs:336` compares no generation, the commit
at `:346` does). `XrayEngine` models it and `engine` shows what holds in spite of it;
the application's gate keeps its own calls apart, so no property forbids it.

**Fairness.** For the engine: a call that has begun and a monitor task take their
steps (tokio polls ready tasks, the readiness wait has a deadline, a killed process
dies). Nothing obliges a caller to call or a core to die. For the session: weak
fairness of the gate's holder except while it waits for a person, of the monitor and
of the poller's own steps; strong fairness of the listener and the poller *taking
the gate*, because tokio's mutex is first-come-first-served and requests can keep
it busy for ever. The waits for a person have no deadline in the code (`Prompts`:
pkexec `linux/mod.rs:170`, the UAC prompt and the installer behind it
`windows/elevate.rs:70` and `:149`, osascript `macos/privilege.rs:70`), so while one is
open nothing is promised: `StartSettles` and `GateIsReleased` end there. The other
waits, for the helper, the core, the monitor and the server, have deadlines; local
commands (`networksetup`, `resolvectl`, the registry) have none and are taken to end.
Nothing obliges a subscription sync, and `capture_windows` owes nothing to monitor and
listener either (`PolledSpec`): the poller alone must notice. In `SubsTraffic`, which has no
prompt, the same mutex justifies strong fairness of
the holder's steps, one of which waits for the operation gate, and requests with
deadlines weak fairness of a sync. In `LinuxTunHelper` the two threads run (`Server`,
`Watchdog`; `resolvectl` ends) and systemd starts a helper that is installed; in `WindowsTunService` the
service's thread runs. Launches, stops, crashes and installers are never obliged;
`AuthSession` and `MacTun` are checked for safety only and need no fairness.

## Proofs

All proof modules follow the same argument: an inductive invariant `IInv`,
`Init => IInv`, `IInv /\ [Next]_vars => IInv'` with one step per action, then each
theorem from `IInv`. TLC checked each `IInv` before it was proved.

`XrayEngine_proofs`, for every set of callers and every `MaxGen \in Nat \ {0}`:
`TypeCorrect`, `NoOrphans`, `OneOwner`, `StopCancels`, `StopWaits`, `NoLateEvent`.
The properties are not inductive. That a stop's return finds the sidecar dead needs
to know that a monitor task ends only over a dead process; that no event follows it
needs every monitor a returned stop held to be done; that a cancelled generation stays
down needs history not to run ahead of `generation`; that a live sidecar has an
owner needs a start still waiting to hold the newest of its own generation, with
no task yet.

`CaptureSession_proofs`. For every platform: `TypeCorrect`, `ProxyIsCovered`,
`ConnectedIsReal`. For Linux: `TunIsCovered`, `OneCoreOwner`, `IdleMeansClean` and
the refinement `IntentIsImplemented`. Its invariant states, for each place of the
gate's holder, what has been armed (`StartIsArmed`), what has been let go of
(`ProxyIsCleared`, `TunIsCleared`: after an error-free step of a cleanup, and from
there to the arming of a start) and where the sidecar is gone (`CoreIsStopped`).
It is needed because the marker is removed far from where the capture ended: that
removal is safe only if every earlier step of the same cleanup succeeded.
`ConnectedIsReal`, `IdleMeansClean` and `FailuresAreOfConnected` are about what a holder
of the gate announced, and hold whatever payload a subscription sync puts back. The
payload a watcher looks at may be old, so what keeps it off is the engine alone.
For macOS and Linux: `FailuresAreOfConnected`, from where the engine is at each place
of the gate's holder (`EngineFits`): while the gate is free the engine is idle or
Running was the last announcement, so a watcher that takes the gate finds nothing that is starting or
stopping. On Windows the poller fails the engine without the gate, beside a stop, and
the property does not hold (its run does not check it).

`AuthSession_proofs`, for every `MaxPairs \in Nat \ {0}`: `TypeCorrect`, `StoresAgree`,
`LogoutsAreFinal`. Its invariant knows who holds the lock (`LockIsHeld`) and what the
holder has changed so far (`HalfDone`), that a login under way is newer than every
ended one (`LoginIsNew`), that a reply is a pair of the login whose token was sent
(`Replied`), and that neither a renewal under way (`RenewalsLive`) nor the file
(`SessionsLive`) belongs to a login that was ended. The last two are what makes
`LogoutIsFinal` inductive: memory is filled from both.
`SessionsRenew` and `RefusalsAreDue` rest on a second invariant over the first, `RInv`:
the gate gives one caller a token (`OneRenewal`), an answer and a login bring a pair
nobody has seen (`RepliesAreNew`, `GrantedIsNew`), memory and file are of one login
whatever write failed (`FileFits`), a renewal renews that login or one that is ended
or just being replaced (`TokensBelong`), and only a logout revokes (`Refusals`). It
is a relation between tokens held at different times: that the token a caller
took before it was suspended is still the one to renew is what a test of two callers
would have to time.

`SubsTraffic_proofs`, for every set of subscriptions and every number of bytes and
lost replies: `TypeCorrect`, `NoByteIsLost`, `TotalsOnlyGrow`. The balance needs to
know where a session may be missing and that its baseline never exceeds the counter
(`SessionFits`), and that a batch never exceeds what is pending (`BatchIsPending`),
which is why the code's saturating subtraction never saturates. The totals only grow
because the engine's gate keeps a flush and a sync apart (`Exclusive`): the list a sync
stores is not older than what it replaces (`ListIsNew`).

`LinuxTunHelper_proofs`, for all sets of cores and launches: `TypeCorrect`,
`NoCoreIsLost`, `OverridesAreKept`, `StopLeavesNothing`, with restores that may fail:
the last two except the override a failed `restore_dns` left (`unrestored`), and nothing
else that was not excepted before. What a thread holds at which
place is in the type; the invariant adds that a running core is held by exactly the
places that will store or kill it (`CoresAreHeld`). That an Ok of `stop_tun` means what
it says rests on the order of the requests: the one the application waits for is the
last (`CallIsLast`), the main thread answers a stop over an empty slot (`ServerFits`),
and a tunnel that is off has no start on its way (`OffMeansNone`).

`WindowsTunService_proofs`, for all launches, versions and interfaces: `TypeCorrect`,
`DnsIsNeverLost`, `StartsAreOwn`. `DnsIsKnown` says of each place of the service what
the snapshot file and the interface hold there (`SnapshotIsOwn`, `DnsAtPlaces`),
unless the orphan task interfered; `Bound` carries the owner and the version from
the freshness check through stop, installation and start to the answer, for as long
as that service runs; the port it is asked on may be anybody's (`stray`, `ProgramAnswers`).

`MacTun_proofs`, for all network services, cores, changes of the network and faults:
`TypeCorrect`, `OverridesAreTracked`. The calls need an invariant of their own, for
their replies move the caller: the open call is the last one, and the caller waits for
it (`CallsFit`). While nobody raced the threads take turns (`Turns`): the watcher works
on a slot that is taken, every operation of the caller on one that is free. A switch
of the watcher is described place by place (`Switch`): the service before stays in the
slot until it has lost the gateway and the service after has it.
`StopsAreExact` has an invariant of its own (`SInv`), for a helper in which calls that
were given up run beside the one that is waited for. The serial queue (`Serial`) and
the order of arrival (`Served`) make the call that is waited for the last to be served;
so a stop that succeeded found the only session there was (`StopIsServed`), what runs
is a session's, a start's or an ended helper's (`CoresKnown`, `RouteKnown`), and the
clearing of a session is preceded by the death of its core (`StagesFit`). From there
the result is carried over the reply to the next place of the caller (`NothingLeft`,
`TunnelIsSafe`). TLC checked `SInv` with two failures (525 654 states) first.

`NodeSelection` has no state: it is the ladder by which a start finds its node, and
its theorems hold for every list of nodes and every query. What is picked lies in the
first rung that is not empty (`PickedRung`), and a key names one identity whatever
format it was written in (`KeysName`). Hence a start with the fallback never dead-ends
(`ConnectNeverStrands`), a tap is answered by the node tapped or not at all
(`TapIsExact`), the remembered identity is followed through renames, reordering and
doubled nodes (`IdentityIsFollowed`), an outdated id from the UI does not hide it
(`StaleIdHidesNothing`), a rotated credential stays on its server (`RotationIsFollowed`),
and reconciliation over one list rewrites for the last time at its second call
(`ReconcileSettles`; the first may not be the last, when two nodes share an identity).
`IdentityIsFollowed` holds for every mixture of key, tag and endpoint, which is what two
interleaved `set_selected` can leave. Two idealisations: the hash of the current key
format is injective, and so is joining protocol, server, port and secret by bars.
`sanitize_tag_like` is any function. No run uses the module: there is nothing to step.

Assumptions: the named `ASSUME`s of the modules (`MaxGenAssumption`,
`PlatformAssumption`, `MaxPairsAssumption`, `SubsAssumption`, `BoundAssumption`,
`ValuesAssumption`, `NamesAssumption`, `VersionsAssumption`, `OwnAssumption`,
`BoundsAssumption`), all of which TLC evaluates on the runs, and `Platform = "linux"`
or `Platform # "windows"` where a theorem states it; `ReconcileSettles` assumes that no
key is the empty text.

Only model-checked: the liveness properties (`SupersededCoreDies`, `CallsReturn`,
`StartSettles`, `DeadCoreIsHandled`, `DeadTunIsHandled`, `GateIsReleased`,
`GatesAreReleased`, `DeadCallerLeavesNothing`, `DeadOwnerLeavesNothing`), because
liveness under fairness and ENABLED are beyond the prover. Every invariant and every
action property of a passing run is a theorem.

## Not modelled, and the plan

The order is by what a mistake costs the user.

1. `CaptureSession` with `XrayEngine` as its engine: a composition that shows the
   orchestration's view of the engine to be implemented by it.
2. `set_selected` as a state machine over `NodeSelection`, `PersistWrite`, `Settings`: interleaved read-modify-write and
   two-step writes (hazards at `commands/engine.rs:255`, `persist.rs:69`,
   `settings.rs:166`).
3. `SystemProxyBackends`: partial set and clear over services and desktops.
4. `FrontendSync`: hydrate against events, sync against logout.

Left out for good: configuration text and node decoding (pure text, better served
by the unit tests they have), the HTTP client, logging, window management, ping and
the updater (I/O without state the rest depends on).

## Running

    tlc -config MC_XrayEngine.cfg MC_XrayEngine
    tlc -config CaptureSession_linux.cfg CaptureSession
    tlc -config CaptureSession_windows.cfg CaptureSession
    tlc -config AuthSession.cfg AuthSession
    tlc -config MC_SubsTraffic.cfg MC_SubsTraffic
    tlc -config LinuxTunHelper.cfg LinuxTunHelper
    tlc -config MC_WindowsTunService.cfg MC_WindowsTunService
    tlc -config MacTun.cfg MacTun

and, to see the violations,

    tlc -config CaptureSession_windows_poller.cfg CaptureSession
    tlc -config CaptureSession_windows_marker.cfg CaptureSession
    tlc -config CaptureSession_linux_sync.cfg CaptureSession
    tlc -config LinuxTunHelper_order.cfg LinuxTunHelper

and `tlapm M.tla` for `NodeSelection` and each module `M` whose name ends in `_proofs`.
The longest runs take two to three minutes with two workers, the longest proofs
(`AuthSession_proofs`, `MacTun_proofs`) four to six; the others about a minute or less.
