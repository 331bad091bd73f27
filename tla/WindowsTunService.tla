------------------------- MODULE WindowsTunService -------------------------
(***************************************************************************)
(* The Windows TUN control plane: the SCM service that runs the core and   *)
(* overrides the DNS of one interface (windows/service.rs, windows/dns.rs),*)
(* the application that starts and stops it (windows/mod.rs), and the      *)
(* elevated installer and orphan task (windows/scm.rs, windows/elevate.rs).*)
(*                                                                         *)
(* The NameServer value of an interface is a set of servers; the override  *)
(* replaces it with {"gw"}.  Only one interface is overridden: aliases of  *)
(* connected interfaces are unique.                                        *)
(***************************************************************************)
EXTENDS Naturals, FiniteSets

CONSTANTS
    Apps,       \* processes of the application: each launch is another one
    NoApp,      \* the application does not run
    Versions,   \* versions of the application's bundle, numbers above 0
    Ifaces,     \* physical interfaces
    NoIface,    \* no service runs, so none is chosen
    Own,        \* the NameServer value the user has chosen for each
    NoSnapshot, \* no dns-snapshot.json
    MaxFaults   \* bound on killed processes and first failures of a registry write

Servers  == SUBSET {"isp", "gw"}
Snapshot == [iface : Ifaces, original : Servers]

ASSUME NamesAssumption ==
    NoApp \notin Apps /\ NoIface \notin Ifaces /\ NoSnapshot \notin Snapshot
ASSUME VersionsAssumption == Versions \subseteq Nat \ {0}
ASSUME OwnAssumption == Own \in [Ifaces -> Servers \ {{"gw"}}]
ASSUME BoundsAssumption == MaxFaults \in Nat

VARIABLES
    (* the application and its call into windows/mod.rs *)
    app, launched,
    version,    \* of the bundle it was launched from
    call,
    (* the elevated installer, or the orphan task *)
    admin,      \* [step, version]: version 0 uninstalls
    registered, \* SCM knows the service
    doomed,     \* it is marked for deletion
    exe, core,  \* versions of the installed binaries, 0 when absent
    exeMark, coreMark,   \* versions their hash markers name
    (* the service *)
    scm,        \* the state SCM reports
    pc, owner, runs,     \* runs: version of its executable
    stopRequested, child,
    iface,      \* the outbound interface of its configuration
    stray,      \* a core of a killed service runs, on the API port of any core
    (* the system *)
    dns,        \* NameServer of each interface
    snapshot,
    (* history *)
    left,       \* a crash or a failed write left an override in force
    undercut,   \* the orphan task restored the DNS under a running service
    broken,     \* an installer was killed half way, or outlived the application
    faults

client  == <<app, launched, version, call>>
install == <<admin, registered, doomed, exe, core, exeMark, coreMark>>
session == <<scm, owner, runs, stopRequested, child, iface, stray>>
service == <<scm, pc, owner, runs, stopRequested, child, iface, stray>>
system  == <<dns, snapshot>>
history == <<left, undercut, broken, faults>>
vars    == <<app, launched, version, call, admin, registered, doomed, exe, core,
             exeMark, coreMark, scm, pc, owner, runs, stopRequested, child, iface,
             stray, dns, snapshot, left, undercut, broken, faults>>

Hijack   == {"gw"}
Numbers  == Versions \cup {0}
NoAdmin  == [step |-> "none", version |-> 0]

(* Where the service has a core process.                                   *)
WithCore == {"wait", "stale", "staleRemove", "snapshot", "override", "report", "loop"}

TypeOK ==
    /\ app \in Apps \cup {NoApp} /\ launched \subseteq Apps
    /\ version \in Numbers
    /\ call \in {"none", "check", "elevated", "begin", "stopStale", "launch",
                 "await", "api", "undo", "stop"}
    /\ admin \in [step : {"none", "stop", "delete", "exe", "core", "create",
                          "mark", "markCore", "remove"}, version : Numbers]
    /\ registered \in BOOLEAN /\ doomed \in BOOLEAN
    /\ {exe, core, exeMark, coreMark} \subseteq Numbers
    /\ scm \in {"stopped", "startPending", "running", "stopPending"}
    /\ pc \in WithCore \cup {"none", "verify", "remove", "removeFile", "strip", "end"}
    /\ owner \in Apps \cup {NoApp} /\ runs \in Numbers
    /\ stopRequested \in BOOLEAN /\ child \in {"none", "running", "dead"}
    /\ iface \in Ifaces \cup {NoIface} /\ stray \in BOOLEAN
    /\ dns \in [Ifaces -> Servers]
    /\ snapshot \in Snapshot \cup {NoSnapshot}
    /\ left \in BOOLEAN /\ undercut \in BOOLEAN /\ broken \in BOOLEAN
    /\ faults \in Nat
    /\ scm = "stopped" <=> pc = "none"
    /\ child # "none" <=> pc \in WithCore
    /\ iface # NoIface <=> pc \notin {"none", "verify"}
    /\ doomed => registered

Init ==
    /\ app = NoApp /\ launched = {} /\ version = 0 /\ call = "none"
    /\ admin = NoAdmin /\ registered = FALSE /\ doomed = FALSE
    /\ exe = 0 /\ core = 0 /\ exeMark = 0 /\ coreMark = 0
    /\ scm = "stopped" /\ pc = "none" /\ owner = NoApp /\ runs = 0
    /\ stopRequested = FALSE /\ child = "none" /\ iface = NoIface /\ stray = FALSE
    /\ dns = Own /\ snapshot = NoSnapshot
    /\ left = FALSE /\ undercut = FALSE /\ broken = FALSE /\ faults = 0
-----------------------------------------------------------------------------
(* The service.                                                            *)

GoTo(place) == pc' = place
Fails == faults < MaxFaults /\ faults' = faults + 1

(* The process handle opened at the start; the core whose hash its marker  *)
(* names.                                                                  *)
OwnerIsAlive  == owner = app
CoreIsTrusted == core # 0 /\ coreMark = core

(* Mutation: the core is not killed.                                       *)
StopsLeavingCore ==
    /\ scm' = "stopped" /\ GoTo("none") /\ UNCHANGED child
    /\ stopRequested' = FALSE /\ owner' = NoApp /\ runs' = 0
    /\ registered' = (registered /\ ~doomed) /\ doomed' = FALSE
    /\ iface' = NoIface
    /\ UNCHANGED <<admin, exe, core, exeMark, coreMark>>

(* A service process that ends; SCM then deletes a service that is doomed. *)
Stops ==
    /\ scm' = "stopped" /\ GoTo("none") /\ child' = "none"
    /\ stopRequested' = FALSE /\ owner' = NoApp /\ runs' = 0
    /\ registered' = (registered /\ ~doomed) /\ doomed' = FALSE
    /\ iface' = NoIface
    /\ UNCHANGED <<admin, exe, core, exeMark, coreMark>>

(* service_main: a configuration, caller or core it does not accept, an    *)
(* owner that is gone, a spawn that fails.                                 *)
Refuse ==
    /\ pc = "verify"
    /\ Stops
    /\ UNCHANGED <<client, stray, system, history>>

Spawn ==
    /\ pc = "verify" /\ OwnerIsAlive /\ CoreIsTrusted
    /\ child' = "running" /\ iface' \in Ifaces
    /\ GoTo("wait")
    /\ UNCHANGED <<client, install, scm, owner, runs, stopRequested, stray, system, history>>

(* wait_for_core_api: the port answers while core and owner live; else the *)
(* core is killed and the start reported as failed.                        *)
ApiReady ==
    /\ pc = "wait" /\ child = "running" /\ OwnerIsAlive
    /\ GoTo("stale")
    /\ UNCHANGED <<client, install, session, system, history>>

ApiNotReady ==
    /\ pc = "wait"
    /\ Stops
    /\ UNCHANGED <<client, stray, system, history>>

(* Mutation: an old snapshot is overwritten.                               *)
IgnoreStale ==
    /\ pc = "stale" /\ GoTo("snapshot")
    /\ UNCHANGED <<client, install, session, system, history>>

(* apply_override restores the snapshot of an instance that did not clean  *)
(* up; when that fails it gives up the override.                           *)
RestoreStale ==
    /\ pc = "stale"
    /\ IF snapshot = NoSnapshot
       THEN GoTo("snapshot") /\ UNCHANGED dns
       ELSE GoTo("staleRemove") /\ dns' = [dns EXCEPT ![snapshot.iface] = snapshot.original]
    /\ UNCHANGED <<client, install, session, snapshot, history>>

RestoreStaleFails ==
    /\ pc = "stale" /\ snapshot # NoSnapshot
    /\ left' = TRUE
    /\ GoTo("report")
    /\ UNCHANGED <<client, install, session, system, undercut, broken, faults>>

RemoveStale ==
    /\ pc = "staleRemove"
    /\ snapshot' = NoSnapshot /\ left' = FALSE
    /\ GoTo("snapshot")
    /\ UNCHANGED <<client, install, session, dns, undercut, broken, faults>>

(* The value is saved before it is replaced.                               *)
SaveSnapshot ==
    /\ pc = "snapshot"
    /\ snapshot' = [iface |-> iface, original |-> dns[iface]]
    /\ GoTo("override")
    /\ UNCHANGED <<client, install, session, dns, history>>

(* No interface has the configured name, or the file cannot be written.    *)
NoOverride ==
    /\ pc = "snapshot"
    /\ GoTo("report")
    /\ UNCHANGED <<client, install, session, system, history>>

Override ==
    /\ pc = "override"
    /\ dns' = [dns EXCEPT ![iface] = Hijack]
    /\ GoTo("report")
    /\ UNCHANGED <<client, install, session, snapshot, history>>

OverrideFails ==
    /\ pc = "override" /\ Fails
    /\ GoTo("report")
    /\ UNCHANGED <<client, install, session, system, left, undercut, broken>>

(* SERVICE_RUNNING, whatever became of the override.                       *)
Report ==
    /\ pc = "report"
    /\ scm' = "running" /\ GoTo("loop")
    /\ UNCHANGED <<client, install, owner, runs, stopRequested, child, iface, stray,
                   system, history>>

(* Mutation: the loop does not watch its owner.                            *)
LeaveLoopUnwatched ==
    /\ pc = "loop"
    /\ stopRequested \/ child = "dead"
    /\ scm' = "stopPending" /\ child' = "none"
    /\ GoTo("remove")
    /\ UNCHANGED <<client, install, owner, runs, stopRequested, iface, stray, system, history>>

(* The main loop ends when a stop was requested or owner or core is gone;  *)
(* the core is reaped before the DNS is touched.                           *)
LeaveLoop ==
    /\ pc = "loop"
    /\ stopRequested \/ ~OwnerIsAlive \/ child = "dead"
    /\ scm' = "stopPending" /\ child' = "none"
    /\ GoTo("remove")
    /\ UNCHANGED <<client, install, owner, runs, stopRequested, iface, stray, system, history>>

(* remove_override: the snapshot, then its file, or, without a snapshot,   *)
(* every occurrence of the gateway.                                        *)
RestoreSnapshot ==
    /\ pc = "remove" /\ snapshot # NoSnapshot
    /\ dns' = [dns EXCEPT ![snapshot.iface] = snapshot.original]
    /\ GoTo("removeFile")
    /\ UNCHANGED <<client, install, session, snapshot, history>>

RestoreSnapshotFails ==
    /\ pc = "remove" /\ snapshot # NoSnapshot
    /\ Fails /\ left' = TRUE
    /\ GoTo("end")
    /\ UNCHANGED <<client, install, session, system, undercut, broken>>

RemoveSnapshot ==
    /\ pc = "removeFile"
    /\ snapshot' = NoSnapshot /\ left' = FALSE
    /\ GoTo("end")
    /\ UNCHANGED <<client, install, session, dns, undercut, broken, faults>>

StripGateway ==
    /\ pc = "remove" /\ snapshot = NoSnapshot
    /\ dns' = [i \in Ifaces |-> dns[i] \ Hijack]
    /\ GoTo("end")
    /\ UNCHANGED <<client, install, session, snapshot, history>>

ReportStopped ==
    /\ pc = "end"
    /\ Stops
    /\ UNCHANGED <<client, stray, system, history>>

Service ==
    \/ Refuse \/ Spawn \/ ApiReady \/ ApiNotReady
    \/ RestoreStale \/ RestoreStaleFails \/ RemoveStale
    \/ SaveSnapshot \/ NoOverride \/ Override \/ OverrideFails \/ Report
    \/ LeaveLoop \/ RestoreSnapshot \/ RestoreSnapshotFails \/ RemoveSnapshot
    \/ StripGateway \/ ReportStopped

CoreExits ==
    /\ child = "running" /\ child' = "dead"
    /\ UNCHANGED <<client, install, scm, pc, owner, runs, stopRequested, iface, stray,
                   system, history>>

(* The service process is killed.  No job object and no kill on drop ties  *)
(* its core to it, so a core that runs goes on without anybody.            *)
ServiceCrashes ==
    /\ scm # "stopped" /\ Fails
    /\ Stops
    /\ stray' = (stray \/ child = "running")
    /\ left' = (snapshot # NoSnapshot)
    /\ UNCHANGED <<client, system, undercut, broken>>

(* Nothing in the code ends it; the user or the system may.                *)
StrayEnds ==
    /\ stray /\ stray' = FALSE
    /\ UNCHANGED <<client, install, scm, pc, owner, runs, stopRequested, child, iface,
                   system, history>>
-----------------------------------------------------------------------------
(* SCM calls of the application.                                           *)

(* A stop is accepted only by a running service; handler_ex notes it.      *)
AcceptsStop == scm = "running" /\ ~stopRequested
SendStop ==
    IF AcceptsStop THEN stopRequested' = TRUE /\ scm' = "stopPending"
                   ELSE UNCHANGED <<stopRequested, scm>>
Usable == registered /\ ~doomed

CallTo(next) == call' = next /\ UNCHANGED <<app, launched, version>>
Calls(from, next) ==
    /\ call = from /\ CallTo(next)
    /\ UNCHANGED <<install, service, system, history>>

StartTun == app # NoApp /\ Calls("none", "check")

(* check_freshness and check_core_freshness compare the markers with the   *)
(* bundle; the installed files only have to exist.                         *)
UpToDate ==
    /\ registered /\ exe # 0 /\ core # 0
    /\ exeMark = version /\ coreMark = version

IsInstalled == UpToDate /\ Calls("check", "begin")

(* UAC: declined, or the installer runs in its own process.                *)
Declined == ~UpToDate /\ Calls("check", "none")

Elevate ==
    /\ call = "check" /\ ~UpToDate /\ admin = NoAdmin
    /\ CallTo("elevated")
    /\ admin' = [step |-> "stop", version |-> version]
    /\ UNCHANGED <<registered, doomed, exe, core, exeMark, coreMark, service, system, history>>

(* No default interface, a configuration that cannot be patched, no        *)
(* service, or one that stays pending.                                     *)
BeginFails == Calls("begin", "none")

(* start_service_with_args: a stale service is stopped first.              *)
FindsStopped == scm = "stopped" /\ registered /\ Calls("begin", "launch")
FindsRunningReused ==    \* mutation: a running service is as good as a started one
    scm = "running" /\ Calls("begin", "await")
FindsRunning ==
    /\ call = "begin" /\ scm \in {"running", "stopPending"}
    /\ CallTo("stopStale")
    /\ SendStop
    /\ UNCHANGED <<install, pc, owner, runs, child, iface, stray, system, history>>
StaleStopped == scm = "stopped" /\ Calls("stopStale", "launch")
StaleRemains == scm # "stopped" /\ Calls("stopStale", "none")

(* StartServiceW with the configuration, the gateway and the own pid.      *)
Launches ==
    /\ call = "launch" /\ scm = "stopped" /\ Usable
    /\ CallTo("await")
    /\ scm' = "startPending" /\ GoTo("verify")
    /\ owner' = app /\ runs' = exe
    /\ UNCHANGED <<install, stopRequested, child, iface, stray, system, history>>
LaunchFails == (scm # "stopped" \/ ~Usable) /\ Calls("launch", "none")

(* It waits until nothing is pending, for at most 15 seconds.              *)
SeesRunning == scm = "running" /\ Calls("await", "api")
SeesFailure == scm # "running" /\ Calls("await", "none")

(* wait_api takes whoever answers on the port for the core and looks at    *)
(* the service only while nobody does; in the end the service is stopped.  *)
(* That some other program listens there is a fault.                       *)
ApiAnswers == (child = "running" \/ stray) /\ Calls("api", "none")
ProgramAnswers ==
    /\ call = "api" /\ child # "running" /\ ~stray /\ Fails
    /\ CallTo("none")
    /\ UNCHANGED <<install, service, system, left, undercut, broken>>
StopService(from, next) ==
    /\ call = from /\ CallTo(next)
    /\ SendStop
    /\ UNCHANGED <<install, pc, owner, runs, child, iface, stray, system, history>>
ApiSilent == StopService("api", "undo")

(* stop_service ignores what ControlService and the wait return.           *)
StopTun == app # NoApp /\ StopService("none", "stop")
StopEnds == Calls("stop", "none") \/ Calls("undo", "none")

Start ==
    \/ IsInstalled \/ Declined \/ Elevate
    \/ BeginFails \/ FindsStopped \/ FindsRunning
    \/ StaleStopped \/ StaleRemains \/ Launches \/ LaunchFails
    \/ SeesRunning \/ SeesFailure \/ ApiAnswers \/ ProgramAnswers \/ ApiSilent

Launch ==
    /\ app = NoApp /\ Apps \ launched # {}
    /\ app' = CHOOSE a \in Apps : a \notin launched
    /\ launched' = launched \cup {app'}
    /\ version' \in Versions
    /\ UNCHANGED <<call, install, service, system, history>>

Exit ==
    /\ app # NoApp /\ app' = NoApp /\ version' = 0 /\ call' = "none"
    /\ broken' = (broken \/ (call = "elevated" /\ admin.version # 0))
    /\ UNCHANGED <<launched, install, service, system, left, undercut, faults>>
-----------------------------------------------------------------------------
(* The elevated installer and the uninstaller.                             *)

Step(from, to) ==
    /\ admin.step = from
    /\ admin' = [admin EXCEPT !.step = to]

(* It ends, and the application's call with it.                            *)
Leave(next) ==
    /\ admin' = NoAdmin
    /\ call' = IF call = "elevated" THEN next ELSE call
    /\ UNCHANGED <<app, launched, version>>

(* stop_and_delete: stop, wait at most 10 seconds, delete regardless.  The *)
(* wait is the time until AdminDeletes.                                    *)
AdminStops ==
    /\ Step("stop", "delete")
    /\ IF registered THEN SendStop ELSE UNCHANGED <<scm, stopRequested>>
    /\ UNCHANGED <<client, registered, doomed, exe, core, exeMark, coreMark,
                   pc, owner, runs, child, iface, stray, system, history>>

AdminDeletes ==
    /\ ~doomed \/ admin.version = 0
    /\ Step("delete", IF admin.version = 0 THEN "remove" ELSE "exe")
    /\ registered' = (registered /\ scm # "stopped")
    /\ doomed' = registered'
    /\ UNCHANGED <<client, exe, core, exeMark, coreMark, service, system, history>>

(* copy_with_retry: a running image cannot be replaced, whoever runs it.   *)
CoreIsLocked == child = "running" \/ stray

CopyExe ==
    /\ Step("exe", "core") /\ scm = "stopped"
    /\ exe' = admin.version
    /\ UNCHANGED <<client, registered, doomed, core, exeMark, coreMark, service, system, history>>

CopyCore ==
    /\ Step("core", "create") /\ ~CoreIsLocked
    /\ core' = admin.version
    /\ UNCHANGED <<client, registered, doomed, exe, exeMark, coreMark, service, system, history>>

CreateService ==
    /\ Step("create", "mark") /\ ~registered
    /\ registered' = TRUE
    /\ UNCHANGED <<client, doomed, exe, core, exeMark, coreMark, service, system, history>>

WriteMarker ==
    /\ Step("mark", "markCore")
    /\ exeMark' = admin.version
    /\ UNCHANGED <<client, registered, doomed, exe, core, coreMark, service, system, history>>

WriteCoreMarker ==
    /\ admin.step = "markCore"
    /\ coreMark' = admin.version
    /\ Leave("begin")
    /\ UNCHANGED <<registered, doomed, exe, core, exeMark, service, system, history>>

(* The service is already doomed or still there, or an image is locked:    *)
(* the installer gives up.                                                 *)
InstallFails ==
    /\ \/ admin.step = "delete" /\ doomed /\ admin.version # 0
       \/ admin.step = "exe" /\ scm # "stopped"
       \/ admin.step = "core" /\ CoreIsLocked
       \/ admin.step = "create" /\ registered
    /\ Leave("none")
    /\ UNCHANGED <<registered, doomed, exe, core, exeMark, coreMark, service, system, history>>

RemoveFiles ==
    /\ admin.step = "remove"
    /\ exe' = (IF scm = "stopped" THEN 0 ELSE exe)
    /\ core' = (IF CoreIsLocked THEN core ELSE 0)
    /\ exeMark' = 0 /\ coreMark' = 0
    /\ Leave("none")
    /\ UNCHANGED <<registered, doomed, service, system, history>>

Admin ==
    \/ AdminStops \/ AdminDeletes \/ CopyExe \/ CopyCore
    \/ CreateService \/ WriteMarker \/ WriteCoreMarker \/ InstallFails \/ RemoveFiles

AdminDies ==
    /\ admin # NoAdmin /\ Fails
    /\ Leave("none") /\ broken' = TRUE
    /\ UNCHANGED <<registered, doomed, exe, core, exeMark, coreMark, service,
                   system, left, undercut>>

(* uninstall_elevated stops the tunnel, then uninstalls.                   *)
UserUninstalls ==
    /\ call = "stop" /\ admin = NoAdmin /\ CallTo("elevated")
    /\ admin' = [step |-> "stop", version |-> 0]
    /\ UNCHANGED <<registered, doomed, exe, core, exeMark, coreMark, service, system, history>>

(* The scheduled task finds the application deleted: restore_all, then     *)
(* uninstall.                                                              *)
OrphanCheck ==
    /\ app = NoApp /\ admin = NoAdmin /\ registered
    /\ admin' = [step |-> "stop", version |-> 0]
    /\ dns' = IF snapshot = NoSnapshot THEN dns
              ELSE [dns EXCEPT ![snapshot.iface] = snapshot.original]
    /\ snapshot' = NoSnapshot /\ left' = FALSE
    /\ undercut' = (undercut \/ (snapshot # NoSnapshot /\ scm # "stopped"))
    /\ UNCHANGED <<client, registered, doomed, exe, core, exeMark, coreMark,
                   service, broken, faults>>
-----------------------------------------------------------------------------
Next ==
    \/ Service \/ CoreExits \/ ServiceCrashes \/ StrayEnds
    \/ StartTun \/ Start \/ StopTun \/ StopEnds \/ Launch \/ Exit
    \/ Admin \/ AdminDies \/ UserUninstalls \/ OrphanCheck

(* The service's thread runs.                                              *)
Spec     == Init /\ [][Next]_vars
FairSpec == Spec /\ WF_vars(Service)
-----------------------------------------------------------------------------
(* Properties.                                                             *)

(* The user's servers are never lost: an interface has them, or it has the *)
(* override and the snapshot on disk has them.  A list that holds the      *)
(* gateway itself is excepted (remove_override strips it when there is no  *)
(* snapshot), and so is the orphan task working under a running service.   *)
UserDnsIsKnown ==
    undercut \/ \A i \in Ifaces :
      \/ dns[i] = Own[i] \/ "gw" \in Own[i]
      \/ /\ dns[i] = Hijack /\ snapshot # NoSnapshot
         /\ snapshot.iface = i /\ snapshot.original = Own[i]

(* When start_tun returns Ok, the service there is is bound to this very   *)
(* process and runs the version of this bundle, after whatever another     *)
(* launch, another version or an interrupted stop has left behind.  There  *)
(* may be none: it has ended after SCM saw it run, and something else      *)
(* answered on the port, a core of a killed service or another program.    *)
StartReturns == call = "api" /\ call' = "none" /\ app' = app
Ours == owner = app /\ (runs = version \/ broken)
StartedIsOurs ==
    [][StartReturns => IF scm = "stopped" THEN stray \/ ProgramAnswers ELSE Ours]_vars

(* When the application is gone, its service ends, the core with it, and   *)
(* takes the override off, unless a fault left it in force.  The core of a *)
(* service that was killed is nobody's: nothing in the code ends it, and   *)
(* nothing is claimed of it.                                               *)
TunnelIsGone ==
    scm = "stopped" /\ (left \/ undercut \/ \A i \in Ifaces : dns[i] # Hijack)
DeadOwnerLeavesNothing == app = NoApp ~> (app # NoApp \/ TunnelIsGone)
=============================================================================
