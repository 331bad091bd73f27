---------------------- MODULE WindowsTunService_proofs ----------------------
(***************************************************************************)
(* The invariants of WindowsTunService for any number of launches, any     *)
(* versions, interfaces and user's servers, and any number of faults.      *)
(* Each is inductive together with what it says of the places of the       *)
(* service's thread, of the application's call and of the installer.       *)
(***************************************************************************)
EXTENDS WindowsTunService, TLAPS

USE NamesAssumption, VersionsAssumption, OwnAssumption
USE DEF NamesAssumption, VersionsAssumption, OwnAssumption

(* The type invariant in two halves: Boolean variables and the others. *)
SwitchesTyped ==
    /\ registered \in BOOLEAN
    /\ doomed \in BOOLEAN
    /\ stopRequested \in BOOLEAN
    /\ left \in BOOLEAN
    /\ undercut \in BOOLEAN
    /\ broken \in BOOLEAN
    /\ stray \in BOOLEAN
    /\ doomed => registered

switches == <<registered, doomed, stopRequested, left, undercut, broken, stray>>

ValuesTyped ==
    /\ app \in Apps \cup {NoApp} /\ launched \subseteq Apps
    /\ version \in Numbers
    /\ call \in {"none", "check", "elevated", "begin", "stopStale", "launch",
                 "await", "api", "undo", "stop"}
    /\ admin \in [step : {"none", "stop", "delete", "exe", "core", "create",
                          "mark", "markCore", "remove"}, version : Numbers]
    /\ {exe, core, exeMark, coreMark} \subseteq Numbers
    /\ scm \in {"stopped", "startPending", "running", "stopPending"}
    /\ pc \in WithCore \cup {"none", "verify", "remove", "removeFile", "strip", "end"}
    /\ owner \in Apps \cup {NoApp} /\ runs \in Numbers
    /\ child \in {"none", "running", "dead"}
    /\ iface \in Ifaces \cup {NoIface}
    /\ dns \in [Ifaces -> Servers]
    /\ snapshot \in Snapshot \cup {NoSnapshot}
    /\ faults \in Nat
    /\ scm = "stopped" <=> pc = "none"
    /\ child # "none" <=> pc \in WithCore
    /\ iface # NoIface <=> pc \notin {"none", "verify"}

(* An interface has the user's servers, or a list that holds the gateway,  *)
(* of which nothing is claimed.                                            *)
Restored(i) == dns[i] = Own[i] \/ "gw" \in Own[i]

(* A snapshot on disk is what the user has chosen, even one that an        *)
(* earlier service left there.                                             *)
SnapshotIsOwn ==
    snapshot # NoSnapshot =>
       snapshot.original = Own[snapshot.iface] \/ "gw" \in Own[snapshot.iface]

Known ==
    \A i \in Ifaces :
      \/ dns[i] = Own[i] \/ "gw" \in Own[i]
      \/ /\ dns[i] = Hijack /\ snapshot # NoSnapshot
         /\ snapshot.iface = i /\ snapshot.original = Own[i]

(* A snapshot is removed, or replaced by another, only where no interface  *)
(* is overridden any more, and what is overridden has been saved.          *)
DnsAtPlaces ==
    /\ pc \in {"staleRemove", "snapshot", "removeFile"} => \A i \in Ifaces : Restored(i)
    /\ pc = "override" => snapshot # NoSnapshot /\ snapshot.iface = iface

DnsIsKnown == SnapshotIsOwn /\ Known /\ DnsAtPlaces

(* The call of the application: a service that has not stopped since it    *)
(* was launched is the caller's, and one that can be launched is of its    *)
(* version.                                                                *)
CallIsBound ==
    /\ app = NoApp => call = "none"
    /\ call \in {"await", "api"} /\ scm # "stopped" =>
          owner = app /\ (runs = version \/ broken)
    /\ call \in {"begin", "stopStale", "launch"} /\ Usable => exe = version \/ broken

(* The installer works for the call that waits for it, replaces binaries   *)
(* only while no service can be started, and leaves the marker true.       *)
InstallerFits ==
    /\ admin # NoAdmin /\ admin.version # 0 =>
          broken \/ (call = "elevated" /\ admin.version = version)
    /\ Usable => broken \/ exe = exeMark \/ admin.step = "mark"
    /\ admin.step \in {"exe", "core", "create", "remove"} => ~Usable
    /\ admin.step \in {"core", "create", "mark", "markCore"} => exe = admin.version
    /\ admin.version = 0 => admin.step \in {"none", "stop", "delete", "remove"}
    /\ admin.step = "none" => admin = NoAdmin

Bound == CallIsBound /\ InstallerFits

IInv ==
    /\ SwitchesTyped
    /\ ValuesTyped
    /\ undercut \/ DnsIsKnown
    /\ Bound

-----------------------------------------------------------------------------
(* The initial states satisfy the inductive invariant. *)
LEMMA Initially == Init => IInv
<1> SUFFICES ASSUME Init PROVE IInv
  OBVIOUS
<1>1. SwitchesTyped
  BY Zenon DEF Init, SwitchesTyped
<1>2. ValuesTyped
  BY DEF Init, ValuesTyped, Numbers, NoAdmin, WithCore, Servers, Snapshot
<1>3. DnsIsKnown
  BY DEF Init, DnsIsKnown, SnapshotIsOwn, Known, DnsAtPlaces
<1>4. Bound
  BY DEF Init, Bound, CallIsBound, InstallerFits, Usable, NoAdmin
<1> QED
  BY <1>1, <1>2, <1>3, <1>4 DEF IInv

(* Every step keeps the Boolean variables Boolean. *)
LEMMA SwitchesInductive == SwitchesTyped /\ [Next]_vars => SwitchesTyped'
<1> SUFFICES ASSUME SwitchesTyped, [Next]_vars PROVE SwitchesTyped'
  OBVIOUS
<1> USE DEF client, install, session, service, system, history
<1>1. CASE UNCHANGED switches
  BY <1>1, Zenon DEF SwitchesTyped, switches
<1>2. CASE Spawn \/ ApiReady \/ Report \/ LeaveLoop \/ CoreExits
  BY <1>1, <1>2
     DEF switches, Spawn, ApiReady, Report, LeaveLoop, CoreExits
<1>3. CASE RestoreStale \/ SaveSnapshot \/ NoOverride \/ Override \/ OverrideFails
           \/ RestoreSnapshot \/ StripGateway
  BY <1>1, <1>3 DEF switches, RestoreStale, SaveSnapshot, NoOverride, Override,
     OverrideFails, RestoreSnapshot, StripGateway
<1>4. CASE IsInstalled \/ Declined \/ Elevate \/ BeginFails \/ FindsStopped
           \/ StaleStopped \/ StaleRemains
  BY <1>1, <1>4 DEF switches, IsInstalled, Declined, Elevate, BeginFails, FindsStopped,
     StaleStopped, StaleRemains, Calls
<1>5. CASE Launches \/ LaunchFails \/ SeesRunning \/ SeesFailure \/ ApiAnswers
           \/ ProgramAnswers \/ StartTun \/ StopEnds \/ Launch
  BY <1>1, <1>5 DEF switches, Launches, LaunchFails, SeesRunning, SeesFailure,
     ApiAnswers, ProgramAnswers, StartTun, StopEnds, Launch, Calls
<1>6. CASE CopyExe \/ CopyCore \/ WriteMarker \/ WriteCoreMarker
           \/ InstallFails \/ RemoveFiles \/ UserUninstalls
  BY <1>1, <1>6 DEF switches, CopyExe, CopyCore, WriteMarker,
     WriteCoreMarker, InstallFails, RemoveFiles, UserUninstalls
<1>7. CASE Refuse
  BY <1>7, Zenon DEF SwitchesTyped, Refuse, Stops
<1>8. CASE ApiNotReady
  BY <1>8, Zenon DEF SwitchesTyped, ApiNotReady, Stops
<1>9. CASE ReportStopped
  BY <1>9, Zenon DEF SwitchesTyped, ReportStopped, Stops
<1>10. CASE ServiceCrashes
  BY <1>10, Zenon DEF SwitchesTyped, ServiceCrashes, Stops
<1>11. CASE RestoreStaleFails
  BY <1>11, Zenon DEF SwitchesTyped, RestoreStaleFails
<1>12. CASE RemoveStale
  BY <1>12, Zenon DEF SwitchesTyped, RemoveStale
<1>13. CASE RestoreSnapshotFails
  BY <1>13, Zenon DEF SwitchesTyped, RestoreSnapshotFails
<1>14. CASE RemoveSnapshot
  BY <1>14, Zenon DEF SwitchesTyped, RemoveSnapshot
<1>15. CASE FindsRunning
  BY <1>15, Zenon DEF SwitchesTyped, FindsRunning, SendStop
<1>16. CASE ApiSilent
  BY <1>16, Zenon DEF SwitchesTyped, ApiSilent, StopService, SendStop
<1>17. CASE StopTun
  BY <1>17, Zenon DEF SwitchesTyped, StopTun, StopService, SendStop
<1>18. CASE Exit
  BY <1>18, Zenon DEF SwitchesTyped, Exit
<1>19. CASE AdminStops
  BY <1>19, Zenon DEF SwitchesTyped, AdminStops, SendStop
<1>20. CASE AdminDeletes
  BY <1>20, Zenon DEF SwitchesTyped, AdminDeletes
<1>21. CASE CreateService
  BY <1>21, Zenon DEF SwitchesTyped, CreateService
<1>22. CASE AdminDies
  BY <1>22, Zenon DEF SwitchesTyped, AdminDies
<1>23. CASE OrphanCheck
  BY <1>23, Zenon DEF SwitchesTyped, OrphanCheck
<1>24. CASE StrayEnds
  BY <1>24, Zenon DEF SwitchesTyped, StrayEnds
<1>25. CASE UNCHANGED vars
  BY <1>1, <1>25 DEF vars, switches
<1> QED
  BY <1>1, <1>2, <1>3, <1>4, <1>5, <1>6, <1>7, <1>8, <1>9, <1>10, <1>11, <1>12,
     <1>13, <1>14, <1>15, <1>16, <1>17, <1>18, <1>19, <1>20, <1>21, <1>22, <1>23, <1>24,
     <1>25
     DEF Next, Service, Start, Admin

(* Every step keeps the other variables typed, and pc in step with scm,    *)
(* child and iface.                                                        *)
LEMMA ValuesInductive == ValuesTyped /\ [Next]_vars => ValuesTyped'
<1> SUFFICES ASSUME ValuesTyped, [Next]_vars PROVE ValuesTyped'
  OBVIOUS
<1> USE DEF ValuesTyped, Numbers, WithCore, Servers, Snapshot,
         client, install, session, service, system, history
<1>1. CASE Refuse \/ ApiNotReady \/ ReportStopped \/ ServiceCrashes
  BY <1>1, SMTT(30) DEF Refuse, ApiNotReady, ReportStopped, ServiceCrashes, Stops,
     Fails, GoTo
<1>2. CASE Spawn \/ ApiReady \/ Report \/ LeaveLoop \/ CoreExits \/ StrayEnds
  BY <1>2, SMTT(30) DEF Spawn, ApiReady, Report, LeaveLoop, CoreExits, StrayEnds,
     OwnerIsAlive, CoreIsTrusted, GoTo, Fails
<1>3. CASE RestoreStale \/ RestoreStaleFails \/ RemoveStale \/ SaveSnapshot
           \/ NoOverride \/ Override \/ OverrideFails
  BY <1>3, SMTT(30) DEF RestoreStale, RestoreStaleFails, RemoveStale, SaveSnapshot,
     NoOverride, Override, OverrideFails, GoTo, Hijack, Fails
<1>4. CASE RestoreSnapshot \/ RestoreSnapshotFails \/ RemoveSnapshot \/ StripGateway
  BY <1>4, SMTT(30) DEF RestoreSnapshot, RestoreSnapshotFails, RemoveSnapshot,
     StripGateway, GoTo, Fails, Hijack
<1>5. CASE IsInstalled \/ Declined \/ Elevate \/ BeginFails \/ FindsStopped
           \/ FindsRunning
  BY <1>5, SMTT(30) DEF IsInstalled, Declined, Elevate, BeginFails, FindsStopped,
     FindsRunning, UpToDate, Calls, NoAdmin, CallTo, SendStop, AcceptsStop
<1>6. CASE StaleStopped \/ StaleRemains \/ Launches \/ LaunchFails \/ SeesRunning
           \/ SeesFailure \/ ApiAnswers \/ ProgramAnswers \/ ApiSilent
  BY <1>6, SMTT(30) DEF StaleStopped, StaleRemains, Launches, LaunchFails, SeesRunning,
     SeesFailure, ApiAnswers, ProgramAnswers, ApiSilent, Calls, Usable, CallTo, GoTo,
     StopService, SendStop, AcceptsStop, Fails
<1>7. CASE StartTun \/ StopTun \/ StopEnds \/ Launch \/ Exit
  BY <1>7, SMTT(30) DEF StartTun, StopTun, StopEnds, Launch, Exit, Calls, StopService,
     CallTo, SendStop, AcceptsStop
<1>8. CASE AdminStops \/ AdminDeletes \/ CopyExe \/ CopyCore
  BY <1>8, SMTT(30)
     DEF AdminStops, AdminDeletes, CopyExe, CopyCore, CoreIsLocked,
         Step,
     SendStop, AcceptsStop
<1>9. CASE CreateService \/ WriteMarker \/ WriteCoreMarker \/ InstallFails
           \/ RemoveFiles
  BY <1>9, SMTT(30) DEF CreateService, WriteMarker, WriteCoreMarker, InstallFails,
     RemoveFiles, CoreIsLocked, Step, Leave, NoAdmin
<1>10. CASE AdminDies \/ UserUninstalls \/ OrphanCheck
  BY <1>10, SMTT(30) DEF AdminDies, UserUninstalls, OrphanCheck, NoAdmin, Fails, Leave,
     CallTo
<1>11. CASE UNCHANGED vars
  BY <1>11, SMTT(30) DEF vars
<1> QED
  BY <1>1, <1>2, <1>3, <1>4, <1>5, <1>6, <1>7, <1>8, <1>9, <1>10, <1>11
     DEF Next, Service, Start, Admin

(* While the orphan task has not worked under a running service, every     *)
(* step keeps the servers known.                                           *)
LEMMA DnsInductive == ValuesTyped /\ DnsIsKnown /\ ~undercut' /\ [Next]_vars => DnsIsKnown'
<1> SUFFICES ASSUME ValuesTyped, DnsIsKnown, ~undercut', [Next]_vars PROVE DnsIsKnown'
  OBVIOUS
<1> USE DEF ValuesTyped, WithCore, Servers, Snapshot, Hijack, DnsIsKnown, SnapshotIsOwn,
         Known, Restored, DnsAtPlaces,
         client, install, session, service, system, history
<1>1. CASE Refuse \/ ApiNotReady \/ ReportStopped \/ ServiceCrashes
  BY <1>1, SMTT(30) DEF Refuse, ApiNotReady, ReportStopped, ServiceCrashes, Stops,
     Fails, GoTo
<1>2. CASE Spawn \/ ApiReady \/ Report \/ LeaveLoop \/ CoreExits \/ StrayEnds
  BY <1>2, SMTT(30) DEF Spawn, ApiReady, Report, LeaveLoop, CoreExits, StrayEnds,
     OwnerIsAlive, CoreIsTrusted, GoTo, Fails
<1>3. CASE RestoreStale \/ RestoreStaleFails \/ RemoveStale
  BY <1>3, SMTT(30) DEF RestoreStale, RestoreStaleFails, RemoveStale, GoTo
<1>4. CASE SaveSnapshot \/ NoOverride \/ Override \/ OverrideFails
  BY <1>4, SMTT(30) DEF SaveSnapshot, NoOverride, Override, OverrideFails, GoTo, Fails
<1>5. CASE RestoreSnapshot \/ RestoreSnapshotFails \/ RemoveSnapshot
  BY <1>5, SMTT(30) DEF RestoreSnapshot, RestoreSnapshotFails, RemoveSnapshot, GoTo,
     Fails
<1>6. CASE StripGateway
  BY <1>6, SMTT(30) DEF StripGateway, GoTo
<1>7. CASE IsInstalled \/ Declined \/ Elevate \/ BeginFails \/ FindsStopped
           \/ FindsRunning
  BY <1>7, SMTT(30) DEF IsInstalled, Declined, Elevate, BeginFails, FindsStopped,
     FindsRunning, UpToDate, Calls, NoAdmin, CallTo, SendStop, AcceptsStop
<1>8. CASE StaleStopped \/ StaleRemains \/ Launches \/ LaunchFails \/ SeesRunning
           \/ SeesFailure \/ ApiAnswers \/ ProgramAnswers \/ ApiSilent
  BY <1>8, SMTT(30) DEF StaleStopped, StaleRemains, Launches, LaunchFails, SeesRunning,
     SeesFailure, ApiAnswers, ProgramAnswers, ApiSilent, Calls, Usable, CallTo, GoTo,
     StopService, SendStop, AcceptsStop, Fails
<1>9. CASE StartTun \/ StopTun \/ StopEnds \/ Launch \/ Exit
  BY <1>9, SMTT(30) DEF StartTun, StopTun, StopEnds, Launch, Exit, Calls, StopService,
     CallTo, SendStop, AcceptsStop
<1>10. CASE AdminStops \/ AdminDeletes \/ CopyExe \/ CopyCore
  BY <1>10, SMTT(30)
     DEF AdminStops, AdminDeletes, CopyExe, CopyCore, CoreIsLocked,
         Step,
     SendStop, AcceptsStop
<1>11. CASE CreateService \/ WriteMarker \/ WriteCoreMarker \/ InstallFails
            \/ RemoveFiles
  BY <1>11, SMTT(30) DEF CreateService, WriteMarker, WriteCoreMarker, InstallFails,
     RemoveFiles, CoreIsLocked, Step, Leave, NoAdmin
<1>12. CASE AdminDies \/ UserUninstalls
  BY <1>12, SMTT(30) DEF AdminDies, UserUninstalls, NoAdmin, Fails, Leave, CallTo
<1>13. CASE OrphanCheck
  <2>1. snapshot = NoSnapshot \/ scm = "stopped"
    BY <1>13, Zenon DEF OrphanCheck
  <2>2. /\ dns' = IF snapshot = NoSnapshot THEN dns
                  ELSE [dns EXCEPT ![snapshot.iface] = snapshot.original]
        /\ snapshot' = NoSnapshot /\ UNCHANGED service
    BY <1>13, Zenon DEF OrphanCheck
  <2> QED
    BY <2>1, <2>2, SMTT(30)
<1>14. CASE UNCHANGED vars
  BY <1>14, SMTT(30) DEF vars
<1> QED
  BY <1>1, <1>2, <1>3, <1>4, <1>5, <1>6, <1>7, <1>8, <1>9, <1>10, <1>11, <1>12, <1>13, <1>14
     DEF Next, Service, Start, Admin

(* Every step keeps the call bound to its service, the binaries to the     *)
(* marker.                                                                 *)
LEMMA BoundInductive == ValuesTyped /\ Bound /\ [Next]_vars => Bound'
<1> SUFFICES ASSUME ValuesTyped, Bound, [Next]_vars PROVE Bound'
  OBVIOUS
<1> USE DEF ValuesTyped, Numbers, WithCore, NoAdmin, Bound, CallIsBound, InstallerFits, Usable,
         client, install, session, service, system, history
<1>1. CASE Refuse \/ ApiNotReady \/ ReportStopped \/ ServiceCrashes
  <2>1. Usable' => Usable
    BY <1>1, Zenon
       DEF Refuse, ApiNotReady, ReportStopped, ServiceCrashes, Stops, GoTo, Usable
  <2>2. /\ UNCHANGED <<app, version, call, admin, exe, core, exeMark, coreMark, broken>>
        /\ scm' = "stopped"
    BY <1>1, Zenon
       DEF Refuse, ApiNotReady, ReportStopped, ServiceCrashes, Stops, GoTo
  <2> QED
    BY <2>1, <2>2, SMTT(30)
<1>2. CASE Spawn \/ ApiReady \/ Report \/ LeaveLoop \/ CoreExits \/ StrayEnds
  BY <1>2, SMTT(30) DEF Spawn, ApiReady, Report, LeaveLoop, CoreExits, StrayEnds,
     OwnerIsAlive, CoreIsTrusted, GoTo, Fails
<1>3. CASE RestoreStale \/ RestoreStaleFails \/ RemoveStale \/ SaveSnapshot
           \/ NoOverride \/ Override \/ OverrideFails
  BY <1>3, SMTT(30) DEF RestoreStale, RestoreStaleFails, RemoveStale, SaveSnapshot,
     NoOverride, Override, OverrideFails, GoTo, Hijack, Fails
<1>4. CASE RestoreSnapshot \/ RestoreSnapshotFails \/ RemoveSnapshot \/ StripGateway
  BY <1>4, SMTT(30) DEF RestoreSnapshot, RestoreSnapshotFails, RemoveSnapshot,
     StripGateway, GoTo, Fails, Hijack
<1>5. CASE IsInstalled \/ Declined \/ Elevate \/ BeginFails \/ FindsStopped
           \/ FindsRunning
  BY <1>5, SMTT(30) DEF IsInstalled, Declined, Elevate, BeginFails, FindsStopped,
     FindsRunning, UpToDate, Calls, CallTo, SendStop, AcceptsStop
<1>6. CASE StaleStopped \/ StaleRemains \/ Launches \/ LaunchFails \/ SeesRunning
           \/ SeesFailure \/ ApiAnswers \/ ProgramAnswers \/ ApiSilent
  BY <1>6, SMTT(30) DEF StaleStopped, StaleRemains, Launches, LaunchFails, SeesRunning,
     SeesFailure, ApiAnswers, ProgramAnswers, ApiSilent, Calls, CallTo, GoTo, StopService,
     SendStop, AcceptsStop, Fails
<1>7. CASE StartTun \/ StopTun \/ StopEnds \/ Launch
  BY <1>7, SMTT(30) DEF StartTun, StopTun, StopEnds, Launch, Calls, StopService,
     CallTo, SendStop, AcceptsStop
<1>8. CASE Exit
  <2>1. broken' \/ (~broken /\ ~(call = "elevated" /\ admin.version # 0))
    BY <1>8, Zenon DEF Exit
  <2>2. /\ app' = NoApp /\ call' = "none"
        /\ UNCHANGED <<install, service>>
    BY <1>8, Zenon DEF Exit
  <2> QED
    BY <2>1, <2>2, SMTT(30) DEF Usable
<1>9. CASE AdminStops \/ AdminDeletes \/ CopyExe \/ CopyCore
  BY <1>9, SMTT(30)
     DEF AdminStops, AdminDeletes, CopyExe, CopyCore, CoreIsLocked,
         Step,
     SendStop, AcceptsStop
<1>10. CASE CreateService \/ WriteMarker \/ WriteCoreMarker \/ InstallFails
            \/ RemoveFiles
  BY <1>10, SMTT(30) DEF CreateService, WriteMarker, WriteCoreMarker, InstallFails,
     RemoveFiles, CoreIsLocked, Step, Leave
<1>11. CASE AdminDies \/ UserUninstalls \/ OrphanCheck
  BY <1>11, SMTT(30) DEF AdminDies, UserUninstalls, OrphanCheck, Fails, Leave, CallTo
<1>12. CASE UNCHANGED vars
  BY <1>12, SMTT(30) DEF vars
<1> QED
  BY <1>1, <1>2, <1>3, <1>4, <1>5, <1>6, <1>7, <1>8, <1>9, <1>10, <1>11, <1>12
     DEF Next, Service, Start, Admin

(* What the orphan task has undercut stays so. *)
LEMMA UndercutStays == undercut /\ [Next]_vars => undercut'
<1> SUFFICES ASSUME undercut, [Next]_vars PROVE undercut'
  OBVIOUS
<1> USE DEF history
<1>1. CASE Service \/ CoreExits \/ ServiceCrashes \/ StrayEnds
  BY <1>1, Zenon
     DEF Service, Refuse, Spawn, ApiReady, ApiNotReady, RestoreStale, RestoreStaleFails,
         RemoveStale, SaveSnapshot, NoOverride, Override, OverrideFails, Report,
         LeaveLoop, RestoreSnapshot, RestoreSnapshotFails, RemoveSnapshot, StripGateway,
         ReportStopped, CoreExits, ServiceCrashes, StrayEnds
<1>2. CASE StartTun \/ Start \/ StopTun \/ StopEnds \/ Launch \/ Exit
  BY <1>2, Zenon
     DEF StartTun, Start, StopTun, StopEnds, Launch, Exit, IsInstalled, Declined,
         Elevate, BeginFails, FindsStopped, FindsRunning, StaleStopped, StaleRemains,
         Launches, LaunchFails, SeesRunning, SeesFailure, ApiAnswers, ProgramAnswers, ApiSilent,
         StopService, Calls
<1>3. CASE Admin \/ AdminDies \/ UserUninstalls \/ OrphanCheck
  BY <1>3, Zenon
     DEF Admin, AdminStops, AdminDeletes, CopyExe, CopyCore, CreateService,
         WriteMarker, WriteCoreMarker, InstallFails, RemoveFiles, AdminDies,
         UserUninstalls, OrphanCheck
<1>4. CASE UNCHANGED vars
  BY <1>4 DEF vars
<1> QED
  BY <1>1, <1>2, <1>3, <1>4 DEF Next

(* Every step of the service, of SCM's clients, of the elevated processes  *)
(* and of a fault preserves it.                                            *)
THEOREM Preservation == IInv /\ [Next]_vars => IInv'
<1> SUFFICES ASSUME IInv, [Next]_vars PROVE IInv'
  OBVIOUS
<1>1. SwitchesTyped' /\ ValuesTyped' /\ Bound'
  BY SwitchesInductive, ValuesInductive, BoundInductive DEF IInv
<1>2. undercut' \/ DnsIsKnown'
  BY UndercutStays, DnsInductive DEF IInv
<1> QED
  BY <1>1, <1>2 DEF IInv

LEMMA Invariance == Spec => []IInv
  BY Initially, Preservation, PTL DEF Spec

(* Every reachable state is well typed; a stopped service has no process   *)
(* and no core, and a service past its start has both.                     *)
THEOREM TypeCorrect == Spec => []TypeOK
<1>1. IInv => TypeOK
  BY Zenon DEF IInv, TypeOK, SwitchesTyped, ValuesTyped
<1> QED
  BY Invariance, <1>1, PTL

(* Whatever crashes, fails or is launched again, the servers the user has  *)
(* chosen are in force or on disk (windows/dns.rs:416-494), unless the     *)
(* orphan task restored them under a running service.                      *)
THEOREM DnsIsNeverLost == Spec => []UserDnsIsKnown
<1>1. IInv => UserDnsIsKnown
  BY DEF IInv, DnsIsKnown, Known, UserDnsIsKnown
<1> QED
  BY Invariance, <1>1, PTL

(* A start_tun that returns Ok has a service bound to the calling process, *)
(* of the version of its bundle, unless an installer was cut short; it may *)
(* have none only when its service ended after it was seen running and     *)
(* something else listens on the port of the API, a core of a killed       *)
(* service or another program                                              *)
(* (windows/mod.rs:209-313, 327-349, windows/scm.rs:640-695).              *)
THEOREM StartsAreOwn == Spec => StartedIsOurs
<1> DEFINE Bounded == IF scm = "stopped" THEN stray \/ ProgramAnswers ELSE Ours
<1>1. IInv /\ [Next]_vars => [StartReturns => Bounded]_vars
  <2> SUFFICES ASSUME IInv, [Next]_vars, StartReturns PROVE Bounded
    OBVIOUS
  <2>1. call = "api" /\ call' = "none" /\ app' = app
    BY DEF StartReturns
  <2>2. child = "running" \/ stray \/ ProgramAnswers
    <3>1. CASE Service \/ CoreExits \/ ServiceCrashes \/ StrayEnds
      BY <2>1, <3>1
         DEF Service, Refuse, Spawn, ApiReady, ApiNotReady, RestoreStale,
             RestoreStaleFails, RemoveStale, SaveSnapshot, NoOverride, Override,
             OverrideFails, Report, LeaveLoop, RestoreSnapshot, RestoreSnapshotFails,
             RemoveSnapshot, StripGateway, ReportStopped, CoreExits, ServiceCrashes,
             StrayEnds, client
    <3>2. CASE StartTun \/ Start \/ StopTun \/ StopEnds \/ Launch
      BY <2>1, <3>2
         DEF StartTun, Start, StopTun, StopEnds, Launch, IsInstalled, Declined, Elevate,
             BeginFails, FindsStopped, FindsRunning, StaleStopped, StaleRemains,
             Launches, LaunchFails, SeesRunning, SeesFailure, ApiAnswers, ApiSilent,
             StopService, Calls, CallTo
    <3>3. CASE Exit
      BY <2>1, <3>3, Zenon DEF Exit
    <3>4. CASE Admin \/ AdminDies \/ UserUninstalls \/ OrphanCheck
      BY <2>1, <3>4
         DEF Admin, AdminStops, AdminDeletes, CopyExe, CopyCore,
             CreateService, WriteMarker, WriteCoreMarker, InstallFails, RemoveFiles,
             AdminDies, UserUninstalls, OrphanCheck, Leave, CallTo, client
    <3>5. CASE UNCHANGED vars
      BY <2>1, <3>5 DEF vars
    <3> QED
      BY <3>1, <3>2, <3>3, <3>4, <3>5 DEF Next
  <2>3. child = "running" => scm # "stopped"
    BY DEF IInv, ValuesTyped, WithCore
  <2>4. scm # "stopped" => Ours
    BY <2>1 DEF IInv, Bound, CallIsBound, Ours
  <2> QED
    BY <2>2, <2>3, <2>4
<1>2. IInv /\ [Next]_vars => IInv'
  BY Preservation
<1> QED
  BY Invariance, <1>1, PTL DEF Spec, StartedIsOurs
=============================================================================
