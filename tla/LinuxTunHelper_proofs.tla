----------------------- MODULE LinuxTunHelper_proofs ------------------------
(***************************************************************************)
(* The invariants of LinuxTunHelper for any number of launches, cores,     *)
(* waiting connections and faults.  A session moves from the hand of the   *)
(* thread that builds it to the slot and from there to the hand of the     *)
(* thread that tears it down; what is proved is that no step drops it on   *)
(* the way while its core runs or its DNS override is in force, and that   *)
(* a stop that returned Ok left nothing of the tunnel behind.              *)
(***************************************************************************)
EXTENDS LinuxTunHelper, SequenceTheorems, TLAPS

USE ValuesAssumption, BoundsAssumption
USE DEF ValuesAssumption, BoundsAssumption

Places == {"idle", "evict", "take", "kill", "restore", "sweep",
           "purge", "spawn", "ready", "dns", "store", "answer"}

(* The type invariant in two halves: Boolean variables and the others. *)
SwitchesTyped ==
    /\ installed \in BOOLEAN
    /\ up \in BOOLEAN
    /\ locked \in BOOLEAN
    /\ lost \in BOOLEAN
    /\ unrestored \in BOOLEAN
switches == <<installed, up, locked, lost, unrestored>>

ValuesTyped ==
    /\ app \in Apps \cup {NoApp} /\ launched \subseteq Apps
    /\ call \in {"none", "status", "start", "stop", "uninstall"}
    /\ tun \in {"off", "on", "unknown"}
    /\ queue \in Seq(Request) /\ request \in Request \cup {NoRequest}
    /\ pc \in [Threads -> Places]
    /\ hand \in [Threads -> Session \cup {NoSession}]
    /\ slot \in Session \cup {NoSession}
    /\ core \in [Cores -> {"unborn", "running", "signalled", "dead"}]
    /\ dns \in Servers
    /\ orphans \subseteq Cores /\ faults \in Nat
    /\ \A t \in Threads : hand[t] # NoSession <=> pc[t] \in Holding
    /\ request # NoRequest <=> pc["server"] # "idle"

(* The places of the main thread from which it goes on to store a session, *)
(* or to answer that there is none.                                        *)
Building == {"kill", "restore", "sweep", "purge", "spawn", "ready", "dns", "store"}

(* A session is forgotten, or replaced in the slot, only when its core has *)
(* been reaped.                                                            *)
CoresAtPlaces ==
    /\ \A t \in Threads : pc[t] = "restore" => core[hand[t].core] = "dead"
    /\ pc["server"] \in Building => slot = NoSession

CoresAreHeld == NoStrayCore /\ CoresAtPlaces

(* What the application waits for is the last request, and the only one    *)
(* that is still open.                                                      *)
Asks(q, kind) ==
    \A i \in 1 .. Len(q) : q[i].open => i = Len(q) /\ q[i].kind = kind
Silent(q)  == \A i \in 1 .. Len(q) : ~q[i].open
NoStart(q) == \A i \in 1 .. Len(q) : q[i].kind # "start"

CallIsLast ==
    /\ app = NoApp => call = "none"
    /\ request # NoRequest /\ request.open => queue = <<>> /\ request.kind = call
    /\ Asks(queue, call)

(* Where the main thread is tells which request it serves, and a stop is    *)
(* answered over an empty slot.                                             *)
Starting == {"evict", "spawn", "ready", "dns", "store"}
ServerFits ==
    /\ pc["server"] \in Starting => request.kind = "start"
    /\ pc["server"] = "take" => request.kind = "stop"
    /\ pc["server"] = "answer" /\ request.kind = "stop" => slot = NoSession

(* A tunnel that is off has no session and no start on its way.             *)
OffMeansNone ==
    tun = "off" => /\ slot = NoSession /\ hand["server"] = NoSession
                   /\ request # NoRequest => request.kind # "start"
                   /\ NoStart(queue)

IInv ==
    /\ SwitchesTyped
    /\ ValuesTyped
    /\ CoresAreHeld
    /\ OverrideHasAKeeper
    /\ CallIsLast
    /\ ServerFits
    /\ OffMeansNone

-----------------------------------------------------------------------------
(* The initial states satisfy the inductive invariant. *)
LEMMA Initially == Init => IInv
<1> SUFFICES ASSUME Init PROVE IInv
  OBVIOUS
<1>1. SwitchesTyped
  BY Zenon DEF Init, SwitchesTyped
<1>2. ValuesTyped
  BY DEF Init, ValuesTyped, Places, Holding, Servers, Threads
<1>3. CoresAreHeld /\ OverrideHasAKeeper
  BY DEF Init, CoresAreHeld, NoStrayCore, CoresAtPlaces, OverrideHasAKeeper, Building,
     Running, Threads
<1>4. CallIsLast /\ ServerFits /\ OffMeansNone
  BY DEF Init, CallIsLast, Asks, ServerFits, Starting, OffMeansNone, NoStart, Threads
<1> QED
  BY <1>1, <1>2, <1>3, <1>4 DEF IInv

(* The requests taken from the queue, and those put into it. *)
LEMMA QueueTyped ==
  \A q \in Seq(Request) :
    /\ q # <<>> => Head(q) \in Request /\ Tail(q) \in Seq(Request)
    /\ \A r \in Request : Append(q, r) \in Seq(Request)
  OBVIOUS

(* The requests the clients write. *)
LEMMA RequestTyped ==
  /\ \A r \in Request : /\ r.kind \in {"status", "start", "stop"}
                         /\ r.caller \in Apps /\ r.original \in Servers \cup {"none"}
                         /\ [r EXCEPT !.kind = "stop"] \in Request
  /\ \A kind \in {"status", "start", "stop"}, original \in Servers \cup {"none"} :
        app \in Apps =>
          [kind |-> kind, caller |-> app, original |-> original, open |-> TRUE] \in Request
  BY DEF Request

(* A client that hangs up closes its requests and drops none. *)
LEMMA ClosedTyped ==
  /\ \A r \in Request : Closed(r) \in Request
  /\ \A q \in Seq(Request) : [i \in DOMAIN q |-> Closed(q[i])] \in Seq(Request)
<1>1. \A r \in Request : Closed(r) \in Request
  BY DEF Closed, Request
<1>2. ASSUME NEW q \in Seq(Request)
      PROVE  [i \in DOMAIN q |-> Closed(q[i])] \in Seq(Request)
  <2>1. Len(q) \in Nat /\ DOMAIN q = 1 .. Len(q) /\ \A i \in 1 .. Len(q) : q[i] \in Request
    OBVIOUS
  <2>2. [i \in DOMAIN q |-> Closed(q[i])] \in [1 .. Len(q) -> Request]
    BY <1>1, <2>1
  <2> QED
    BY <2>1, <2>2, SeqDef
<1> QED
  BY <1>1, <1>2

(* restore_dns leaves an override only when it does not know better or has  *)
(* failed.                                                                  *)
LEMMA RestoreDnsKept ==
  ASSUME NEW original, RestoreDns(original)
  PROVE  dns' = "tunnel" => lost' \/ unrestored'
  BY Zenon DEF RestoreDns

(* NoSession is no session. *)
LEMMA HandTyped == \A s \in Session : s # NoSession
  BY DEF Session


(* Every step keeps the Boolean variables Boolean. *)
LEMMA SwitchesInductive == SwitchesTyped /\ [Next]_vars => SwitchesTyped'
<1> SUFFICES ASSUME SwitchesTyped, [Next]_vars PROVE SwitchesTyped'
  OBVIOUS
<1> USE DEF client, helper, system, history
<1>1. CASE UNCHANGED switches
  BY <1>1, Zenon DEF SwitchesTyped, switches
<1>2. CASE Accept \/ AnswerStatus \/ Answer \/ RefuseStart \/ SpawnFails \/ Spawn
           \/ ApiReady \/ ApiNotReady \/ Store
  BY <1>1, <1>2 DEF switches, Accept, AnswerStatus, Answer, RefuseStart, SpawnFails,
     Spawn, ApiReady, ApiNotReady, Store, Fail
<1>3. CASE Notice \/ Launch \/ StartTun \/ StopTun \/ TimeOut \/ StatusTimesOut
           \/ Exit \/ BeginUninstall
  BY <1>1, <1>3 DEF switches, Notice, Launch, StartTun, StopTun, TimeOut,
     StatusTimesOut, Exit, BeginUninstall, UninstallPurges
<1>4. ASSUME NEW t \in Threads, Kill(t) \/ Purge(t) \/ Take(t)
      PROVE SwitchesTyped'
  BY <1>1, <1>4 DEF switches, Kill, Purge, Take
<1>5. ASSUME NEW c \in Cores, CoreCrashes(c) \/ CoreTerminates(c)
      PROVE SwitchesTyped'
  BY <1>1, <1>5 DEF switches, CoreCrashes, CoreTerminates
<1>6. CASE Evict
  BY <1>6, Zenon DEF SwitchesTyped, Evict, CallerIsAlive
<1>7. CASE ApplyDns
  BY <1>7, Zenon DEF SwitchesTyped, ApplyDns, Overridden
<1>8. CASE ApplyDnsFails
  BY <1>8, Zenon DEF SwitchesTyped, ApplyDnsFails, RestoreDns
<1>9. CASE HelperCrashes
  BY <1>9, Zenon DEF SwitchesTyped, HelperCrashes, HelperEnds, Threads, Running
<1>10. CASE HelperStarts
  BY <1>10, Zenon DEF SwitchesTyped, HelperStarts
<1>11. CASE OrphanCheck
  BY <1>11, Zenon DEF SwitchesTyped, OrphanCheck, UninstallDisables, UninstallPurges,
     HelperEnds, Threads, Running
<1>12. CASE EndUninstall
  BY <1>12, Zenon DEF SwitchesTyped, EndUninstall, UninstallDisables, HelperEnds,
     Threads, Running
<1>13. CASE InstallUnits
  BY <1>13, Zenon DEF SwitchesTyped, InstallUnits
<1>14. ASSUME NEW t \in Threads, Sweep(t) PROVE SwitchesTyped'
  BY <1>14, Zenon DEF SwitchesTyped, Sweep
<1>15. ASSUME NEW t \in Threads, Restore(t) PROVE SwitchesTyped'
  BY <1>15, Zenon DEF SwitchesTyped, Restore, RestoreDns
<1>16. CASE UNCHANGED vars
  BY <1>1, <1>16 DEF vars, switches
<1> QED
  BY <1>1, <1>2, <1>3, <1>4, <1>5, <1>6, <1>7, <1>8, <1>9, <1>10, <1>11, <1>12,
     <1>13, <1>14, <1>15, <1>16
     DEF Next, Server, Watchdog, Application, Environment, Threads

(* Every step keeps the other variables typed, and each thread's session in *)
(* step with the place it is at.                                            *)
LEMMA ValuesInductive == ValuesTyped /\ [Next]_vars => ValuesTyped'
<1> SUFFICES ASSUME ValuesTyped, [Next]_vars PROVE ValuesTyped'
  OBVIOUS
<1> USE DEF ValuesTyped, Places, Servers, Session, Threads, Holding, client, helper,
         system, history
<1>1. CASE Accept
  <2>1. queue # <<>> /\ request' = Head(queue) /\ queue' = Tail(queue)
    BY <1>1 DEF Accept
  <2>2. request' \in Request /\ queue' \in Seq(Request)
    BY <2>1, QueueTyped
  <2>3. Head(queue).kind \in {"status", "start", "stop"}
    BY <2>1, QueueTyped, RequestTyped
  <2>4. PICK place \in {"answer", "evict", "take"} : pc' = [pc EXCEPT !["server"] = place]
    BY <1>1, <2>3 DEF Accept, GoTo
  <2> QED
    BY <1>1, <2>2, <2>4, SMTT(20) DEF Accept, At
<1>2. CASE AnswerStatus
  <2>1. [request EXCEPT !.kind = "stop"] \in Request
    BY <1>2, RequestTyped DEF AnswerStatus, At
  <2>2. PICK r \in Request : queue' = queue \/ queue' = Append(queue, r)
    BY <1>2, <2>1, Zenon DEF AnswerStatus
  <2>3. queue' \in Seq(Request)
    BY <2>2, QueueTyped
  <2> QED
    BY <1>2, <2>3, SMTT(20) DEF AnswerStatus, At, GoTo
<1>3. CASE Answer \/ RefuseStart \/ Evict \/ SpawnFails
  BY <1>3, SMTT(20) DEF Answer, RefuseStart, Evict, SpawnFails, At, Heard, GoTo, Fail,
     CallerIsAlive
<1>4. CASE Spawn
  <2>1. pc["server"] = "spawn" /\ pc' = [pc EXCEPT !["server"] = "ready"]
    BY <1>4 DEF Spawn, At, GoTo
  <2>2. PICK c \in Cores :
          /\ core' = [core EXCEPT ![c] = "running"]
          /\ hand' = [hand EXCEPT !["server"] =
                        [core |-> c, caller |-> request.caller,
                         original |-> request.original]]
    BY <1>4 DEF Spawn
  <2>3. PICK s \in Session : hand' = [hand EXCEPT !["server"] = s]
    BY <2>1, <2>2, RequestTyped
  <2> QED
    BY <1>4, <2>1, <2>2, <2>3, HandTyped, SMTT(20) DEF Spawn
<1>5. CASE ApiReady \/ ApiNotReady \/ ApplyDns \/ Store
  BY <1>5, SMTT(20) DEF ApiReady, ApiNotReady, ApplyDns, Store, At, GoTo, Fail,
     Overridden, Heard
<1>6. CASE ApplyDnsFails
  BY <1>6, SMTT(20) DEF ApplyDnsFails, At, RestoreDns, Fail, Heard, GoTo
<1>7. CASE Notice \/ HelperStarts \/ InstallUnits \/ Launch \/ BeginUninstall
  BY <1>7, SMTT(20) DEF Notice, HelperStarts, InstallUnits, Launch, BeginUninstall, At,
     SessionIsDead, GoTo, UninstallPurges, CallerIsAlive, Signalled, Running
<1>8. CASE HelperCrashes
  <2>1. /\ UNCHANGED <<app, launched, dns>> /\ faults' \in Nat
        /\ request' = NoRequest /\ slot' = NoSession
        /\ pc' = [t \in Threads |-> "idle"]
        /\ hand' = [t \in Threads |-> NoSession]
    BY <1>8 DEF HelperCrashes, HelperEnds, Running
  <2>2. core' \in [Cores -> {"unborn", "running", "signalled", "dead"}]
    BY <1>8 DEF HelperCrashes, HelperEnds, Running
  <2>3. orphans' \subseteq Cores
    BY <1>8 DEF HelperCrashes, HelperEnds, Running
  <2>4. UNCHANGED tun /\ call' \in {"none", "status", "start", "stop", "uninstall"}
    BY <1>8 DEF HelperCrashes
  <2>5. queue' = queue \/ \E r \in Request : queue' = Append(queue, r)
    BY <1>8, RequestTyped, Zenon DEF HelperCrashes, ValuesTyped
  <2>6. queue' \in Seq(Request)
    BY <2>5, QueueTyped
  <2> QED
    BY <2>1, <2>2, <2>3, <2>4, <2>6, SMTT(20)
<1>9. ASSUME UninstallDisables PROVE ValuesTyped'
  <2>1. /\ UNCHANGED <<app, launched, dns>> /\ faults' \in Nat
        /\ request' = NoRequest /\ slot' = NoSession
        /\ pc' = [t \in Threads |-> "idle"]
        /\ hand' = [t \in Threads |-> NoSession]
    BY <1>9 DEF UninstallDisables, HelperEnds, Running
  <2>2. core' \in [Cores -> {"unborn", "running", "signalled", "dead"}]
    BY <1>9 DEF UninstallDisables, HelperEnds, Running
  <2>3. orphans' \subseteq Cores
    BY <1>9 DEF UninstallDisables, HelperEnds, Running
  <2>4. queue' = <<>> /\ call' = "none" /\ tun' = "off"
    BY <1>9 DEF UninstallDisables
  <2> QED
    BY <2>1, <2>2, <2>3, <2>4, SMTT(20)
<1>10. CASE OrphanCheck \/ EndUninstall
  <2>1. CASE UninstallPurges /\ UNCHANGED call
    BY <2>1, SMTT(20) DEF UninstallPurges, Signalled, Running
  <2> QED
    BY <1>10, <1>9, <2>1 DEF OrphanCheck, EndUninstall
<1>11. CASE StartTun \/ StopTun
  <2>1. app \in Apps /\ dns \in Servers \cup {"none"}
    BY <1>11 DEF StartTun, StopTun
  <2>2. PICK r \in Request : queue' = Append(queue, r)
    BY <1>11, <2>1, RequestTyped DEF StartTun, StopTun, Captured, Post
  <2>3. queue' \in Seq(Request)
    BY <2>2, QueueTyped
  <2> QED
    BY <1>11, <2>3, SMTT(20) DEF StartTun, StopTun
<1>12. CASE TimeOut \/ Exit
  <2>1. HangUp
    BY <1>12 DEF TimeOut, Exit
  <2>2. queue' \in Seq(Request)
    BY <2>1, ClosedTyped, Zenon DEF HangUp, ValuesTyped
  <2>3. request' \in Request \cup {NoRequest} /\ (request' = NoRequest <=> request = NoRequest)
    BY <2>1, ClosedTyped, Zenon DEF HangUp, ValuesTyped
  <2> QED
    BY <1>12, <2>2, <2>3, SMTT(20) DEF TimeOut, Exit
<1>13. CASE StatusTimesOut
  <2>1. request' \in Request \cup {NoRequest} /\ (request' = NoRequest <=> request = NoRequest)
    BY <1>13, ClosedTyped, Zenon DEF StatusTimesOut, ValuesTyped
  <2>2. app \in Apps
    BY <1>13 DEF StatusTimesOut
  <2>3. PICK q \in Seq(Request), r \in Request : queue' = Append(q, r)
    BY <1>13, <2>2, ClosedTyped, RequestTyped DEF StatusTimesOut
  <2>4. queue' \in Seq(Request)
    BY <2>3, QueueTyped
  <2> QED
    BY <1>13, <2>1, <2>4, SMTT(20) DEF StatusTimesOut
<1>14. ASSUME NEW t \in Threads, Take(t) \/ Kill(t) \/ Restore(t)
      PROVE ValuesTyped'
  BY <1>14, SMTT(20) DEF Take, Kill, Restore, At, GoTo, RestoreDns
<1>15. ASSUME NEW t \in Threads, Sweep(t) \/ Purge(t)
      PROVE ValuesTyped'
  BY <1>15, SMTT(20) DEF Sweep, Purge, At, Signalled, GoTo, AfterSweep, AfterPurge,
     Running
<1>16. ASSUME NEW c \in Cores, CoreCrashes(c) \/ CoreTerminates(c)
      PROVE ValuesTyped'
  BY <1>16, SMTT(20) DEF CoreCrashes, CoreTerminates, Running
<1>17. CASE UNCHANGED vars
  BY <1>17, SMTT(20) DEF vars
<1> QED
  BY <1>1, <1>2, <1>3, <1>4, <1>5, <1>6, <1>7, <1>8, <1>9, <1>10, <1>11, <1>12,
     <1>13, <1>14, <1>15, <1>16, <1>17
     DEF Next, Server, Watchdog, Application, Environment, Threads

(* Every step keeps the running cores held.                                 *)
LEMMA CoresInductive == ValuesTyped /\ ValuesTyped' /\ CoresAreHeld /\ [Next]_vars => CoresAreHeld'
<1> SUFFICES ASSUME ValuesTyped, ValuesTyped', CoresAreHeld, [Next]_vars PROVE CoresAreHeld'
  OBVIOUS
<1> USE DEF ValuesTyped, Places, Session, Threads, Holding, CoresAreHeld,
         NoStrayCore, CoresAtPlaces, Held, Building, Running, client, helper, system,
         history
<1>1. CASE Accept
  <2>1. Head(queue).kind \in {"status", "start", "stop"}
    BY <1>1, QueueTyped, RequestTyped DEF Accept
  <2>2. PICK place \in {"answer", "evict", "take"} : pc' = [pc EXCEPT !["server"] = place]
    BY <1>1, <2>1 DEF Accept, GoTo
  <2> QED
    BY <1>1, <2>2, SMTT(20) DEF Accept
<1>2. CASE AnswerStatus \/ Answer \/ RefuseStart \/ SpawnFails
  BY <1>2, SMTT(20) DEF AnswerStatus, Answer, RefuseStart, SpawnFails, At, GoTo, Heard,
     Fail
<1>3. CASE Evict
  BY <1>3, SMTT(20) DEF Evict, At, CallerIsAlive, GoTo
<1>4. CASE Spawn
  <2>1. PICK c \in Cores :
          /\ core[c] = "unborn" /\ core' = [core EXCEPT ![c] = "running"]
          /\ hand' = [hand EXCEPT !["server"] =
                        [core |-> c, caller |-> request.caller,
                         original |-> request.original]]
    BY <1>4 DEF Spawn
  <2>2. pc["server"] = "spawn" /\ pc' = [pc EXCEPT !["server"] = "ready"]
        /\ UNCHANGED <<slot, orphans>>
    BY <1>4 DEF Spawn, At, GoTo
  <2>3. hand["server"] = NoSession /\ hand'["server"] # NoSession
        /\ hand'["server"].core = c
    BY <2>1, <2>2
  <2>4. hand'["watchdog"] = hand["watchdog"] /\ pc'["watchdog"] = pc["watchdog"]
    BY <2>1, <2>2
  <2>5. NoStrayCore'
    BY <2>1, <2>2, <2>3, <2>4, SMTT(20)
  <2>6. CoresAtPlaces'
    BY <2>1, <2>2, <2>3, <2>4, SMTT(20)
  <2> QED
    BY <2>5, <2>6
<1>5. CASE ApiReady \/ ApiNotReady \/ ApplyDns \/ ApplyDnsFails \/ Store
  BY <1>5, SMTT(20) DEF ApiReady, ApiNotReady, ApplyDns, ApplyDnsFails, Store, At,
     GoTo, Fail, Overridden, RestoreDns, Heard
<1>6. CASE Notice \/ HelperStarts \/ InstallUnits \/ Launch \/ BeginUninstall
  BY <1>6, SMTT(20) DEF Notice, HelperStarts, InstallUnits, Launch, BeginUninstall, At,
     SessionIsDead, GoTo, UninstallPurges, CallerIsAlive, Signalled
<1>7. CASE HelperCrashes
  BY <1>7, SMTT(20) DEF HelperCrashes, HelperEnds
<1>8. CASE OrphanCheck \/ EndUninstall
  BY <1>8, SMTT(20) DEF OrphanCheck, EndUninstall, UninstallDisables, UninstallPurges,
     HelperEnds, Signalled
<1>9. CASE StartTun \/ StopTun \/ TimeOut \/ StatusTimesOut \/ Exit
  BY <1>9, SMTT(20) DEF StartTun, StopTun, TimeOut, StatusTimesOut, Exit, Captured,
     Post, HangUp, Closed
<1>10. ASSUME NEW t \in Threads, Take(t) PROVE CoresAreHeld'
  BY <1>10, SMTT(20) DEF Take, At, GoTo
<1>11. ASSUME NEW t \in Threads, Kill(t) \/ Restore(t)
      PROVE CoresAreHeld'
  BY <1>11, SMTT(20) DEF Kill, Restore, At, GoTo, RestoreDns
<1>12. ASSUME NEW t \in Threads, Sweep(t) \/ Purge(t)
      PROVE CoresAreHeld'
  BY <1>12, SMTT(20) DEF Sweep, Purge, At, Signalled, GoTo, AfterSweep, AfterPurge
<1>13. ASSUME NEW c \in Cores, CoreCrashes(c) \/ CoreTerminates(c)
      PROVE CoresAreHeld'
  BY <1>13, SMTT(20) DEF CoreCrashes, CoreTerminates
<1>14. CASE UNCHANGED vars
  BY <1>14, SMTT(20) DEF vars
<1> QED
  BY <1>1, <1>2, <1>3, <1>4, <1>5, <1>6, <1>7, <1>8, <1>9, <1>10, <1>11, <1>12,
     <1>13, <1>14
     DEF Next, Server, Watchdog, Application, Environment, Threads

(* Every step leaves an override to somebody who restores it.               *)
LEMMA KeeperInductive == ValuesTyped /\ ValuesTyped' /\ OverrideHasAKeeper /\ [Next]_vars => OverrideHasAKeeper'
<1> SUFFICES ASSUME ValuesTyped, ValuesTyped', OverrideHasAKeeper, [Next]_vars PROVE OverrideHasAKeeper'
  OBVIOUS
<1> USE DEF ValuesTyped, Places, Session, Servers, Threads, Holding,
         OverrideHasAKeeper, Restores, client, helper, system, history
<1>1. CASE Accept \/ AnswerStatus \/ Answer \/ RefuseStart \/ SpawnFails
  BY <1>1, SMTT(20) DEF Accept, AnswerStatus, Answer, RefuseStart, SpawnFails, At,
     GoTo, Heard, Fail
<1>2. CASE Evict
  BY <1>2, SMTT(20) DEF Evict, At, CallerIsAlive, GoTo
<1>3. CASE Spawn \/ ApiReady \/ ApiNotReady
  BY <1>3, SMTT(20) DEF Spawn, ApiReady, ApiNotReady, At, GoTo, Fail, Heard
<1>4. CASE ApplyDns \/ Store
  BY <1>4, SMTT(20) DEF ApplyDns, Store, At, Overridden, GoTo
<1>5. CASE ApplyDnsFails
  BY <1>5, RestoreDnsKept, Zenon DEF ApplyDnsFails
<1>6. CASE Notice \/ HelperStarts \/ InstallUnits \/ Launch \/ BeginUninstall
  BY <1>6, SMTT(20) DEF Notice, HelperStarts, InstallUnits, Launch, BeginUninstall, At,
     SessionIsDead, GoTo, UninstallPurges, CallerIsAlive, Signalled, Running
<1>7. ASSUME HelperEnds PROVE OverrideHasAKeeper'
  BY <1>7, Zenon DEF HelperEnds
<1>8. CASE HelperCrashes \/ OrphanCheck \/ EndUninstall
  <2>1. CASE UninstallPurges
    BY <2>1, SMTT(20) DEF UninstallPurges
  <2> QED
    BY <1>8, <1>7, <2>1 DEF HelperCrashes, OrphanCheck, EndUninstall, UninstallDisables
<1>9. CASE StartTun \/ StopTun \/ TimeOut \/ StatusTimesOut \/ Exit
  BY <1>9, SMTT(20) DEF StartTun, StopTun, TimeOut, StatusTimesOut, Exit, Captured,
     Post, HangUp, Closed
<1>10. ASSUME NEW t \in Threads, Take(t) \/ Kill(t)
      PROVE OverrideHasAKeeper'
  BY <1>10, SMTT(20) DEF Take, Kill, At, GoTo
<1>11. ASSUME NEW t \in Threads, Restore(t) PROVE OverrideHasAKeeper'
  BY <1>11, RestoreDnsKept, Zenon DEF Restore
<1>12. ASSUME NEW t \in Threads, Sweep(t) \/ Purge(t)
      PROVE OverrideHasAKeeper'
  BY <1>12, SMTT(20) DEF Sweep, Purge, At, Signalled, GoTo, AfterSweep, AfterPurge,
     Running
<1>13. ASSUME NEW c \in Cores, CoreCrashes(c) \/ CoreTerminates(c)
      PROVE OverrideHasAKeeper'
  BY <1>13, SMTT(20) DEF CoreCrashes, CoreTerminates, Running
<1>14. CASE UNCHANGED vars
  BY <1>14, SMTT(20) DEF vars
<1> QED
  BY <1>1, <1>2, <1>3, <1>4, <1>5, <1>6, <1>7, <1>8, <1>9, <1>10, <1>11, <1>12,
     <1>13, <1>14
     DEF Next, Server, Watchdog, Application, Environment, Threads

(* What becomes of the open request when the queue moves. *)
LEMMA QueueParts ==
  ASSUME NEW q \in Seq(Request), NEW r \in Request
  PROVE  /\ q # <<>> => /\ Head(q) = q[1] /\ Len(q) \in Nat \ {0}
                        /\ Len(Tail(q)) = Len(q) - 1
                        /\ \A i \in 1 .. Len(Tail(q)) : Tail(q)[i] = q[i + 1]
         /\ Len(Append(q, r)) = Len(q) + 1
         /\ \A i \in 1 .. Len(q) + 1 :
               Append(q, r)[i] = IF i = Len(q) + 1 THEN r ELSE q[i]
         /\ Len(q) \in Nat
  OBVIOUS

(* The last request of the queue is the head of a queue of one. *)
LEMMA QueueEnd ==
  ASSUME NEW q \in Seq(Request), q # <<>>
  PROVE  /\ \A i \in Nat : i + 1 = Len(q) => i = Len(Tail(q))
         /\ 1 = Len(q) => Tail(q) = <<>>
<1>1. \A i \in Nat : i + 1 = Len(q) => i = Len(Tail(q))
  OBVIOUS
<1>2. 1 = Len(q) => Tail(q) = <<>>
  <2> SUFFICES ASSUME 1 = Len(q) PROVE Tail(q) = <<>>
    OBVIOUS
  <2>1. Len(Tail(q)) = 0 /\ Tail(q) \in Seq(Request)
    OBVIOUS
  <2> QED
    BY <2>1, EmptySeq
<1> QED
  BY <1>1, <1>2

(* Taking the head of the queue leaves its last request last; an open head *)
(* was the whole queue.                                                     *)
LEMMA AsksTail ==
  ASSUME NEW q \in Seq(Request), q # <<>>, NEW kind, Asks(q, kind)
  PROVE  /\ Asks(Tail(q), kind)
         /\ Head(q).open => Tail(q) = <<>> /\ Head(q).kind = kind
<1>1. q[1] \in Request
  BY QueueTyped
<1>2. /\ Head(q) = q[1] /\ Len(q) \in Nat \ {0} /\ Len(Tail(q)) = Len(q) - 1
      /\ \A i \in 1 .. Len(Tail(q)) : Tail(q)[i] = q[i + 1]
  BY <1>1, QueueParts
<1>3. /\ \A i \in Nat : i + 1 = Len(q) => i = Len(Tail(q))
      /\ 1 = Len(q) => Tail(q) = <<>>
  BY QueueEnd
<1>4. Asks(Tail(q), kind)
  <2> SUFFICES ASSUME NEW i \in 1 .. Len(Tail(q)), Tail(q)[i].open
               PROVE  i = Len(Tail(q)) /\ Tail(q)[i].kind = kind
    BY DEF Asks
  <2>1. i \in Nat /\ i + 1 \in 1 .. Len(q) /\ Tail(q)[i] = q[i + 1]
    BY <1>2
  <2>2. i + 1 = Len(q) /\ q[i + 1].kind = kind
    BY <2>1, Zenon DEF Asks
  <2>3. i = Len(Tail(q))
    BY <1>3, <2>1, <2>2, Zenon
  <2> QED
    BY <2>1, <2>2, <2>3, Zenon
<1>5. ASSUME Head(q).open PROVE Tail(q) = <<>> /\ Head(q).kind = kind
  <2>1. 1 \in 1 .. Len(q)
    BY <1>2
  <2>2. 1 = Len(q) /\ q[1].kind = kind
    BY <1>2, <1>5, <2>1, Zenon DEF Asks
  <2> QED
    BY <1>2, <1>3, <2>2, Zenon
<1> QED
  BY <1>4, <1>5

(* A request put behind closed ones is the only open one. *)
LEMMA AsksAppend ==
  ASSUME NEW q \in Seq(Request), NEW r \in Request, Silent(q)
  PROVE  Asks(Append(q, r), r.kind)
<1>1. /\ Len(Append(q, r)) = Len(q) + 1 /\ Len(q) \in Nat
      /\ \A i \in 1 .. Len(q) + 1 :
            Append(q, r)[i] = IF i = Len(q) + 1 THEN r ELSE q[i]
  BY QueueParts
<1> QED
  BY <1>1 DEF Asks, Silent

(* A queue without a start has none after a request leaves or another comes. *)
LEMMA NoStartParts ==
  ASSUME NEW q \in Seq(Request), NEW r \in Request, NoStart(q)
  PROVE  /\ q # <<>> => NoStart(Tail(q)) /\ Head(q).kind # "start"
         /\ r.kind # "start" => NoStart(Append(q, r))
<1>1. ASSUME q # <<>> PROVE NoStart(Tail(q)) /\ Head(q).kind # "start"
  <2>1. /\ Head(q) = q[1] /\ Len(q) \in Nat \ {0} /\ Len(Tail(q)) = Len(q) - 1
        /\ \A i \in 1 .. Len(Tail(q)) : Tail(q)[i] = q[i + 1]
    BY <1>1, QueueParts
  <2> QED
    BY <2>1 DEF NoStart
<1>2. ASSUME r.kind # "start" PROVE NoStart(Append(q, r))
  <2>1. /\ Len(Append(q, r)) = Len(q) + 1 /\ Len(q) \in Nat
        /\ \A i \in 1 .. Len(q) + 1 :
              Append(q, r)[i] = IF i = Len(q) + 1 THEN r ELSE q[i]
    BY QueueParts
  <2> QED
    BY <1>2, <2>1 DEF NoStart
<1> QED
  BY <1>1, <1>2

(* Requests that are closed ask for nothing, and stay what they were.       *)
LEMMA ClosedParts ==
  /\ \A r \in Request : ~Closed(r).open /\ Closed(r).kind = r.kind
  /\ \A q \in Seq(Request) :
        LET closed == [i \in DOMAIN q |-> Closed(q[i])]
        IN  Silent(closed) /\ (NoStart(q) => NoStart(closed))
<1>1. \A r \in Request : ~Closed(r).open /\ Closed(r).kind = r.kind
  BY DEF Closed, Request
<1>2. ASSUME NEW q \in Seq(Request)
      PROVE  LET closed == [i \in DOMAIN q |-> Closed(q[i])]
             IN  Silent(closed) /\ (NoStart(q) => NoStart(closed))
  <2> DEFINE closed == [i \in DOMAIN q |-> Closed(q[i])]
  <2>1. Len(q) \in Nat /\ DOMAIN q = 1 .. Len(q) /\ \A i \in 1 .. Len(q) : q[i] \in Request
    OBVIOUS
  <2>2. closed \in Seq(Request)
    BY ClosedTyped
  <2>3. DOMAIN closed = 1 .. Len(q) /\ \A i \in 1 .. Len(q) : closed[i] = Closed(q[i])
    BY <2>1
  <2>4. Len(closed) = Len(q)
    BY <2>1, <2>2, <2>3
  <2> HIDE DEF closed
  <2> QED
    BY <1>1, <2>1, <2>3, <2>4 DEF Silent, NoStart
<1> QED
  BY <1>1, <1>2

(* Closed requests ask for nothing, whatever is asked. *)
LEMMA SilentAsks ==
  \A q : /\ \A kind : Silent(q) => Asks(q, kind)
         /\ q \in Seq(Request) /\ Asks(q, "none") => Silent(q)
         /\ \A kind : Asks(<<>>, kind)
<1>1. ASSUME NEW q, q \in Seq(Request), Asks(q, "none") PROVE Silent(q)
  <2>1. \A i \in 1 .. Len(q) : q[i] \in Request
    BY <1>1
  <2> QED
    BY <1>1, <2>1, RequestTyped DEF Asks, Silent
<1> QED
  BY <1>1 DEF Asks, Silent

-----------------------------------------------------------------------------
(* The client and the queue. *)

(* An answer to an open request ends the call. *)
LEMMA FailKeepsCall ==
  ASSUME ValuesTyped, CallIsLast, request # NoRequest, Heard, UNCHANGED <<app, queue>>,
         request' = NoRequest
  PROVE  CallIsLast'
<1>1. CASE request.open
  BY <1>1, SilentAsks DEF Heard, CallIsLast
<1>2. CASE ~request.open
  BY <1>2 DEF Heard, CallIsLast
<1> QED
  BY <1>1, <1>2

(* Every step keeps the call the last request. *)
LEMMA CallInductive == ValuesTyped /\ CallIsLast /\ [Next]_vars => CallIsLast'
<1> SUFFICES ASSUME ValuesTyped, CallIsLast, [Next]_vars PROVE CallIsLast'
  OBVIOUS
<1> USE DEF client, helper, system, history
<1>0. /\ queue \in Seq(Request) /\ request \in Request \cup {NoRequest}
      /\ call \in {"none", "status", "start", "stop", "uninstall"}
      /\ app \in Apps \cup {NoApp}
      /\ request # NoRequest <=> pc["server"] # "idle"
  BY DEF ValuesTyped
<1>1. CASE UNCHANGED <<app, call, queue, request>>
  BY <1>1, Zenon DEF CallIsLast
<1>2. CASE Accept
  <2>1. queue # <<>> /\ request' = Head(queue) /\ queue' = Tail(queue)
        /\ UNCHANGED <<app, call>>
    BY <1>2 DEF Accept
  <2>2. Asks(Tail(queue), call)
        /\ (Head(queue).open => Tail(queue) = <<>> /\ Head(queue).kind = call)
    BY <1>0, <2>1, AsksTail DEF CallIsLast
  <2> QED
    BY <2>1, <2>2 DEF CallIsLast
<1>3. CASE AnswerStatus
  <2>1. request \in Request /\ UNCHANGED app /\ request' = NoRequest
    BY <1>0, <1>3 DEF AnswerStatus, At
  <2>2. CASE ~request.open
    BY <1>3, <2>1, <2>2 DEF AnswerStatus, CallIsLast
  <2>3. CASE request.open /\ slot = NoSession
    BY <1>3, <2>1, <2>3, SilentAsks DEF AnswerStatus, CallIsLast
  <2>4. CASE request.open /\ slot # NoSession
    <3> DEFINE r == [request EXCEPT !.kind = "stop"]
    <3>1. r \in Request /\ r.kind = "stop"
      BY <2>1, RequestTyped DEF Request
    <3>2. queue = <<>> /\ queue' = Append(queue, r) /\ call' = "stop" /\ app # NoApp
      BY <1>3, <2>1, <2>4, RequestTyped DEF AnswerStatus, CallIsLast
    <3>3. Silent(queue)
      BY <3>2 DEF Silent
    <3>4. Asks(queue', "stop")
      BY <1>0, <3>1, <3>2, <3>3, AsksAppend
    <3> QED
      BY <2>1, <3>2, <3>4 DEF CallIsLast
  <2> QED
    BY <2>2, <2>3, <2>4
<1>4. CASE Answer \/ RefuseStart \/ SpawnFails \/ ApiNotReady \/ ApplyDnsFails
  <2>1. Heard /\ UNCHANGED <<app, queue>> /\ request' = NoRequest
    BY <1>4, Zenon
       DEF Answer, RefuseStart, SpawnFails, ApiNotReady, ApplyDnsFails, Fail
  <2>2. request # NoRequest
    BY <1>0, <1>4 DEF Answer, RefuseStart, SpawnFails, ApiNotReady, ApplyDnsFails, At
  <2> QED
    BY <2>1, <2>2, FailKeepsCall
<1>5. CASE HelperCrashes
  <2>1. request' = NoRequest /\ UNCHANGED app
    BY <1>5, Zenon DEF HelperCrashes, HelperEnds
  <2>2. CASE request = NoRequest \/ ~request.open
    <3>1. UNCHANGED <<call, queue>>
      BY <1>5, <2>2, Zenon DEF HelperCrashes
    <3> QED
      BY <2>1, <3>1 DEF CallIsLast
  <2>3. CASE request # NoRequest /\ request.open /\ request.kind = "status"
    <3> DEFINE r == [request EXCEPT !.kind = "stop"]
    <3>1. r \in Request /\ r.kind = "stop"
      BY <1>0, <2>3, RequestTyped DEF Request
    <3>2. queue = <<>> /\ app # NoApp
      BY <2>3 DEF CallIsLast
    <3>3. queue' = Append(queue, r) /\ call' = "stop"
      BY <1>5, <2>3, Zenon DEF HelperCrashes
    <3>4. Silent(queue)
      BY <3>2 DEF Silent
    <3>5. Asks(queue', "stop")
      BY <1>0, <3>1, <3>3, <3>4, AsksAppend
    <3> QED
      BY <2>1, <3>2, <3>3, <3>5 DEF CallIsLast
  <2>4. CASE request # NoRequest /\ request.open /\ request.kind # "status"
    <3>1. call' = "none" /\ UNCHANGED queue
      BY <1>5, <2>4, Zenon DEF HelperCrashes
    <3>2. queue = <<>>
      BY <2>4 DEF CallIsLast
    <3> QED
      BY <2>1, <3>1, <3>2, SilentAsks DEF CallIsLast
  <2> QED
    BY <2>2, <2>3, <2>4
<1>6. CASE UninstallDisables
  <2>1. request' = NoRequest /\ queue' = <<>> /\ call' = "none"
    BY <1>6, Zenon DEF UninstallDisables, HelperEnds
  <2> QED
    BY <2>1, SilentAsks DEF CallIsLast
<1>7. CASE OrphanCheck \/ EndUninstall
  <2>1. CASE UninstallPurges /\ UNCHANGED call
    BY <1>1, <2>1 DEF UninstallPurges
  <2> QED
    BY <1>6, <1>7, <2>1 DEF OrphanCheck, EndUninstall
<1>8. CASE StartTun \/ StopTun
  <2>1. app # NoApp /\ call = "none" /\ UNCHANGED <<app, request>>
    BY <1>8 DEF StartTun, StopTun
  <2>2. PICK r \in Request : queue' = Append(queue, r) /\ call' = r.kind
    <3>1. CASE StartTun
      <4>1. PICK original \in Captured : Post("start", original)
        BY <3>1 DEF StartTun
      <4>2. original \in Servers \cup {"none"}
        BY DEF Captured, ValuesTyped, Servers
      <4> QED
        BY <1>0, <2>1, <3>1, <4>1, <4>2, RequestTyped DEF StartTun, Post
    <3>2. CASE StopTun
      BY <1>0, <2>1, <3>2, RequestTyped DEF StopTun, Post
    <3> QED
      BY <1>8, <3>1, <3>2
  <2>3. Silent(queue) /\ Asks(queue', call')
    BY <1>0, <2>1, <2>2, SilentAsks, AsksAppend DEF CallIsLast
  <2>4. request' # NoRequest => ~request'.open
    BY <1>0, <2>1, RequestTyped DEF CallIsLast
  <2> QED
    BY <2>1, <2>3, <2>4 DEF CallIsLast
<1>9. CASE TimeOut \/ Exit
  <2>1. HangUp /\ call' = "none"
    BY <1>9 DEF TimeOut, Exit
  <2>2. Asks(queue', call')
    BY <1>0, <2>1, ClosedParts, SilentAsks DEF HangUp
  <2>3. request' # NoRequest => ~request'.open
    BY <1>0, <2>1, ClosedParts DEF HangUp
  <2> QED
    BY <2>1, <2>2, <2>3 DEF CallIsLast
<1>10. CASE StatusTimesOut
  <2> DEFINE closed == [i \in DOMAIN queue |-> Closed(queue[i])]
             r == [kind |-> "stop", caller |-> app, original |-> "none", open |-> TRUE]
  <2>1. app # NoApp /\ UNCHANGED app /\ call' = "stop" /\ queue' = Append(closed, r)
    BY <1>10 DEF StatusTimesOut
  <2>2. closed \in Seq(Request) /\ Silent(closed)
    BY <1>0, ClosedTyped, ClosedParts
  <2>3. r \in Request /\ r.kind = "stop"
    BY <1>0, <2>1, RequestTyped
  <2>4. request' # NoRequest => ~request'.open
    BY <1>0, <1>10, ClosedParts DEF StatusTimesOut
  <2> HIDE DEF closed, r
  <2>5. Asks(queue', "stop")
    BY <2>1, <2>2, <2>3, AsksAppend
  <2> QED
    BY <2>1, <2>4, <2>5 DEF CallIsLast
<1>11. CASE BeginUninstall
  <2>1. app # NoApp /\ call = "none" /\ UNCHANGED <<app, queue, request>>
    BY <1>11 DEF BeginUninstall, UninstallPurges
  <2>2. Asks(queue, call')
    BY <1>0, <2>1, SilentAsks DEF CallIsLast
  <2>3. request # NoRequest => ~request.open
    BY <1>0, <2>1, RequestTyped DEF CallIsLast
  <2> QED
    BY <2>1, <2>2, <2>3 DEF CallIsLast
<1>12. CASE Launch
  <2>1. app = NoApp /\ UNCHANGED <<call, queue, request>>
    BY <1>12 DEF Launch
  <2> QED
    BY <2>1 DEF CallIsLast
<1>13. CASE Evict \/ Spawn \/ ApiReady \/ ApplyDns \/ Store \/ Notice \/ HelperStarts
           \/ InstallUnits
  BY <1>1, <1>13, Zenon
     DEF Evict, Spawn, ApiReady, ApplyDns, Store, Notice, HelperStarts, InstallUnits
<1>14. ASSUME NEW t \in Threads, Take(t) \/ Kill(t) \/ Restore(t) \/ Sweep(t) \/ Purge(t)
       PROVE  CallIsLast'
  BY <1>1, <1>14, Zenon DEF Take, Kill, Restore, Sweep, Purge
<1>15. ASSUME NEW c \in Cores, CoreCrashes(c) \/ CoreTerminates(c) PROVE CallIsLast'
  BY <1>1, <1>15, Zenon DEF CoreCrashes, CoreTerminates
<1>16. CASE UNCHANGED vars
  BY <1>1, <1>16 DEF vars
<1> QED
  BY <1>2, <1>3, <1>4, <1>5, <1>7, <1>8, <1>9, <1>10, <1>11, <1>12, <1>13, <1>14, <1>15,
     <1>16
     DEF Next, Server, Watchdog, Application, Environment, Threads

(* The main thread serves the request its place is for, and has torn the    *)
(* session down before it answers a stop.                                   *)
LEMMA ServerInductive ==
  ValuesTyped /\ ValuesTyped' /\ CoresAtPlaces /\ ServerFits /\ [Next]_vars => ServerFits'
<1> SUFFICES ASSUME ValuesTyped, ValuesTyped', CoresAtPlaces, ServerFits, [Next]_vars
             PROVE  ServerFits'
  OBVIOUS
<1> USE DEF client, helper, system, history
<1>0. /\ request \in Request \cup {NoRequest} /\ pc \in [Threads -> Places]
      /\ request # NoRequest <=> pc["server"] # "idle"
      /\ request' # NoRequest <=> pc'["server"] # "idle"
      /\ pc["server"] \in Building => slot = NoSession
  BY DEF ValuesTyped, CoresAtPlaces
<1>1. CASE UNCHANGED <<request, pc, slot>>
  BY <1>1, Zenon DEF ServerFits
<1>2. CASE Accept
  <2>1. /\ request' \in Request
        /\ pc' = [pc EXCEPT !["server"] =
                     CASE request'.kind = "status" -> "answer"
                       [] request'.kind = "start"  -> "evict"
                       [] request'.kind = "stop"   -> "take"]
    BY <1>2, QueueTyped DEF Accept, GoTo, ValuesTyped
  <2>2. request'.kind \in {"status", "start", "stop"}
    BY <2>1, RequestTyped
  <2> QED
    BY <1>0, <2>1, <2>2 DEF ServerFits, Starting, Threads
<1>3. CASE request' = NoRequest
  BY <1>0, <1>3 DEF ServerFits, Starting
<1>4. CASE AnswerStatus \/ Answer \/ RefuseStart \/ SpawnFails \/ ApiNotReady
           \/ ApplyDnsFails \/ HelperCrashes \/ UninstallDisables
  BY <1>3, <1>4, Zenon
     DEF AnswerStatus, Answer, RefuseStart, SpawnFails, ApiNotReady, ApplyDnsFails,
         Fail, HelperCrashes, UninstallDisables, HelperEnds
<1>5. CASE Evict \/ Spawn \/ ApiReady \/ ApplyDns \/ Store
  <2>1. UNCHANGED request /\ pc["server"] \in Starting
    BY <1>5 DEF Evict, Spawn, ApiReady, ApplyDns, Store, At, Starting
  <2>2. PICK place \in {"purge", "kill", "ready", "dns", "store", "answer"} :
          pc' = [pc EXCEPT !["server"] = place]
    BY <1>5 DEF Evict, Spawn, ApiReady, ApplyDns, Store, GoTo
  <2>3. request.kind = "start"
    BY <2>1 DEF ServerFits
  <2> QED
    BY <1>0, <2>1, <2>2, <2>3 DEF ServerFits, Starting, Threads
<1>6. ASSUME NEW t \in Threads, Take(t) \/ Kill(t) \/ Restore(t) PROVE ServerFits'
  <2>1. UNCHANGED request /\ slot' \in {slot, NoSession}
    BY <1>6 DEF Take, Kill, Restore
  <2>2. PICK place \in {"purge", "kill", "restore", "sweep"} : pc' = [pc EXCEPT ![t] = place]
    BY <1>6 DEF Take, Kill, Restore, GoTo
  <2> QED
    BY <1>0, <2>1, <2>2 DEF ServerFits, Starting, Threads
<1>7. ASSUME NEW t \in Threads, Sweep(t) \/ Purge(t) PROVE ServerFits'
  <2>1. UNCHANGED <<request, slot>> /\ pc[t] \in Building
    BY <1>7 DEF Sweep, Purge, At, Building
  <2>2. CASE t = "server"
    <3>1. slot' = NoSession
      BY <1>0, <2>1, <2>2
    <3>2. PICK place \in {"purge", "spawn", "answer"} :
            /\ pc' = [pc EXCEPT !["server"] = place]
            /\ place = "spawn" => request.kind = "start"
      BY <1>7, <2>2 DEF Sweep, Purge, GoTo, AfterSweep, AfterPurge
    <3> QED
      BY <1>0, <2>1, <3>1, <3>2 DEF ServerFits, Starting, Threads
  <2>3. CASE t = "watchdog"
    <3>1. pc'["server"] = pc["server"]
      BY <1>0, <1>7, <2>3 DEF Sweep, Purge, GoTo, Threads
    <3> QED
      BY <2>1, <3>1 DEF ServerFits
  <2> QED
    BY <2>2, <2>3 DEF Threads
<1>8. CASE Notice
  <2>1. pc'["server"] = pc["server"] /\ UNCHANGED <<request, slot>>
    BY <1>0, <1>8 DEF Notice, GoTo, Threads
  <2> QED
    BY <2>1 DEF ServerFits
<1>9. CASE TimeOut \/ Exit \/ StatusTimesOut
  <2>1. /\ UNCHANGED <<pc, slot>>
        /\ request' = IF request = NoRequest THEN NoRequest ELSE Closed(request)
    BY <1>9 DEF TimeOut, Exit, StatusTimesOut, HangUp
  <2>2. request # NoRequest => request'.kind = request.kind
    BY <1>0, <2>1, ClosedParts
  <2> QED
    BY <1>0, <2>1, <2>2 DEF ServerFits, Starting
<1>10. CASE OrphanCheck \/ EndUninstall
  <2>1. CASE UninstallPurges /\ UNCHANGED call
    BY <1>1, <2>1 DEF UninstallPurges
  <2> QED
    BY <1>4, <1>10, <2>1 DEF OrphanCheck, EndUninstall
<1>11. CASE StartTun \/ StopTun \/ BeginUninstall \/ Launch \/ HelperStarts \/ InstallUnits
  BY <1>1, <1>11, Zenon
     DEF StartTun, StopTun, BeginUninstall, UninstallPurges, Launch, HelperStarts,
         InstallUnits
<1>12. ASSUME NEW c \in Cores, CoreCrashes(c) \/ CoreTerminates(c) PROVE ServerFits'
  BY <1>1, <1>12, Zenon DEF CoreCrashes, CoreTerminates
<1>13. CASE UNCHANGED vars
  BY <1>1, <1>13 DEF vars
<1> QED
  BY <1>2, <1>4, <1>5, <1>6, <1>7, <1>8, <1>9, <1>10, <1>11, <1>12, <1>13
     DEF Next, Server, Watchdog, Application, Environment, Threads

(* What a tunnel that is off means is kept by every step, and established   *)
(* by those that turn it off.                                               *)
LEMMA OffInductive ==
  ValuesTyped /\ ValuesTyped' /\ CallIsLast /\ ServerFits /\ OffMeansNone /\ [Next]_vars
    => OffMeansNone'
<1> SUFFICES ASSUME ValuesTyped, ValuesTyped', CallIsLast, ServerFits, OffMeansNone,
                    [Next]_vars
             PROVE  OffMeansNone'
  OBVIOUS
<1> USE DEF client, helper, system, history
<1>0. /\ request \in Request \cup {NoRequest} /\ queue \in Seq(Request)
      /\ hand \in [Threads -> Session \cup {NoSession}] /\ app \in Apps \cup {NoApp}
      /\ pc["server"] # "idle" => request # NoRequest
      /\ hand["server"] # NoSession => pc["server"] \in Holding
      /\ NoStart(<<>>)
  BY DEF ValuesTyped, Threads, NoStart
<1>1. CASE UNCHANGED <<tun, slot, hand, request, queue>>
  BY <1>1, Zenon DEF OffMeansNone
<1>2. CASE tun' # "off"
  BY <1>2 DEF OffMeansNone
<1>3. CASE Accept
  <2>1. queue # <<>> /\ request' = Head(queue) /\ queue' = Tail(queue)
        /\ UNCHANGED <<tun, slot, hand>>
    BY <1>3 DEF Accept
  <2>2. NoStart(queue) => NoStart(Tail(queue)) /\ Head(queue).kind # "start"
    <3>1. Head(queue) \in Request
      BY <1>0, <2>1, QueueTyped
    <3> QED
      BY <1>0, <2>1, <3>1, NoStartParts
  <2> QED
    BY <2>1, <2>2 DEF OffMeansNone
<1>4. CASE AnswerStatus \/ Answer
  <2>1. request # NoRequest /\ request' = NoRequest /\ UNCHANGED <<slot, hand>>
        /\ hand["server"] = NoSession
    BY <1>0, <1>4 DEF AnswerStatus, Answer, At, Holding
  <2>2. CASE ~request.open
    <3>1. UNCHANGED <<tun, queue>>
      BY <1>4, <2>2 DEF AnswerStatus, Answer
    <3> QED
      BY <2>1, <3>1 DEF OffMeansNone
  <2>3. CASE AnswerStatus /\ request.open
    <3>1. CASE slot = NoSession
      <4>1. queue' = <<>>
        BY <2>1, <2>3, <3>1 DEF AnswerStatus, CallIsLast
      <4> QED
        BY <1>0, <2>1, <3>1, <4>1 DEF OffMeansNone
    <3>2. CASE slot # NoSession
      BY <1>2, <2>3, <3>2 DEF AnswerStatus, OffMeansNone
    <3> QED
      BY <3>1, <3>2
  <2>4. CASE Answer /\ request.open
    <3>1. CASE request.kind = "stop"
      <4>1. slot = NoSession
        BY <2>4, <3>1 DEF Answer, At, ServerFits
      <4>2. queue' = <<>>
        BY <2>1, <2>4 DEF Answer, CallIsLast
      <4> QED
        BY <1>0, <2>1, <4>1, <4>2 DEF OffMeansNone
    <3>2. CASE request.kind # "stop"
      BY <1>2, <2>4, <3>2 DEF Answer
    <3> QED
      BY <3>1, <3>2
  <2> QED
    BY <1>4, <2>2, <2>3, <2>4
<1>5. CASE RefuseStart \/ SpawnFails \/ ApiNotReady \/ ApplyDnsFails
  <2>1. /\ request' = NoRequest /\ UNCHANGED <<tun, slot, queue>>
        /\ hand' \in {hand, [hand EXCEPT !["server"] = NoSession]}
    BY <1>5 DEF RefuseStart, SpawnFails, ApiNotReady, ApplyDnsFails, Fail
  <2> QED
    BY <1>0, <2>1 DEF OffMeansNone, Threads
<1>6. CASE Evict \/ Spawn \/ ApiReady \/ ApplyDns \/ Store
  <2>1. UNCHANGED tun /\ pc["server"] \in Starting /\ pc["server"] # "idle"
    BY <1>6 DEF Evict, Spawn, ApiReady, ApplyDns, Store, At, Starting
  <2>2. request # NoRequest /\ request.kind = "start"
    BY <1>0, <2>1 DEF ServerFits
  <2> QED
    BY <1>2, <2>1, <2>2 DEF OffMeansNone
<1>7. ASSUME NEW t \in Threads, Take(t) \/ Kill(t) \/ Restore(t) \/ Sweep(t) \/ Purge(t)
      PROVE  OffMeansNone'
  <2>1. /\ UNCHANGED <<tun, request, queue>> /\ slot' \in {slot, NoSession}
        /\ hand' \in {hand, [hand EXCEPT ![t] = slot], [hand EXCEPT ![t] = NoSession]}
    BY <1>7 DEF Take, Kill, Restore, Sweep, Purge
  <2> QED
    BY <1>0, <2>1 DEF OffMeansNone, Threads
<1>8. CASE HelperCrashes
  <2>1. /\ UNCHANGED tun /\ slot' = NoSession /\ request' = NoRequest
        /\ hand' = [t \in Threads |-> NoSession]
    BY <1>8, Zenon DEF HelperCrashes, HelperEnds
  <2>2. hand'["server"] = NoSession
    BY <2>1 DEF Threads
  <2>3. CASE UNCHANGED queue
    BY <2>1, <2>2, <2>3 DEF OffMeansNone
  <2>4. CASE queue' # queue
    <3> DEFINE r == [request EXCEPT !.kind = "stop"]
    <3>1. request # NoRequest /\ queue' = Append(queue, r)
      BY <1>8, <2>4, Zenon DEF HelperCrashes
    <3>2. r \in Request /\ r.kind # "start"
      BY <1>0, <3>1, RequestTyped DEF Request
    <3> HIDE DEF r
    <3>3. NoStart(queue) => NoStart(queue')
      BY <1>0, <3>1, <3>2, NoStartParts
    <3> QED
      BY <2>1, <2>2, <3>3 DEF OffMeansNone
  <2> QED
    BY <2>3, <2>4
<1>9. CASE UninstallDisables
  <2>1. /\ slot' = NoSession /\ request' = NoRequest /\ queue' = <<>>
        /\ hand' = [t \in Threads |-> NoSession]
    BY <1>9, Zenon DEF UninstallDisables, HelperEnds
  <2> QED
    BY <1>0, <2>1 DEF OffMeansNone, Threads
<1>10. CASE OrphanCheck \/ EndUninstall
  <2>1. CASE UninstallPurges /\ UNCHANGED call
    BY <1>1, <2>1 DEF UninstallPurges
  <2> QED
    BY <1>9, <1>10, <2>1 DEF OrphanCheck, EndUninstall
<1>11. CASE Launch \/ StartTun \/ TimeOut
  BY <1>2, <1>11 DEF Launch, StartTun, TimeOut
<1>12. CASE StopTun
  <2> DEFINE r == [kind |-> "status", caller |-> app, original |-> "none", open |-> TRUE]
  <2>1. app # NoApp /\ queue' = Append(queue, r) /\ UNCHANGED <<tun, slot, hand, request>>
    BY <1>12 DEF StopTun, Post
  <2>2. r \in Request /\ r.kind # "start"
    BY <1>0, <2>1, RequestTyped
  <2> HIDE DEF r
  <2>3. NoStart(queue) => NoStart(queue')
    BY <1>0, <2>1, <2>2, NoStartParts
  <2> QED
    BY <2>1, <2>3 DEF OffMeansNone
<1>13. CASE StatusTimesOut \/ Exit
  <2> DEFINE closed == [i \in DOMAIN queue |-> Closed(queue[i])]
             r == [kind |-> "stop", caller |-> app, original |-> "none", open |-> TRUE]
  <2>1. /\ app # NoApp /\ UNCHANGED <<tun, slot, hand>>
        /\ queue' = closed \/ queue' = Append(closed, r)
        /\ request' = IF request = NoRequest THEN NoRequest ELSE Closed(request)
    BY <1>13 DEF StatusTimesOut, Exit, HangUp
  <2>2. closed \in Seq(Request) /\ (NoStart(queue) => NoStart(closed))
    BY <1>0, ClosedTyped, ClosedParts
  <2>3. r \in Request /\ r.kind # "start"
    BY <1>0, <2>1, RequestTyped
  <2>4. request' # NoRequest => request # NoRequest /\ request'.kind = request.kind
    BY <1>0, <2>1, ClosedParts
  <2> HIDE DEF closed, r
  <2>5. NoStart(queue) => NoStart(queue')
    BY <2>1, <2>2, <2>3, NoStartParts
  <2> QED
    BY <2>1, <2>4, <2>5 DEF OffMeansNone
<1>14. CASE Notice \/ BeginUninstall \/ HelperStarts \/ InstallUnits
  BY <1>1, <1>14, Zenon
     DEF Notice, BeginUninstall, UninstallPurges, HelperStarts, InstallUnits
<1>15. ASSUME NEW c \in Cores, CoreCrashes(c) \/ CoreTerminates(c) PROVE OffMeansNone'
  BY <1>1, <1>15, Zenon DEF CoreCrashes, CoreTerminates
<1>16. CASE UNCHANGED vars
  BY <1>1, <1>16 DEF vars
<1> QED
  BY <1>3, <1>4, <1>5, <1>6, <1>7, <1>8, <1>10, <1>11, <1>12, <1>13, <1>14, <1>15, <1>16
     DEF Next, Server, Watchdog, Application, Environment, Threads

(* Every step of the two threads, the application, the system and a fault   *)
(* preserves the inductive invariant.                                       *)
THEOREM Preservation == IInv /\ [Next]_vars => IInv'
<1> SUFFICES ASSUME IInv, [Next]_vars PROVE IInv'
  OBVIOUS
<1>1. SwitchesTyped' /\ ValuesTyped'
  BY SwitchesInductive, ValuesInductive DEF IInv
<1>2. CoresAreHeld' /\ OverrideHasAKeeper'
  BY <1>1, CoresInductive, KeeperInductive DEF IInv
<1>3. CallIsLast' /\ ServerFits'
  BY <1>1, CallInductive, ServerInductive DEF IInv, CoresAreHeld
<1>4. OffMeansNone'
  BY <1>1, OffInductive DEF IInv
<1> QED
  BY <1>1, <1>2, <1>3, <1>4 DEF IInv

(* The inductive invariant holds in every reachable state. *)
LEMMA Invariance == Spec => []IInv
  BY Initially, Preservation, PTL DEF Spec

(* Every reachable state is well typed, and a thread holds a session exactly *)
(* at the places where it builds one or tears one down.                      *)
THEOREM TypeCorrect == Spec => []TypeOK
<1>1. IInv => TypeOK
  BY Zenon DEF IInv, TypeOK, SwitchesTyped, ValuesTyped, Places
<1> QED
  BY Invariance, <1>1, PTL

(* No interleaving of a start, a stop, an eviction and the watchdog loses a *)
(* core that runs: the slot or a thread holds it, or its helper has ended   *)
(* (linux/service.rs:207-377).                                              *)
THEOREM NoCoreIsLost == Spec => []NoStrayCore
<1>1. IInv => NoStrayCore
  BY DEF IInv, CoresAreHeld
<1> QED
  BY Invariance, <1>1, PTL

(* None leaves an override of the DNS servers that nobody is to take off,   *)
(* unless the user's servers are known to nobody or restore_dns tried and   *)
(* failed (linux/service.rs:284-334, 442-459).                              *)
THEOREM OverridesAreKept == Spec => []OverrideHasAKeeper
<1>1. IInv => OverrideHasAKeeper
  BY DEF IInv
<1> QED
  BY Invariance, <1>1, PTL

(* A step that turns the tunnel off answers a call for it. *)
LEMMA StopReturnsEmpty ==
  ASSUME IInv, [Next]_vars, StopReturns
  PROVE  slot = NoSession /\ hand["server"] = NoSession
<1> USE DEF client, helper, system, history
<1>0. /\ call \in {"status", "stop"} /\ call' = "none" /\ tun' = "off"
      /\ pc["server"] = "answer" => hand["server"] = NoSession /\ request # NoRequest
  BY DEF StopReturns, IInv, ValuesTyped, Threads, Holding
<1>1. CASE UNCHANGED tun
  BY <1>0, <1>1 DEF IInv, OffMeansNone
<1>2. CASE UNCHANGED call
  BY <1>0, <1>2
<1>3. CASE AnswerStatus
  BY <1>0, <1>2, <1>3 DEF AnswerStatus, At
<1>4. CASE Answer
  <2>1. request.open /\ call = request.kind
    BY <1>0, <1>4 DEF Answer, Heard, At, IInv, CallIsLast
  <2>2. request.kind = "stop"
    BY <1>0, <1>4, <2>1 DEF Answer
  <2> QED
    BY <1>0, <1>4, <2>2 DEF Answer, At, IInv, ServerFits
<1>5. CASE RefuseStart \/ SpawnFails \/ ApiNotReady \/ ApplyDnsFails
  BY <1>1, <1>5, Zenon DEF RefuseStart, SpawnFails, ApiNotReady, ApplyDnsFails, Fail
<1>6. CASE OrphanCheck
  BY <1>0, <1>6 DEF OrphanCheck, IInv, CallIsLast
<1>7. CASE EndUninstall \/ Launch \/ StartTun \/ TimeOut
  BY <1>0, <1>7 DEF EndUninstall, Launch, StartTun, TimeOut
<1>8. CASE \/ Accept \/ Evict \/ Spawn \/ ApiReady \/ ApplyDns \/ Store \/ Notice
           \/ HelperCrashes \/ HelperStarts \/ InstallUnits \/ BeginUninstall
           \/ StopTun \/ StatusTimesOut \/ Exit
  BY <1>1, <1>8, Zenon
     DEF Accept, Evict, Spawn, ApiReady, ApplyDns, Store, Notice, HelperCrashes,
         HelperStarts, InstallUnits, BeginUninstall, UninstallPurges, StopTun,
         StatusTimesOut, Exit
<1>9. ASSUME NEW t \in Threads, Take(t) \/ Kill(t) \/ Restore(t) \/ Sweep(t) \/ Purge(t)
      PROVE  UNCHANGED tun
  BY <1>9, Zenon DEF Take, Kill, Restore, Sweep, Purge
<1>10. ASSUME NEW c \in Cores, CoreCrashes(c) \/ CoreTerminates(c) PROVE UNCHANGED tun
  BY <1>10, Zenon DEF CoreCrashes, CoreTerminates
<1>11. CASE UNCHANGED vars
  BY <1>1, <1>11 DEF vars
<1> QED
  BY <1>1, <1>3, <1>4, <1>5, <1>6, <1>7, <1>8, <1>9, <1>10, <1>11
     DEF Next, Server, Watchdog, Application, Environment, Threads

(* When stop_tun returns Ok no core runs and no override is in force but    *)
(* what the watchdog tears down at that moment, what an ended helper left   *)
(* and an override that restore_dns could not take off, whatever timed out, *)
(* hung up or crashed before (linux/mod.rs:153-161, linux/service.rs:307-334).  *)
THEOREM StopLeavesNothing == Spec => StoppedMeansNoCore
<1> DEFINE Nothing == /\ \A c \in Cores :
                            Running(c) => \/ c \in orphans
                                          \/ /\ hand["watchdog"] # NoSession
                                             /\ hand["watchdog"].core = c
                      /\ dns = "tunnel" => lost \/ unrestored \/ Restores("watchdog")
<1>1. IInv /\ [Next]_vars => [StopReturns => Nothing]_vars
  <2> SUFFICES ASSUME IInv, [Next]_vars, StopReturns PROVE Nothing
    OBVIOUS
  <2>1. slot = NoSession /\ hand["server"] = NoSession
    BY StopReturnsEmpty
  <2>2. \A c \in Cores : Running(c) => Held(c) \/ c \in orphans
    BY DEF IInv, CoresAreHeld, NoStrayCore
  <2>3. \A c \in Cores :
          Running(c) => \/ c \in orphans
                        \/ hand["watchdog"] # NoSession /\ hand["watchdog"].core = c
    BY <2>1, <2>2 DEF Held, Threads
  <2>4. dns = "tunnel" => lost \/ unrestored \/ Restores("watchdog")
    BY <2>1 DEF IInv, OverrideHasAKeeper, Restores, Threads
  <2> QED
    BY <2>3, <2>4
<1> QED
  BY Invariance, <1>1, PTL DEF Spec, StoppedMeansNoCore
=============================================================================
