-------------------------- MODULE LinuxTunHelper --------------------------
(***************************************************************************)
(* The Linux TUN control plane: the privileged helper (linux/service.rs)   *)
(* with its two threads, and the application's client (linux/mod.rs,       *)
(* linux/client.rs).                                                       *)
(*                                                                         *)
(* The helper's main thread serves one connection at a time; a watchdog    *)
(* thread tears down the session of a dead caller or core.  They share the *)
(* session slot under a mutex, but a session that is torn down has been    *)
(* taken out of the slot, so teardown runs without it.  The DNS servers of *)
(* the physical interface are the user's `own` or the `tunnel`'s.          *)
(***************************************************************************)
EXTENDS Naturals, Sequences, FiniteSets

CONSTANTS
    Cores,      \* core processes the helper may spawn in a behaviour
    Apps,       \* processes of the application: each launch is another one
    NoApp,      \* the application does not run
    NoSession,  \* an empty slot, or a thread that holds no session
    NoRequest,  \* the main thread serves nobody
    MaxQueue,   \* bound on connections that wait to be accepted
    MaxFaults   \* bound on crashes and uninstallations of the helper

Threads   == {"server", "watchdog"}
Servers   == {"own", "tunnel"}
Session   == [core : Cores, caller : Apps, original : Servers \cup {"none"}]
Request   == [kind : {"status", "start", "stop"}, caller : Apps,
              original : Servers \cup {"none"}, open : BOOLEAN]

ASSUME ValuesAssumption ==
    NoApp \notin Apps /\ NoSession \notin Session /\ NoRequest \notin Request
ASSUME BoundsAssumption == MaxQueue \in Nat /\ MaxFaults \in Nat

VARIABLES
    (* the application *)
    app,        \* the process that runs, or NoApp
    launched,   \* processes that ran so far
    call,       \* the call into linux/mod.rs it is in
    tun,        \* how the last one left the tunnel: "off", "on" or "unknown"
    (* the helper *)
    installed, up,
    queue,      \* requests written to the socket and not accepted yet
    request,    \* the request the main thread serves
    pc,         \* where each thread is
    hand,       \* the session each thread builds or tears down
    slot,       \* the shared session slot
    locked,     \* the main thread tears a session down holding the mutex
    (* the system *)
    core,       \* the state of every core process
    dns,        \* DNS servers of the physical interface
    (* history *)
    lost,       \* nobody is left who knows the user's DNS servers
    unrestored, \* restore_dns failed and the servers it knew are forgotten
    orphans,    \* cores that outlived the helper that spawned them
    faults

client  == <<app, launched, call, tun>>
helper  == <<queue, request, pc, hand, slot, locked>>
system  == <<core, dns>>
history == <<lost, unrestored, orphans, faults>>
vars    == <<app, launched, call, tun, installed, up, queue, request, pc, hand,
             slot, locked, core, dns, lost, unrestored, orphans, faults>>

Running(c) == core[c] = "running"

(* Where a thread holds a session: one it tears down, or one it builds.    *)
Holding == {"kill", "restore", "ready", "dns", "store"}

(* The types, with what each thread holds where.                           *)
TypeOK ==
    /\ app \in Apps \cup {NoApp} /\ launched \subseteq Apps
    /\ call \in {"none", "status", "start", "stop", "uninstall"}
    /\ tun \in {"off", "on", "unknown"}
    /\ installed \in BOOLEAN /\ up \in BOOLEAN
    /\ queue \in Seq(Request) /\ request \in Request \cup {NoRequest}
    /\ pc \in [Threads -> {"idle", "evict", "take", "kill", "restore", "sweep",
                           "purge", "spawn", "ready", "dns", "store", "answer"}]
    /\ hand \in [Threads -> Session \cup {NoSession}]
    /\ slot \in Session \cup {NoSession} /\ locked \in BOOLEAN
    /\ core \in [Cores -> {"unborn", "running", "signalled", "dead"}]
    /\ dns \in Servers /\ lost \in BOOLEAN /\ unrestored \in BOOLEAN
    /\ orphans \subseteq Cores /\ faults \in Nat
    /\ \A t \in Threads : hand[t] # NoSession <=> pc[t] \in Holding
    /\ request # NoRequest <=> pc["server"] # "idle"

Init ==
    /\ app = NoApp /\ launched = {} /\ call = "none" /\ tun = "off"
    /\ installed = TRUE /\ up = TRUE
    /\ queue = <<>> /\ request = NoRequest
    /\ pc = [t \in Threads |-> "idle"]
    /\ hand = [t \in Threads |-> NoSession]
    /\ slot = NoSession /\ locked = FALSE
    /\ core = [c \in Cores |-> "unborn"] /\ dns = "own"
    /\ lost = FALSE /\ unrestored = FALSE /\ orphans = {} /\ faults = 0
-----------------------------------------------------------------------------
(* Helpers of both threads.                                                *)

At(t, place) == up /\ pc[t] = place
GoTo(t, place) == pc' = [pc EXCEPT ![t] = place]

(* pkill_cores: SIGTERM to every trusted core of root, whoever owns it.    *)
Signalled == [c \in Cores |-> IF Running(c) THEN "signalled" ELSE core[c]]

(* restore_dns reverts the link, which leaves what the network manager     *)
(* has, then puts the captured servers back; it ignores the failure of     *)
(* either, and with both the link keeps what it had.  The session, and with *)
(* it what was captured, is forgotten whatever came of it.                 *)
RestoreDns(original) ==
    /\ dns' \in {dns, "own"} \cup ({original} \cap Servers)
    /\ lost' = (dns' = "tunnel" /\ original = "tunnel")
    /\ unrestored' = (dns' = "tunnel" /\ original # "tunnel")

(* What apply_dns may leave on the physical interface when it succeeds: a  *)
(* private server the user had, the gateway, or, when only the link of the *)
(* tunnel could be set, what was there.                                    *)
Overridden(original) ==
    {dns, "tunnel"} \cup (IF original = "own" THEN {"own"} ELSE {})

(* caller_is_alive: the process with that pid and start time.              *)
CallerIsAlive(caller) == app = caller

(* Where the server goes once the old session and old cores are gone.      *)
AfterPurge(t) ==
    IF t = "watchdog" THEN "idle"
    ELSE IF request.kind = "start" THEN "spawn" ELSE "answer"
AfterSweep(t) ==
    IF t = "server" /\ request.kind = "start" THEN "purge" ELSE AfterPurge(t)

(* teardown_session: kill and reap the core it holds,                      *)
Kill(t) ==
    /\ At(t, "kill")
    /\ core' = [core EXCEPT ![hand[t].core] = "dead"]
    /\ GoTo(t, "restore")
    /\ UNCHANGED <<client, installed, up, queue, request, hand, slot, locked, dns, history>>

(* put the DNS servers back,                                               *)
Restore(t) ==
    /\ At(t, "restore")
    /\ RestoreDns(hand[t].original)
    /\ hand' = [hand EXCEPT ![t] = NoSession]
    /\ GoTo(t, "sweep")
    /\ UNCHANGED <<client, installed, up, queue, request, slot, locked, core, orphans, faults>>

(* and signal what else looks like a core.                                 *)
Sweep(t) ==
    /\ At(t, "sweep")
    /\ core' = Signalled
    /\ locked' = (locked /\ t = "watchdog")
    /\ GoTo(t, AfterSweep(t))
    /\ UNCHANGED <<client, installed, up, queue, request, hand, slot, dns, history>>

(* teardown_all: the cores and session directories, but never the DNS.     *)
Purge(t) ==
    /\ At(t, "purge")
    /\ core' = Signalled
    /\ GoTo(t, AfterPurge(t))
    /\ UNCHANGED <<client, installed, up, queue, request, hand, slot, locked, dns, history>>
-----------------------------------------------------------------------------
(* The main thread.                                                        *)

(* handle_client reads one request.                                        *)
Accept ==
    /\ At("server", "idle") /\ queue # <<>>
    /\ request' = Head(queue) /\ queue' = Tail(queue)
    /\ GoTo("server", CASE Head(queue).kind = "status" -> "answer"
                        [] Head(queue).kind = "start"  -> "evict"
                        [] Head(queue).kind = "stop"   -> "take")
    /\ UNCHANGED <<client, installed, up, hand, slot, locked, system, history>>

(* The answer ends the application's call when it still waits for it; the  *)
(* answer to a client that timed out is lost.                              *)
Heard == IF request.open THEN call' = "none" ELSE UNCHANGED call

(* start_session fails: whatever the reason, the client hears an error.    *)
Fail ==
    /\ Heard /\ UNCHANGED <<app, launched, tun>>
    /\ request' = NoRequest
    /\ GoTo("server", "idle")

(* Status: is there a session in the slot?  stop_tun takes any state but   *)
(* "running" as stopped; otherwise it asks the helper to stop.             *)
AnswerStatus ==
    /\ At("server", "answer") /\ request.kind = "status"
    /\ IF ~request.open THEN UNCHANGED <<call, tun, queue>>
       ELSE IF slot = NoSession
            THEN call' = "none" /\ tun' = "off" /\ UNCHANGED queue
            ELSE /\ call' = "stop" /\ UNCHANGED tun
                 /\ queue' = Append(queue, [request EXCEPT !.kind = "stop"])
    /\ request' = NoRequest
    /\ GoTo("server", "idle")
    /\ UNCHANGED <<app, launched, installed, up, hand, slot, locked, system, history>>

(* Stop and Start have done what was asked.                                *)
Answer ==
    /\ At("server", "answer") /\ request.kind \in {"stop", "start"}
    /\ Heard
    /\ tun' = IF ~request.open THEN tun
              ELSE IF request.kind = "stop" THEN "off" ELSE "on"
    /\ request' = NoRequest
    /\ GoTo("server", "idle")
    /\ UNCHANGED <<app, launched, installed, up, queue, hand, slot, locked, system, history>>

(* Mutations: stop_session kills without looking, or only sweeps.          *)
TakeUnchecked(t) ==
    /\ At(t, "take") /\ ~locked
    /\ slot' = NoSession
    /\ hand' = [hand EXCEPT ![t] = slot]
    /\ GoTo(t, "kill")
    /\ UNCHANGED <<client, installed, up, queue, request, locked, system, history>>

TakeNothing(t) ==
    /\ At(t, "take") /\ ~locked
    /\ slot' = NoSession
    /\ GoTo(t, "purge")
    /\ UNCHANGED <<client, installed, up, queue, request, hand, locked, system, history>>

(* stop_session takes the session out under the mutex.                     *)
Take(t) ==
    /\ At(t, "take") /\ ~locked
    /\ slot' = NoSession
    /\ hand' = [hand EXCEPT ![t] = slot]
    /\ GoTo(t, IF slot = NoSession THEN "purge" ELSE "kill")
    /\ UNCHANGED <<client, installed, up, queue, request, locked, system, history>>

(* start_session refuses a caller it cannot verify, a caller that is gone, *)
(* a bad interface, server or configuration, a kernel it does not trust.   *)
RefuseStart ==
    /\ At("server", "evict") /\ ~locked
    /\ Fail
    /\ UNCHANGED <<installed, up, queue, hand, slot, locked, system, history>>

(* It tears an existing session down while it holds the mutex.             *)
Evict ==
    /\ At("server", "evict") /\ ~locked
    /\ CallerIsAlive(request.caller)
    /\ slot' = NoSession
    /\ hand' = [hand EXCEPT !["server"] = slot]
    /\ locked' = (slot # NoSession)
    /\ GoTo("server", IF slot = NoSession THEN "purge" ELSE "kill")
    /\ UNCHANGED <<client, installed, up, queue, request, system, history>>

(* The configuration is copied and the core spawned, or one of them fails. *)
SpawnFails ==
    /\ At("server", "spawn")
    /\ Fail
    /\ UNCHANGED <<installed, up, queue, hand, slot, locked, system, history>>

Spawn ==
    /\ At("server", "spawn")
    /\ \E c \in Cores : core[c] = "unborn"
    /\ LET c == CHOOSE c \in Cores : core[c] = "unborn"
       IN  /\ core' = [core EXCEPT ![c] = "running"]
           /\ hand' = [hand EXCEPT !["server"] =
                         [core |-> c, caller |-> request.caller,
                          original |-> request.original]]
    /\ GoTo("server", "ready")
    /\ UNCHANGED <<client, installed, up, queue, request, slot, locked, dns, history>>

(* wait_api_ready: the port answers while the core lives,                  *)
ApiReady ==
    /\ At("server", "ready")
    /\ core[hand["server"].core] \in {"running", "signalled"}
    /\ GoTo("server", "dns")
    /\ UNCHANGED <<client, installed, up, queue, request, hand, slot, locked, system, history>>

(* Mutation: the core that does not answer is left running.                *)
ApiNotReadyKeepsCore ==
    /\ At("server", "ready")
    /\ hand' = [hand EXCEPT !["server"] = NoSession]
    /\ Fail
    /\ UNCHANGED <<installed, up, queue, slot, locked, system, history>>

(* or 20 seconds pass, or the core exits: it is killed and forgotten.      *)
ApiNotReady ==
    /\ At("server", "ready")
    /\ core' = [core EXCEPT ![hand["server"].core] = "dead"]
    /\ hand' = [hand EXCEPT !["server"] = NoSession]
    /\ Fail
    /\ UNCHANGED <<installed, up, queue, slot, locked, dns, history>>

ApplyDns ==
    /\ At("server", "dns")
    /\ dns' \in Overridden(hand["server"].original)
    /\ lost' = (lost /\ dns' = "tunnel")
    /\ unrestored' = (unrestored /\ dns' = "tunnel")
    /\ GoTo("server", "store")
    /\ UNCHANGED <<client, installed, up, queue, request, hand, slot, locked, core, orphans, faults>>

(* Neither link could be set: the core is killed and the DNS put back.     *)
ApplyDnsFails ==
    /\ At("server", "dns")
    /\ core' = [core EXCEPT ![hand["server"].core] = "dead"]
    /\ RestoreDns(hand["server"].original)
    /\ hand' = [hand EXCEPT !["server"] = NoSession]
    /\ Fail
    /\ UNCHANGED <<installed, up, queue, slot, locked, orphans, faults>>

(* Mutation: the session of a client that hung up is not stored.           *)
StoreIfHeard ==
    /\ At("server", "store") /\ ~locked
    /\ slot' = IF request.open THEN hand["server"] ELSE NoSession
    /\ hand' = [hand EXCEPT !["server"] = NoSession]
    /\ GoTo("server", "answer")
    /\ UNCHANGED <<client, installed, up, queue, request, locked, system, history>>

(* Only now does the session appear in the slot.                           *)
Store ==
    /\ At("server", "store") /\ ~locked
    /\ slot' = hand["server"]
    /\ hand' = [hand EXCEPT !["server"] = NoSession]
    /\ GoTo("server", "answer")
    /\ UNCHANGED <<client, installed, up, queue, request, locked, system, history>>

Server ==
    \/ Accept \/ AnswerStatus \/ Answer
    \/ RefuseStart \/ Evict \/ SpawnFails \/ Spawn
    \/ ApiReady \/ ApiNotReady \/ ApplyDns \/ ApplyDnsFails \/ Store
    \/ Take("server") \/ Kill("server") \/ Restore("server")
    \/ Sweep("server") \/ Purge("server")
-----------------------------------------------------------------------------
(* The watchdog looks at the session once a second, under the mutex, and   *)
(* stops whatever is in the slot after it has released it.                 *)
CoreIsDead == slot # NoSession /\ core[slot.core] = "dead"   \* mutation
SessionIsDead ==
    slot # NoSession /\ (~CallerIsAlive(slot.caller) \/ core[slot.core] = "dead")

Notice ==
    /\ At("watchdog", "idle") /\ ~locked
    /\ SessionIsDead
    /\ GoTo("watchdog", "take")
    /\ UNCHANGED <<client, installed, up, queue, request, hand, slot, locked, system, history>>

Watchdog ==
    \/ Notice \/ Take("watchdog") \/ Kill("watchdog") \/ Restore("watchdog")
    \/ Sweep("watchdog") \/ Purge("watchdog")
-----------------------------------------------------------------------------
(* The system.                                                             *)

(* A core exits by itself, or because it was signalled.                    *)
CoreCrashes(c) ==
    /\ Running(c)
    /\ core' = [core EXCEPT ![c] = "dead"]
    /\ UNCHANGED <<client, installed, up, helper, dns, history>>

CoreTerminates(c) ==
    /\ core[c] = "signalled"
    /\ core' = [core EXCEPT ![c] = "dead"]
    /\ UNCHANGED <<client, installed, up, helper, dns, history>>

(* The helper's process ends: its memory is gone, the client it served     *)
(* reads an error.  Cores in its control group end with it; started by     *)
(* hand it leaves them behind.                                             *)
HelperEnds ==
    /\ up' = FALSE /\ faults < MaxFaults /\ faults' = faults + 1
    /\ request' = NoRequest
    /\ pc' = [t \in Threads |-> "idle"]
    /\ hand' = [t \in Threads |-> NoSession]
    /\ slot' = NoSession /\ locked' = FALSE
    /\ \/ UNCHANGED core
       \/ core' = [c \in Cores |-> IF Running(c) THEN "dead" ELSE core[c]]
    /\ orphans' = orphans \cup {c \in Cores : core'[c] = "running"}
    /\ lost' = (dns = "tunnel")
    /\ UNCHANGED <<app, launched, dns, unrestored>>

(* A client that waited for it reads an error; stop_tun goes on to `stop`. *)
HelperCrashes ==
    /\ up /\ HelperEnds
    /\ IF request = NoRequest \/ ~request.open THEN UNCHANGED <<call, queue>>
       ELSE IF request.kind = "status"
            THEN /\ call' = "stop"
                 /\ queue' = Append(queue, [request EXCEPT !.kind = "stop"])
            ELSE call' = "none" /\ UNCHANGED queue
    /\ UNCHANGED <<tun, installed>>

(* systemd restarts it; its socket has kept the waiting connections.       *)
HelperStarts ==
    /\ installed /\ ~up /\ up' = TRUE
    /\ UNCHANGED <<client, installed, helper, system, history>>

(* `uninstall` runs in a process of its own: it signals the cores, then    *)
(* disables the units, which stops the helper.                             *)
UninstallPurges ==
    /\ installed /\ core' = Signalled
    /\ UNCHANGED <<app, launched, tun, installed, up, helper, dns, history>>

UninstallDisables ==
    /\ installed /\ installed' = FALSE
    /\ HelperEnds
    /\ queue' = <<>> /\ call' = "none" /\ tun' = "off"

(* The orphan timer uninstalls when the main application is gone.          *)
OrphanCheck ==
    /\ app = NoApp
    /\ UninstallDisables \/ (UninstallPurges /\ UNCHANGED call)
-----------------------------------------------------------------------------
(* The application.  Its calls into linux/mod.rs are serialised.           *)

Launch ==
    /\ app = NoApp /\ Apps \ launched # {}
    /\ app' = CHOOSE a \in Apps : a \notin launched
    /\ launched' = launched \cup {app'} /\ tun' = "unknown"
    /\ UNCHANGED <<call, installed, up, helper, system, history>>

(* Sockets of a client that left are closed: nobody hears the answer.      *)
Closed(r) == [r EXCEPT !.open = FALSE]
HangUp ==
    /\ queue' = [i \in DOMAIN queue |-> Closed(queue[i])]
    /\ request' = IF request = NoRequest THEN NoRequest ELSE Closed(request)

Exit ==
    /\ app # NoApp /\ app' = NoApp /\ call' = "none"
    /\ HangUp
    /\ UNCHANGED <<launched, tun, installed, up, pc, hand, slot, locked, system, history>>

Post(kind, original) ==
    queue' = Append(queue, [kind |-> kind, caller |-> app,
                            original |-> original, open |-> TRUE])

(* capture_original_dns: NetworkManager knows the user's servers;          *)
(* resolvectl shows those in force; or neither can be read.                *)
Captured == {"own", dns, "none"}

StartTun ==
    /\ app # NoApp /\ call = "none" /\ installed /\ Len(queue) < MaxQueue
    /\ \E original \in Captured : Post("start", original)
    /\ call' = "start" /\ tun' = "unknown"
    /\ UNCHANGED <<app, launched, installed, up, request, pc, hand, slot, locked, system, history>>

StopTun ==
    /\ app # NoApp /\ call = "none" /\ installed /\ Len(queue) < MaxQueue
    /\ Post("status", "none")
    /\ call' = "status"
    /\ UNCHANGED <<app, launched, tun, installed, up, request, pc, hand, slot, locked, system, history>>

(* No answer in time.  A start or stop fails; stop_tun without a status    *)
(* still sends the stop.                                                   *)
TimeOut ==
    /\ app # NoApp /\ call \in {"start", "stop"}
    /\ call' = "none" /\ tun' = "unknown"
    /\ HangUp
    /\ UNCHANGED <<app, launched, installed, up, pc, hand, slot, locked, system, history>>

StatusTimesOut ==
    /\ app # NoApp /\ call = "status" /\ Len(queue) < MaxQueue
    /\ call' = "stop"
    /\ queue' = Append([i \in DOMAIN queue |-> Closed(queue[i])],
                       [kind |-> "stop", caller |-> app, original |-> "none", open |-> TRUE])
    /\ request' = IF request = NoRequest THEN NoRequest ELSE Closed(request)
    /\ UNCHANGED <<app, launched, tun, installed, up, pc, hand, slot, locked, system, history>>

(* engine_uninstall_helper stops the tunnel, then runs `uninstall`.        *)
BeginUninstall ==
    /\ app # NoApp /\ call = "none" /\ tun = "off" /\ faults < MaxFaults
    /\ UninstallPurges
    /\ call' = "uninstall"

EndUninstall == call = "uninstall" /\ UninstallDisables

(* install-units, by the package or the install script.                    *)
InstallUnits ==
    /\ ~installed /\ installed' = TRUE
    /\ UNCHANGED <<client, up, helper, system, history>>
-----------------------------------------------------------------------------
Application == StartTun \/ StopTun \/ TimeOut \/ StatusTimesOut \/ Exit

Environment ==
    \/ \E c \in Cores : CoreCrashes(c) \/ CoreTerminates(c)
    \/ HelperCrashes \/ HelperStarts \/ OrphanCheck
    \/ BeginUninstall \/ EndUninstall \/ InstallUnits \/ Launch

Next == Server \/ Watchdog \/ Application \/ Environment

Fairness ==
    /\ WF_vars(Server) /\ WF_vars(Watchdog) /\ WF_vars(HelperStarts)

Spec     == Init /\ [][Next]_vars
FairSpec == Spec /\ Fairness
-----------------------------------------------------------------------------
(* Properties.                                                             *)

(* A running core is the core of the session in the slot, of a session a   *)
(* thread builds or tears down, or of a helper that has ended.             *)
Held(c) ==
    \/ slot # NoSession /\ slot.core = c
    \/ \E t \in Threads : hand[t] # NoSession /\ hand[t].core = c
NoStrayCore == \A c \in Cores : Running(c) => Held(c) \/ c \in orphans

(* While the physical interface asks the tunnel's server, somebody will    *)
(* put the user's servers back: the session in the slot, the start that is *)
(* about to store it, or the teardown that has not come to restore_dns.    *)
(* The exceptions are named: a helper that ended or a start that captured  *)
(* the tunnel's own server as the user's (`lost`), and a restore_dns whose *)
(* resolvectl calls failed (`unrestored`).                                 *)
Restores(t) == hand[t] # NoSession /\ pc[t] \in {"store", "kill", "restore"}
OverrideHasAKeeper ==
    dns = "tunnel" =>
        lost \/ unrestored \/ slot # NoSession \/ \E t \in Threads : Restores(t)

(* When stop_tun returns Ok, by the answer of a stop or because the status *)
(* was idle, no core runs and no override is in force, except what the     *)
(* watchdog is tearing down at that moment, what an ended helper left, and *)
(* an override that restore_dns failed to take off: stop answers Ok then.  *)
StopReturns == call \in {"status", "stop"} /\ call' = "none" /\ tun' = "off"
StoppedMeansNoCore ==
    [][StopReturns =>
         /\ \A c \in Cores :
               Running(c) => \/ c \in orphans
                             \/ /\ hand["watchdog"] # NoSession
                                /\ hand["watchdog"].core = c
         /\ dns = "tunnel" => lost \/ unrestored \/ Restores("watchdog")]_vars

(* The tunnel of an application that is gone does not outlive it: the      *)
(* watchdog ends its cores and takes its DNS servers off, or has failed to. *)
TunnelIsGone ==
    /\ slot = NoSession /\ \A c \in Cores : Running(c) => c \in orphans
    /\ dns = "own" \/ lost \/ unrestored
DeadCallerLeavesNothing == app = NoApp ~> (app # NoApp \/ TunnelIsGone)

(* docs/capture-modes.md:62 says of all three platforms that a stop puts   *)
(* the DNS servers back before it kills the core.  teardown_session kills  *)
(* first, so names are asked of a tunnel that has no core any more.        *)
StopRestoresFirst ==
    [][Kill("server") /\ request.kind = "stop" /\ Running(hand["server"].core)
         => dns = "own"]_vars
=============================================================================
