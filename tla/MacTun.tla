------------------------------- MODULE MacTun -------------------------------
(***************************************************************************)
(* TUN on macOS: the privileged XPC helper (macos-helper/Sources/main.m),  *)
(* its client in the application (macos/helper.m, mod.rs, tun_ops.rs) and  *)
(* the DNS watcher (dns_watcher.rs).                                       *)
(*                                                                         *)
(* The helper runs every call on its connection's queue.  The application  *)
(* makes one call at a time, but a call it gave up goes on in the helper,  *)
(* beside those of the next connection; a serial queue orders the accesses *)
(* to the session.  The DNS servers are overridden by the application: by  *)
(* the caller of start_tun and by the watcher, which share one slot.       *)
(***************************************************************************)
EXTENDS Naturals, Sequences, FiniteSets

CONSTANTS
    Cores, NoCore,
    Services, NoService,    \* network services (Wi-Fi, Ethernet, ...)
    NoThread,
    MaxChanges,             \* bound on changes of the network from outside
    MaxFaults               \* bound on failures, timeouts and crashes

ASSUME ValuesAssumption ==
    NoCore \notin Cores /\ NoService \notin Services /\ NoThread \notin {"caller", "watcher"}
ASSUME BoundsAssumption == MaxChanges \in Nat /\ MaxFaults \in Nat

VARIABLES
    (* the application *)
    up,         \* does it run?
    pc,         \* where each thread is
    hand,       \* what a thread read before it took the slot's lock
    slot,       \* ACTIVE_OVERRIDE: the service that is overridden
    lock,       \* who holds the lock of the slot across a write
    watching,   \* the watcher was started
    notified,   \* and has a change to look at
    tried,      \* the call is made for the second time
    tun,        \* how the last call left the tunnel: "off", "on", "unknown"
    (* the helper *)
    installed,  \* "no", "old" or "current"
    jobs,       \* its calls, in the order they arrived
    active, owns,
    (* the system *)
    core, primary, dns, scoped,
    (* history *)
    lost,       \* services whose override nobody knows of
    orphans,    \* cores that outlived the helper that spawned them
    leaked,     \* so did the scoped route
    raced,      \* a stop drained the slot under a watcher at work, or not at all
    changes, faults

app     == <<up, pc, hand, slot, lock, watching, notified, tried, tun>>
helper  == <<installed, jobs, active, owns>>
history == <<lost, orphans, leaked, raced, changes, faults>>
vars    == <<up, pc, hand, slot, lock, watching, notified, tried, tun, installed,
             jobs, active, owns, core, primary, dns, scoped, lost, orphans,
             leaked, raced, changes, faults>>

Threads == {"caller", "watcher"}
Servers == {"own", "empty", "gateway", "both"}  \* both: the user's and the gateway
Running(c) == core[c] = "running"
Nothing == [service |-> NoService, prev |-> NoService, servers |-> "empty"]

TypeOK ==
    /\ up \in BOOLEAN /\ watching \in BOOLEAN /\ notified \in BOOLEAN /\ tried \in BOOLEAN
    /\ pc \in [Threads -> {"idle", "install", "start", "ready", "abort", "detect",
                           "decide", "restore", "write", "record", "strip", "stop",
                           "routes", "purge", "uninstall", "shell"}]
    /\ hand \in [Threads -> [service : Services \cup {NoService},
                             prev : Services \cup {NoService}, servers : Servers]]
    /\ slot \in Services \cup {NoService} /\ lock \in Threads \cup {NoThread}
    /\ tun \in {"off", "on", "unknown"} /\ installed \in {"no", "old", "current"}
    /\ jobs \in Seq([op : {"start", "stop", "routes", "uninstall"}, core : Cores \cup {NoCore},
                     at : {"queued", "spawn", "install", "reap", "clear", "reply"},
                     owns : BOOLEAN, ok : BOOLEAN, open : BOOLEAN])
    /\ active \in Cores \cup {NoCore} /\ owns \in BOOLEAN
    /\ core \in [Cores -> {"unborn", "running", "dead"}]
    /\ primary \in Services \cup {NoService} /\ dns \in [Services -> Servers]
    /\ scoped \in BOOLEAN /\ leaked \in BOOLEAN /\ raced \in BOOLEAN
    /\ lost \subseteq Services /\ orphans \subseteq Cores
    /\ changes \in Nat /\ faults \in Nat

Init ==
    /\ up = TRUE /\ pc = [t \in Threads |-> "idle"] /\ hand = [t \in Threads |-> Nothing]
    /\ slot = NoService /\ lock = NoThread
    /\ watching = FALSE /\ notified = FALSE /\ tried = FALSE /\ tun = "off"
    /\ installed \in {"no", "old", "current"}
    /\ jobs = <<>> /\ active = NoCore /\ owns = FALSE
    /\ core = [c \in Cores |-> "unborn"] /\ primary \in Services
    /\ dns = [s \in Services |-> "own"] /\ scoped = FALSE
    /\ lost = {} /\ orphans = {} /\ leaked = FALSE /\ raced = FALSE /\ changes = 0 /\ faults = 0

Fault == faults < MaxFaults /\ faults' = faults + 1
GoTo(t, place) == pc' = [pc EXCEPT ![t] = place]
-----------------------------------------------------------------------------
(* The helper.  Job i may run when the calls before it were given up:      *)
(* their connection is gone.                                               *)
At(i, op, place) ==
    /\ jobs[i].op = op /\ jobs[i].at = place
    /\ \A j \in 1..(i - 1) : ~jobs[j].open
MoveTo(i, place) == jobs' = [jobs EXCEPT ![i].at = place]
Reply(i, ok) == jobs' = [jobs EXCEPT ![i].at = "reply", ![i].ok = ok]

(* The serial queue: a start occupies it until it replies, and what waits  *)
(* for it is served in the order of arrival.                               *)
QueueIsFree == \A j \in DOMAIN jobs : jobs[j].at \notin {"spawn", "install"}
OnQueue(i)  == QueueIsFree /\ \A j \in 1..(i - 1) : jobs[j].at # "queued"

ClearActive ==
    /\ active' = NoCore /\ owns' = FALSE
    /\ scoped' = (scoped /\ ~owns)
Die(c) == [core EXCEPT ![c] = IF @ = "running" THEN "dead" ELSE @]

(* startSingBox, on the queue: kill the core before, if there is one,      *)
StartKills(i) ==
    /\ At(i, "start", "queued") /\ OnQueue(i)
    /\ IF active = NoCore THEN UNCHANGED <<active, owns, scoped, core>>
       ELSE ClearActive /\ core' = Die(active)
    /\ MoveTo(i, "spawn")
    /\ UNCHANGED <<app, installed, primary, dns, history>>

(* spawn (the log or posix_spawn may fail) and add the scoped route, which *)
(* is owned unless it was there.                                           *)
SpawnFails(i) ==
    /\ At(i, "start", "spawn")
    /\ Reply(i, FALSE)
    /\ UNCHANGED <<app, installed, active, owns, core, primary, dns, scoped, history>>

Spawn(i) ==
    /\ At(i, "start", "spawn")
    /\ \E c \in Cores : core[c] = "unborn"
    /\ LET c == CHOOSE c \in Cores : core[c] = "unborn"
       IN  /\ core' = [core EXCEPT ![c] = "running"]
           /\ jobs' = [jobs EXCEPT ![i].at = "install", ![i].core = c, ![i].owns = ~scoped]
    /\ scoped' = TRUE
    /\ UNCHANGED <<app, installed, active, owns, primary, dns, history>>

(* The interface or a route does not come up: undo and reap,               *)
RoutesFail(i) ==
    /\ At(i, "start", "install")
    /\ core' = Die(jobs[i].core)
    /\ scoped' = (scoped /\ ~jobs[i].owns)
    /\ Reply(i, FALSE)
    /\ UNCHANGED <<app, installed, active, owns, primary, dns, history>>

(* or the session is stored.                                               *)
RoutesUp(i) ==
    /\ At(i, "start", "install")
    /\ active' = jobs[i].core /\ owns' = jobs[i].owns
    /\ Reply(i, TRUE)
    /\ UNCHANGED <<app, installed, core, primary, dns, scoped, history>>

(* stopSingBox and uninstallSelf read the pid on the queue,                *)
Stops == {"stop", "uninstall"}
ReadTarget(i) ==
    /\ \E op \in Stops : At(i, op, "queued")
    /\ OnQueue(i)
    /\ jobs' = [jobs EXCEPT ![i].core = active,
                            ![i].at = IF active = NoCore /\ jobs[i].op = "stop"
                                      THEN "reply" ELSE "reap",
                            ![i].ok = TRUE]
    /\ UNCHANGED <<app, installed, active, owns, core, primary, dns, scoped, history>>

(* end that process off the queue,                                         *)
Reap(i) ==
    /\ \E op \in Stops : At(i, op, "reap")
    /\ core' = IF jobs[i].core = NoCore THEN core ELSE Die(jobs[i].core)
    /\ MoveTo(i, "clear")
    /\ UNCHANGED <<app, installed, active, owns, primary, dns, scoped, history>>

(* Mutation: whatever session is active is cleared.                        *)
ClearBlindly(i) ==
    /\ At(i, "stop", "clear") /\ QueueIsFree
    /\ ClearActive
    /\ Reply(i, TRUE)
    /\ UNCHANGED <<app, installed, core, primary, dns, history>>

(* and clear the session, a stop only when it is still the one it read.    *)
(* The sweep of ports 2345 and 9191 finds nobody: the cores listen on the  *)
(* ports of the configuration, 10808 and 10809.                            *)
Clear(i) ==
    /\ At(i, "stop", "clear") /\ QueueIsFree
    /\ IF active = jobs[i].core THEN ClearActive ELSE UNCHANGED <<active, owns, scoped>>
    /\ Reply(i, TRUE)
    /\ UNCHANGED <<app, installed, core, primary, dns, history>>

(* removeTunRoutes drops the scoped route too.                             *)
RemoveRoutes(i) ==
    /\ At(i, "routes", "queued") /\ OnQueue(i)
    /\ scoped' = (scoped /\ ~owns) /\ owns' = FALSE
    /\ Reply(i, TRUE)
    /\ UNCHANGED <<app, installed, active, core, primary, dns, history>>

(* The exit handler of a core that ended takes the session off the queue.  *)
ExitHandler ==
    /\ active # NoCore /\ core[active] = "dead" /\ QueueIsFree
    /\ ClearActive
    /\ UNCHANGED <<app, installed, jobs, core, primary, dns, history>>

(* The helper's process is gone, with all it knew.                         *)
HelperEnds ==
    /\ active' = NoCore /\ owns' = FALSE
    /\ orphans' = orphans \cup {c \in Cores : core'[c] = "running"}
    /\ leaked' = scoped'
    /\ UNCHANGED <<primary, dns, lost, raced, changes>>

(* uninstallSelf clears, replies and exits; the child removes the files.   *)
UninstallSelf(i) ==
    /\ At(i, "uninstall", "clear") /\ QueueIsFree
    /\ scoped' = (scoped /\ ~owns) /\ core' = core
    /\ HelperEnds
    /\ installed' = "no" /\ jobs' = <<>>
    /\ IF jobs[i].open THEN GoTo("caller", "idle") ELSE UNCHANGED pc
    /\ UNCHANGED <<up, hand, slot, lock, watching, notified, tried, tun, faults>>

HelperStep ==
    /\ installed # "no"
    /\ \/ \E i \in DOMAIN jobs :
             \/ StartKills(i) \/ SpawnFails(i) \/ Spawn(i) \/ RoutesFail(i) \/ RoutesUp(i)
             \/ ReadTarget(i) \/ Reap(i) \/ Clear(i) \/ RemoveRoutes(i) \/ UninstallSelf(i)
       \/ ExitHandler
-----------------------------------------------------------------------------
(* The client.                                                             *)

Call(op, before) ==
    jobs' = Append(before, [op |-> op, at |-> "queued", core |-> NoCore,
                            owns |-> FALSE, ok |-> FALSE, open |-> TRUE])
GivenUp == [i \in DOMAIN jobs |-> [jobs[i] EXCEPT !.open = FALSE]]
Calling == pc["caller"] \in {"start", "abort", "stop", "routes", "purge", "uninstall"}

(* What follows a call that succeeded or failed: `before` are the jobs     *)
(* the helper keeps.  A start that came up is awaited; a stop goes on to   *)
(* the routes, whose result is ignored, as is that of the stop before an   *)
(* uninstallation and of the stop after a core that was not ready.         *)
AfterCall(ok, before) ==
    LET place == pc["caller"] IN
    /\ CASE place = "uninstall" -> GoTo("caller", "shell") /\ jobs' = before /\ tun' = tun
         [] place = "start" /\ ok -> GoTo("caller", "ready") /\ jobs' = before /\ tun' = tun
         [] place = "stop" /\ ok  -> GoTo("caller", "routes") /\ Call("routes", before)
                                     /\ tun' = tun
         [] place = "purge"       -> GoTo("caller", "uninstall") /\ Call("uninstall", before)
                                     /\ tun' = tun
         [] place = "routes"      -> GoTo("caller", "idle") /\ jobs' = before /\ tun' = "off"
         [] OTHER                 -> GoTo("caller", "idle") /\ jobs' = before
                                     /\ tun' = "unknown"
    /\ tried' = FALSE

Returned(i) == jobs[i].at = "reply"

(* The reply of a call; that of a call that was given up goes nowhere.     *)
Return(i) ==
    /\ Returned(i)
    /\ IF jobs[i].open
       THEN AfterCall(jobs[i].ok, SubSeq(jobs, 1, i - 1) \o SubSeq(jobs, i + 1, Len(jobs)))
       ELSE /\ jobs' = SubSeq(jobs, 1, i - 1) \o SubSeq(jobs, i + 1, Len(jobs))
            /\ UNCHANGED <<pc, tun, tried>>
    /\ UNCHANGED <<up, hand, slot, lock, watching, notified, installed, active, owns,
                   core, primary, dns, scoped, history>>

(* No reply in 10 seconds (30 for a start): the connection is dropped.     *)
TimeOut ==
    /\ Calling /\ Fault
    /\ AfterCall(FALSE, GivenUp)
    /\ UNCHANGED <<up, hand, slot, lock, watching, notified, installed, active, owns, core,
                   primary, dns, scoped, lost, orphans, leaked, raced, changes>>

(* An XPC error, but for an uninstallation, is answered by one retry.      *)
Interrupted(before) ==
    IF ~Calling THEN jobs' = before /\ UNCHANGED <<pc, tun, tried>>
    ELSE IF ~tried /\ pc["caller"] # "uninstall"
         THEN /\ tried' = TRUE /\ UNCHANGED <<pc, tun>>
              /\ Call(CASE pc["caller"] \in {"abort", "purge"} -> "stop"
                        [] OTHER -> pc["caller"], before)
         ELSE AfterCall(FALSE, before)

(* Without a helper every call and its retry end with an error.            *)
Unreachable ==
    /\ installed = "no" /\ Calling
    /\ AfterCall(FALSE, <<>>)
    /\ UNCHANGED <<up, hand, slot, lock, watching, notified, installed, active, owns, core,
                   primary, dns, scoped, history>>

(* The helper crashes; launchd starts it again for the next call.          *)
HelperCrashes ==
    /\ installed # "no" /\ Fault
    /\ UNCHANGED <<core, scoped>>
    /\ HelperEnds
    /\ Interrupted(<<>>)
    /\ UNCHANGED <<up, hand, slot, lock, watching, notified, installed>>
-----------------------------------------------------------------------------
(* The DNS override.                                                       *)

Strip(servers) == CASE servers = "gateway" -> "empty" [] servers = "both" -> "own"
                    [] OTHER -> servers
Unlocked == lock = NoThread
Overridden(s) == dns[s] \in {"gateway", "both"}

(* set_dns_servers: the helper runs networksetup and the watcher learns    *)
(* of it; or it fails, and the servers may be set nevertheless when only   *)
(* the reply was late.                                                     *)
SetDns(s, servers) ==
    /\ installed # "no"
    /\ dns' = [dns EXCEPT ![s] = servers]
    /\ notified' = (notified \/ (watching /\ dns' # dns))
    /\ UNCHANGED <<lost, faults>>
SetDnsFails(s, servers) ==
    /\ \/ Fault /\ UNCHANGED <<dns, notified>>
       \/ installed = "no" /\ UNCHANGED <<dns, notified, faults>>
       \/ /\ Fault /\ installed # "no"
          /\ dns' = [dns EXCEPT ![s] = servers]
          /\ notified' = (notified \/ (watching /\ dns' # dns))
    /\ lost' = lost \cup {x \in {s} : dns'[x] \in {"gateway", "both"}}

(* A write of the watcher that timed out drops the shared connection under *)
(* the caller: its call is retried beside the one it lost.                 *)
ConnectionDrops ==
    /\ pc["watcher"] \in {"restore", "write"} /\ Calling /\ Fault
    /\ Interrupted(GivenUp)
    /\ UNCHANGED <<up, hand, slot, lock, watching, notified, installed, active, owns, core,
                   primary, dns, scoped, lost, orphans, leaked, raced, changes>>

(* reapply_on_active_primary is over.  start_tun goes on without an        *)
(* override and starts the watcher.                                        *)
Done(t) ==
    /\ GoTo(t, "idle")
    /\ hand' = [hand EXCEPT ![t] = Nothing]
    /\ IF t = "caller" THEN watching' = TRUE /\ tun' = "on" ELSE UNCHANGED <<watching, tun>>

(* It looks for the active service and reads its servers without the lock, *)
Detect(t) ==
    /\ pc[t] = "detect" /\ Unlocked
    /\ \/ /\ primary # NoService
          /\ hand' = [hand EXCEPT ![t] = [Nothing EXCEPT !.service = primary,
                                                         !.servers = dns[primary]]]
          /\ GoTo(t, "decide") /\ UNCHANGED <<watching, tun>>
       \/ primary = NoService /\ Done(t)
    /\ UNCHANGED <<up, slot, lock, notified, tried, helper, core, primary, dns, scoped, history>>

(* then takes it: nothing to do; another write to undo; a switch, where    *)
(* the servers of the old service are read; or a fresh override, made with *)
(* the lock held.                                                          *)
Decide(t) ==
    /\ pc[t] = "decide" /\ Unlocked
    /\ \/ /\ slot = hand[t].service /\ hand[t].servers = "gateway"
          /\ Done(t) /\ UNCHANGED lock
       \/ /\ slot = hand[t].service /\ hand[t].servers # "gateway"
          /\ GoTo(t, "write") /\ UNCHANGED <<hand, lock, watching, tun>>
       \/ /\ slot # NoService /\ slot # hand[t].service
          /\ hand' = [hand EXCEPT ![t].prev = slot, ![t].servers = dns[slot]]
          /\ GoTo(t, "restore") /\ UNCHANGED <<lock, watching, tun>>
       \/ /\ slot = NoService /\ lock' = t
          /\ GoTo(t, "write") /\ UNCHANGED <<hand, watching, tun>>
    /\ UNCHANGED <<up, slot, notified, tried, helper, core, primary, dns, scoped, history>>

(* Mutation: the old service keeps the gateway.                            *)
RestoreNothing(t) ==
    /\ pc[t] = "restore"
    /\ GoTo(t, "write")
    /\ UNCHANGED <<up, hand, slot, lock, watching, notified, tried, tun, helper, core,
                   primary, dns, scoped, history>>

(* The old service loses the gateway; a failure is logged.                 *)
Restore(t) ==
    /\ pc[t] = "restore"
    /\ LET servers == Strip(hand[t].servers)
       IN  SetDns(hand[t].prev, servers) \/ SetDnsFails(hand[t].prev, servers)
    /\ GoTo(t, "write")
    /\ UNCHANGED <<up, hand, slot, lock, watching, tried, tun, helper, core, primary,
                   scoped, orphans, leaked, raced, changes>>

(* The active service gets the gateway alone.  A fresh override is in the  *)
(* slot when the lock is released; after a switch it is taken again.       *)
Write(t) ==
    /\ pc[t] = "write"
    /\ SetDns(hand[t].service, "gateway")
    /\ IF lock = t THEN slot' = hand[t].service /\ lock' = NoThread /\ Done(t)
       ELSE /\ UNCHANGED <<slot, lock>>
            /\ IF hand[t].prev = NoService THEN Done(t)
               ELSE GoTo(t, "record") /\ UNCHANGED <<hand, watching, tun>>
    /\ UNCHANGED <<up, tried, helper, core, primary, scoped, orphans, leaked, raced, changes>>

WriteFails(t) ==
    /\ pc[t] = "write"
    /\ SetDnsFails(hand[t].service, "gateway")
    /\ lock' = IF lock = t THEN NoThread ELSE lock
    /\ Done(t)
    /\ UNCHANGED <<up, slot, tried, helper, core, primary, scoped, orphans, leaked, raced, changes>>

Record(t) ==
    /\ pc[t] = "record" /\ Unlocked
    /\ slot' = hand[t].service
    /\ Done(t)
    /\ UNCHANGED <<up, lock, notified, tried, helper, core, primary, dns, scoped, history>>

Reapply(t) ==
    \/ Detect(t) \/ Decide(t) \/ Restore(t) \/ Write(t) \/ WriteFails(t) \/ Record(t)

(* A change of the dynamic store wakes the watcher; it has nothing to do   *)
(* when the slot is empty.                                                 *)
Wake ==
    /\ pc["watcher"] = "idle" /\ notified /\ Unlocked
    /\ notified' = FALSE
    /\ IF slot = NoService THEN UNCHANGED pc ELSE GoTo("watcher", "detect")
    /\ UNCHANGED <<up, hand, slot, lock, watching, tried, tun, helper, core, primary, dns,
                   scoped, history>>
-----------------------------------------------------------------------------
(* The caller: start_tun, stop_tun and uninstall_helper, one at a time.    *)

(* start_with_node starts only after a cleanup that succeeded.             *)
StartTun ==
    /\ up /\ pc["caller"] = "idle" /\ tun = "off"
    /\ GoTo("caller", "install") /\ tun' = "unknown"
    /\ UNCHANGED <<up, hand, slot, lock, watching, notified, tried, helper, core, primary,
                   dns, scoped, history>>

(* ensure_helper_installed, or what is prepared after it, fails: nobody    *)
(* authorises it, there is no default interface.                           *)
PrepareFails ==
    /\ pc["caller"] = "install"
    /\ GoTo("caller", "idle")
    /\ UNCHANGED <<up, hand, slot, lock, watching, notified, tried, tun, helper, core,
                   primary, dns, scoped, history>>

(* SMJobBless replaces a helper that is missing or another version.        *)
Install ==
    /\ pc["caller"] = "install" /\ installed # "current"
    /\ UNCHANGED <<core, scoped>>
    /\ HelperEnds
    /\ installed' = "current" /\ jobs' = <<>>
    /\ UNCHANGED <<app, faults>>

StartCore ==
    /\ pc["caller"] = "install" /\ installed = "current" /\ primary # NoService
    /\ GoTo("caller", "start") /\ Call("start", jobs)
    /\ UNCHANGED <<up, hand, slot, lock, watching, notified, tried, tun, installed, active,
                   owns, core, primary, dns, scoped, history>>

(* wait_api only asks whether the port answers, whoever listens there.     *)
ApiReady ==
    /\ pc["caller"] = "ready" /\ \E c \in Cores : Running(c)
    /\ GoTo("caller", "detect")
    /\ UNCHANGED <<up, hand, slot, lock, watching, notified, tried, tun, helper, core,
                   primary, dns, scoped, history>>

ApiNotReady ==
    /\ pc["caller"] = "ready"
    /\ GoTo("caller", "abort") /\ Call("stop", jobs)
    /\ UNCHANGED <<up, hand, slot, lock, watching, notified, tried, tun, installed, active,
                   owns, core, primary, dns, scoped, history>>

(* stop_tun_sync drains the slot and reads the servers of that service;    *)
StopTun ==
    /\ up /\ pc["caller"] = "idle" /\ installed # "no" /\ Unlocked
    /\ slot' = NoService /\ tun' = "unknown"
    /\ raced' = (raced \/ pc["watcher"] # "idle")
    /\ IF slot = NoService
       THEN GoTo("caller", "stop") /\ Call("stop", jobs) /\ UNCHANGED hand
       ELSE /\ hand' = [hand EXCEPT !["caller"] = [service |-> slot, prev |-> NoService,
                                                   servers |-> dns[slot]]]
            /\ GoTo("caller", "strip") /\ UNCHANGED jobs
    /\ UNCHANGED <<up, lock, watching, notified, tried, installed, active, owns, core,
                   primary, dns, scoped, lost, orphans, leaked, changes, faults>>

(* cleanup_runtime skips it when no helper is installed.                   *)
SkipStop ==
    /\ up /\ pc["caller"] = "idle" /\ installed = "no"
    /\ tun' = "off"
    /\ raced' = (raced \/ slot # NoService)
    /\ UNCHANGED <<up, pc, hand, slot, lock, watching, notified, tried, helper, core, primary,
                   dns, scoped, lost, orphans, leaked, changes, faults>>

(* it takes the gateway off them, which may fail, and stops the core.      *)
StripGateway ==
    /\ pc["caller"] = "strip"
    /\ LET servers == Strip(hand["caller"].servers)
       IN  \/ SetDns(hand["caller"].service, servers)
           \/ SetDnsFails(hand["caller"].service, servers)
    /\ hand' = [hand EXCEPT !["caller"] = Nothing]
    /\ GoTo("caller", "stop") /\ Call("stop", jobs)
    /\ UNCHANGED <<up, slot, lock, watching, tried, tun, installed, active, owns, core,
                   primary, scoped, orphans, leaked, raced, changes>>

(* engine_uninstall_helper stops the tunnel before it uninstalls.          *)
UninstallHelper ==
    /\ up /\ pc["caller"] = "idle" /\ tun = "off" /\ installed # "no"
    /\ GoTo("caller", "purge") /\ Call("stop", jobs)
    /\ UNCHANGED <<up, hand, slot, lock, watching, notified, tried, tun, installed, active,
                   owns, core, primary, dns, scoped, history>>

(* An XPC uninstallation that failed is done by an administrator's shell,  *)
(* which boots the helper out, unless the user refuses.                    *)
ShellRemoves ==
    /\ pc["caller"] = "shell"
    /\ UNCHANGED <<core, scoped>>
    /\ HelperEnds
    /\ installed' = "no" /\ jobs' = <<>>
    /\ GoTo("caller", "idle")
    /\ UNCHANGED <<up, hand, slot, lock, watching, notified, tried, tun, faults>>

ShellFails ==
    /\ pc["caller"] = "shell"
    /\ GoTo("caller", "idle")
    /\ UNCHANGED <<up, hand, slot, lock, watching, notified, tried, tun, helper, core, primary,
                   dns, scoped, history>>

Caller ==
    \/ StartTun \/ PrepareFails \/ Install \/ StartCore \/ ApiReady \/ ApiNotReady
    \/ StopTun \/ SkipStop \/ StripGateway \/ UninstallHelper \/ ShellRemoves \/ ShellFails \/ Unreachable
    \/ \E i \in DOMAIN jobs : Return(i)
-----------------------------------------------------------------------------
(* The environment.                                                        *)

CoreExits(c) ==
    /\ Running(c)
    /\ core' = Die(c)
    /\ UNCHANGED <<app, helper, primary, dns, scoped, history>>

(* Another service becomes primary, or none; the user or another program   *)
(* sets the servers of a service.                                          *)
NetworkChanges ==
    /\ changes < MaxChanges /\ changes' = changes + 1
    /\ \/ primary' \in (Services \cup {NoService}) \ {primary} /\ UNCHANGED dns
       \/ \E s \in Services :
             /\ dns' = [dns EXCEPT ![s] = IF @ = "gateway" THEN "both" ELSE "own"]
             /\ dns' # dns
          /\ UNCHANGED primary
    /\ notified' = watching
    /\ UNCHANGED <<up, pc, hand, slot, lock, watching, tried, tun, helper, core, scoped,
                   lost, orphans, leaked, raced, faults>>

(* The application is killed: its slot is gone, and the helper does not    *)
(* watch it.  It may come back.                                            *)
AppCrashes ==
    /\ up /\ up' = FALSE /\ Fault
    /\ pc' = [t \in Threads |-> "idle"] /\ hand' = [t \in Threads |-> Nothing]
    /\ slot' = NoService /\ lock' = NoThread /\ tried' = FALSE /\ tun' = "unknown"
    /\ watching' = FALSE /\ notified' = FALSE
    /\ jobs' = GivenUp
    /\ lost' = lost \cup {s \in Services : Overridden(s)}
    /\ UNCHANGED <<installed, active, owns, core, primary, dns, scoped, orphans, leaked, raced, changes>>

Launch ==
    /\ ~up /\ up' = TRUE
    /\ UNCHANGED <<pc, hand, slot, lock, watching, notified, tried, tun, helper, core,
                   primary, dns, scoped, history>>

(* Without the application the helper uninstalls itself, and leaves the    *)
(* core.                                                                   *)
OrphanAppCleanup ==
    /\ ~up /\ installed # "no"
    /\ installed' = "no" /\ jobs' = <<>>
    /\ UNCHANGED <<core, scoped>>
    /\ HelperEnds
    /\ UNCHANGED <<app, faults>>

Environment ==
    \/ \E c \in Cores : CoreExits(c)
    \/ NetworkChanges \/ AppCrashes \/ Launch \/ OrphanAppCleanup
    \/ HelperCrashes \/ TimeOut \/ ConnectionDrops

Next == HelperStep \/ Caller \/ Wake \/ (\E t \in Threads : Reapply(t)) \/ Environment
Spec == Init /\ [][Next]_vars
-----------------------------------------------------------------------------
(* Properties.                                                             *)

(* A service whose servers are the gateway's is the one in the slot, or a  *)
(* thread is about to clear it or to put it there: the next stop gives its *)
(* servers back.  Nobody knows of it only when a write failed or the       *)
(* application was killed.                                                 *)
Tracked(s) ==
    \/ slot = s
    \/ \E t \in Threads :
          \/ pc[t] = "record" /\ hand[t].service = s
          \/ pc[t] = "restore" /\ hand[t].prev = s
          \/ pc[t] = "strip" /\ hand[t].service = s
OverrideHasAKeeper == \A s \in Services : Overridden(s) => Tracked(s) \/ s \in lost \/ raced

(* A stop ends what was started before it and nothing that was started     *)
(* after: when stop_tun returns Ok, whatever calls were given up before,   *)
(* no core runs and no scoped route is left, but for those of a helper     *)
(* that ended; and while the tunnel is up no such call ends its core.      *)
Stopped == tun # "off" /\ tun' = "off"
StopIsExact ==
    [][/\ Stopped => /\ \A c \in Cores : core'[c] = "running" => c \in orphans'
                     /\ scoped' => leaked'
       /\ tun = "on" /\ pc["caller"] = "idle" /\ HelperStep
             => \A c \in Cores : c = active => core'[c] = core[c]]_vars
=============================================================================
