---------------------------- MODULE SubsTraffic ----------------------------
(***************************************************************************)
(* Traffic accounting and the subscription cache: `TrafficAccounting` and  *)
(* its sampler, reporter and final flush (commands/engine.rs), `SubsState` *)
(* (state.rs) and subs_sync (commands/subs.rs).                            *)
(*                                                                         *)
(* The sidecar counts bytes from zero in every process.  The sampler turns *)
(* its counter into pending usage, the reporter and every cleanup send     *)
(* pending usage to the server, and a sync fetches the server's totals.    *)
(* The first three hold the engine gate; reports and syncs hold the        *)
(* operation gate.  Bytes are counted in one direction: upload and download*)
(* are kept and treated alike.                                             *)
(***************************************************************************)
EXTENDS Naturals

CONSTANTS
    Subs,       \* subscription ids
    NoSub,      \* no subscription
    MaxBytes,   \* bound on the bytes that flow in a behaviour for each subscription
    MaxLost     \* bound on the bytes the server counts without the reply arriving

ASSUME SubsAssumption == NoSub \notin Subs
ASSUME BoundAssumption == MaxBytes \in [Subs -> Nat] /\ MaxLost \in Nat

VARIABLES
    up,         \* the application runs
    (* the sidecar *)
    alive,      \* it runs
    counter,    \* its traffic counter
    payer,      \* the subscription whose node it was started for
    (* TrafficAccounting *)
    current,    \* TrafficSession.subscription_id, or NoSub
    observed,   \* TrafficSession.observed
    pending,    \* pending usage of each subscription
    (* the holder of the engine gate *)
    gate, step,
    sampled,    \* the counter it has read
    batch,      \* usage it has taken to report and not reported yet
    subject,    \* the subscription of the request it made
    (* the operation gate and the sync that may hold it *)
    opGate, sync,
    listed,     \* the totals the server listed
    (* SubsState *)
    cached,     \* traffic_used of each subscription, in memory
    saved,      \* traffic_used of each subscription, in subs.json
    (* the server *)
    used,
    (* history *)
    flowed,     \* bytes that went through a sidecar
    lost,       \* bytes that can no longer be reported
    dup         \* bytes counted by the server whose reply did not arrive

core    == <<alive, counter, payer>>
account == <<current, observed, pending>>
holder  == <<gate, step, sampled, batch, subject>>
syncing == <<opGate, sync, listed>>
cache   == <<cached, saved>>
vars    == <<up, alive, counter, payer, current, observed, pending, gate, step,
             sampled, batch, subject, opGate, sync, listed, cached, saved, used,
             flowed, lost, dup>>

Holders == {"free", "sampler", "reporter", "cleanup"}
Steps   == {"idle", "query", "record", "pending", "report", "counted", "finish",
            "stop", "start", "begin"}
Zero    == [s \in Subs |-> 0]
Total   == [Subs -> Nat]

TypeOK ==
    /\ up \in BOOLEAN /\ alive \in BOOLEAN
    /\ counter \in Nat /\ observed \in Nat /\ sampled \in Nat
    /\ payer \in Subs \cup {NoSub} /\ current \in {payer, NoSub}
    /\ pending \in Total /\ listed \in Total
    /\ gate \in Holders /\ step \in Steps
    /\ batch \in Total /\ subject \in Subs \cup {NoSub}
    /\ opGate \in {"free", "flush", "sync"}
    /\ sync \in {"idle", "list", "file", "memory"}
    /\ cached \in Total /\ saved \in Total /\ used \in Total
    /\ flowed \in Total /\ lost \in Total /\ dup \in Total

Init ==
    /\ up = TRUE
    /\ alive = FALSE /\ counter = 0 /\ payer = NoSub
    /\ current = NoSub /\ observed = 0 /\ pending = Zero
    /\ gate = "free" /\ step = "idle" /\ sampled = 0 /\ batch = Zero /\ subject = NoSub
    /\ opGate = "free" /\ sync = "idle" /\ listed = Zero
    /\ cached = Zero /\ saved = Zero /\ used = Zero
    /\ flowed = Zero /\ lost = Zero /\ dup = Zero

-----------------------------------------------------------------------------
(* Building blocks *)

Plus(f, s, n)  == [f EXCEPT ![s] = @ + n]
Minus(f, s, n) == [f EXCEPT ![s] = IF @ > n THEN @ - n ELSE 0]   \* saturating_sub

(* Bytes the current session has not sampled yet. *)
Unsampled(s) ==
    IF current = s \/ (step = "begin" /\ payer = s) THEN counter - observed ELSE 0

(* Bytes the server has counted and acknowledge has not subtracted yet. *)
InFlight(s) == IF step = "counted" /\ s = subject THEN batch[s] ELSE 0

GoTo(next) == step' = next /\ UNCHANGED gate

Release == gate' = "free" /\ step' = "idle"

-----------------------------------------------------------------------------
(* The sidecar *)

(* Bytes pass; before its session begins and after it was finished nobody  *)
(* will ask for them.                                                       *)
Flow ==
    /\ alive /\ flowed[payer] < MaxBytes[payer]
    /\ counter' = counter + 1
    /\ flowed' = Plus(flowed, payer, 1)
    /\ lost' = IF current = NoSub /\ step # "begin" THEN Plus(lost, payer, 1) ELSE lost
    /\ UNCHANGED <<up, alive, payer, account, holder, syncing, cache, used, dup>>

CoreDies ==
    /\ alive
    /\ alive' = FALSE
    /\ UNCHANGED <<up, counter, payer, account, holder, syncing, cache, used, flowed, lost, dup>>

-----------------------------------------------------------------------------
(* Who takes the engine gate *)

(* The sampler and the reporter tick, an operation cleans up what runs. *)
GateIsFree == gate = "free"

TakeGate ==
    /\ up /\ GateIsFree
    /\ \/ alive /\ gate' = "sampler" /\ step' = "query"
       \/ gate' = "reporter" /\ step' = IF alive THEN "query" ELSE "pending"
       \/ gate' = "cleanup" /\ step' = IF alive THEN "query" ELSE "pending"
    /\ UNCHANGED <<up, core, account, sampled, batch, subject, syncing, cache, used,
                   flowed, lost, dup>>

(* After the counters were read, or could not be: the sampler is done, the *)
(* others flush.                                                            *)
Collected == IF gate = "sampler" THEN Release ELSE GoTo("pending")

(* query_outbound_traffic of the current session's outbound. *)
Query ==
    /\ step = "query"
    /\ \/ /\ alive /\ current # NoSub
          /\ sampled' = counter /\ GoTo("record")
       \/ Collected /\ UNCHANGED sampled    \* no session, or the query failed
    /\ UNCHANGED <<up, core, account, batch, subject, syncing, cache, used, flowed, lost, dup>>

(* record_observation: what the counter gained becomes pending. *)
KeepBaseline == observed' = observed        \* mutant: the baseline stays
MoveBaseline == observed' = sampled

Record ==
    /\ step = "record"
    /\ IF current = NoSub THEN UNCHANGED account
       ELSE /\ pending' = Plus(pending, current,
                               IF sampled > observed THEN sampled - observed ELSE 0)
            /\ MoveBaseline
            /\ UNCHANGED current
    /\ sampled' = 0
    /\ Collected
    /\ UNCHANGED <<up, core, batch, subject, syncing, cache, used, flowed, lost, dup>>

-----------------------------------------------------------------------------
(* flush_traffic_usage *)

AfterFlush == IF gate = "reporter" THEN Release ELSE GoTo("finish")

(* The pending usage, and the operation gate if there is any. *)
TakePending ==
    /\ step = "pending"
    /\ IF pending = Zero
       THEN AfterFlush /\ UNCHANGED <<batch, opGate>>
       ELSE /\ opGate = "free" /\ opGate' = "flush"
            /\ batch' = pending
            /\ GoTo("report")
    /\ UNCHANGED <<up, core, account, sampled, subject, sync, listed, cache, used,
                   flowed, lost, dup>>

(* report_usage_with_refresh.  The server does not count a request whose    *)
(* token is expired; the one that follows the refresh is the same request.  *)
Counted(s) ==
    /\ step = "report" /\ batch[s] > 0
    /\ used' = Plus(used, s, batch[s])
    /\ subject' = s
    /\ GoTo("counted")
    /\ UNCHANGED <<up, core, account, sampled, batch, syncing, cache, flowed, lost, dup>>

(* Refused, failed or timed out before the server counted it. *)
NotCounted(s) ==
    /\ step = "report" /\ batch[s] > 0
    /\ batch' = [batch EXCEPT ![s] = 0]
    /\ UNCHANGED <<up, core, account, gate, step, sampled, subject, syncing, cache, used,
                   flowed, lost, dup>>

(* acknowledge. *)
Acknowledged(s) == Minus(pending, s, batch[s])

(* The reply: acknowledge, then update_traffic with the server's total; its *)
(* write of subs.json may fail.                                             *)
Reply ==
    /\ step = "counted"
    /\ pending' = Acknowledged(subject)
    /\ cached' = [cached EXCEPT ![subject] = used[subject]]
    /\ saved' \in {saved, cached'}
    /\ batch' = [batch EXCEPT ![subject] = 0]
    /\ subject' = NoSub
    /\ GoTo("report")
    /\ UNCHANGED <<up, core, current, observed, sampled, syncing, used, flowed, lost, dup>>

(* The reply is lost or late: the usage stays pending and is sent again. *)
ReplyLost ==
    /\ step = "counted" /\ dup[subject] + batch[subject] <= MaxLost
    /\ dup' = Plus(dup, subject, batch[subject])
    /\ batch' = [batch EXCEPT ![subject] = 0]
    /\ subject' = NoSub
    /\ GoTo("report")
    /\ UNCHANGED <<up, core, account, sampled, syncing, cache, used, flowed, lost>>

Flushed ==
    /\ step = "report" /\ batch = Zero
    /\ opGate' = "free"
    /\ AfterFlush
    /\ UNCHANGED <<up, core, account, sampled, batch, subject, sync, listed, cache, used,
                   flowed, lost, dup>>

-----------------------------------------------------------------------------
(* cleanup_runtime after its flush, and the start that may follow *)

(* finish_traffic_session gives up what was not sampled. *)
SessionKept ==                              \* mutant: the session outlives its sidecar
    /\ step = "finish"
    /\ GoTo("stop")
    /\ UNCHANGED <<up, core, account, sampled, batch, subject, syncing, cache, used,
                   flowed, lost, dup>>
FinishSession ==
    /\ step = "finish"
    /\ current' = NoSub /\ observed' = 0
    /\ lost' = IF current = NoSub THEN lost ELSE Plus(lost, current, Unsampled(current))
    /\ GoTo("stop")
    /\ UNCHANGED <<up, core, pending, sampled, batch, subject, syncing, cache, used,
                   flowed, dup>>

(* A stop may fail: the operation ends with the sidecar running. *)
StopCore ==
    /\ step = "stop"
    /\ \/ alive' = FALSE /\ counter' = 0 /\ payer' = NoSub
          /\ (Release \/ GoTo("start"))
       \/ alive /\ Release /\ UNCHANGED core
    /\ UNCHANGED <<up, account, sampled, batch, subject, syncing, cache, used, flowed,
                   lost, dup>>

(* The new sidecar, for the subscription the request resolved its node in. *)
StartCore ==
    /\ step = "start"
    /\ \/ \E s \in Subs : payer' = s /\ alive' = TRUE /\ counter' = 0 /\ GoTo("begin")
       \/ Release /\ UNCHANGED core
    /\ UNCHANGED <<up, account, sampled, batch, subject, syncing, cache, used, flowed,
                   lost, dup>>

(* begin_traffic_session: the counter started at zero, and so does the      *)
(* baseline.                                                                *)
BeginSession ==
    /\ step = "begin"
    /\ current' = payer /\ observed' = 0
    /\ Release
    /\ UNCHANGED <<up, core, pending, sampled, batch, subject, syncing, cache, used,
                   flowed, lost, dup>>

-----------------------------------------------------------------------------
(* subs_sync *)

Ungated == sync = "idle"                    \* mutant: the sync takes no gate
MayBegin == sync = "idle" /\ opGate = "free"

BeginSync ==
    /\ up /\ MayBegin
    /\ opGate' = "sync" /\ sync' = "list"
    /\ UNCHANGED <<up, core, account, holder, listed, cache, used, flowed, lost, dup>>

EndSync == sync' = "idle" /\ opGate' = "free" /\ listed' = Zero

(* The server's list; then the provider's bodies are fetched. *)
SyncListed ==
    /\ sync = "list"
    /\ \/ listed' = used /\ sync' = "file" /\ UNCHANGED opGate
       \/ EndSync
    /\ UNCHANGED <<up, core, account, holder, cache, used, flowed, lost, dup>>

(* replace: the file, then memory; then the selection is reconciled, not   *)
(* under the engine gate.                                                   *)
ReplaceFile ==
    /\ sync = "file"
    /\ \/ saved' = listed /\ sync' = "memory" /\ UNCHANGED <<opGate, listed>>
       \/ EndSync /\ UNCHANGED saved
    /\ UNCHANGED <<up, core, account, holder, cached, used, flowed, lost, dup>>

ReconcileGated ==                           \* mutant: the engine gate inside the other
    /\ sync = "memory" /\ gate = "free"
    /\ cached' = listed
    /\ EndSync
    /\ UNCHANGED <<up, core, account, holder, saved, used, flowed, lost, dup>>
ReplaceMemory ==
    /\ sync = "memory"
    /\ cached' = listed
    /\ EndSync
    /\ UNCHANGED <<up, core, account, holder, saved, used, flowed, lost, dup>>

-----------------------------------------------------------------------------
(* The application dies or exits: pending usage is only in memory. *)
Crash ==
    /\ up
    /\ up' = FALSE
    /\ alive' = FALSE /\ counter' = 0 /\ payer' = NoSub
    /\ current' = NoSub /\ observed' = 0 /\ pending' = Zero
    /\ lost' = [s \in Subs |-> lost[s] + pending[s] + Unsampled(s) - InFlight(s)]
    /\ Release /\ sampled' = 0 /\ batch' = Zero /\ subject' = NoSub
    /\ sync' = "idle" /\ opGate' = "free" /\ listed' = Zero
    /\ UNCHANGED <<cache, used, flowed, dup>>

(* SubsState::load. *)
Launch ==
    /\ ~up
    /\ up' = TRUE /\ cached' = saved
    /\ UNCHANGED <<core, account, holder, syncing, saved, used, flowed, lost, dup>>

-----------------------------------------------------------------------------
CollectStep == Query \/ Record
FlushStep   == TakePending \/ Reply \/ ReplyLost \/ Flushed
                 \/ \E s \in Subs : Counted(s) \/ NotCounted(s)
CleanupStep == FinishSession \/ StopCore \/ StartCore \/ BeginSession
HolderStep  == CollectStep \/ FlushStep \/ CleanupStep
SyncStep    == SyncListed \/ ReplaceFile \/ ReplaceMemory

Next ==
    \/ Flow \/ CoreDies \/ TakeGate \/ HolderStep
    \/ BeginSync \/ SyncStep
    \/ Crash \/ Launch

(* Requests have deadlines, and tokio's mutexes are queues: a flush that     *)
(* waits for the operation gate gets it before the next sync.                *)
Fairness == SF_vars(HolderStep) /\ WF_vars(SyncStep)

Spec == Init /\ [][Next]_vars
FairSpec == Spec /\ Fairness

-----------------------------------------------------------------------------
(* Properties *)

(* No byte is counted twice and none disappears, through restarts of the   *)
(* sidecar, failed and repeated reports and syncs: what flowed is what the *)
(* server counted, except what it counted for a lost reply, what is pending*)
(* and not in flight, what is unsampled and what was given up.             *)
TrafficIsConserved ==
    \A s \in Subs :
        flowed[s] + dup[s] + InFlight(s) = used[s] + pending[s] + Unsampled(s) + lost[s]

(* An older list of the server never overwrites the total a report has just*)
(* brought: the total a user sees does not go back while the application   *)
(* runs.                                                                    *)
CachedTotalNeverGoesBack ==
    [][up /\ up' => \A s \in Subs : cached'[s] >= cached[s]]_vars

(* Sampler, reporter, cleanup and sync never wait for each other for ever. *)
GatesAreReleased ==
    /\ (gate # "free") ~> (gate = "free")
    /\ (opGate # "free") ~> (opGate = "free")
=============================================================================
