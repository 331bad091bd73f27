------------------------- MODULE SubsTraffic_proofs -------------------------
(***************************************************************************)
(* TrafficIsConserved and CachedTotalNeverGoesBack for any set of          *)
(* subscriptions and any bounds on the bytes that flow and on the replies  *)
(* that are lost.                                                          *)
(***************************************************************************)
EXTENDS SubsTraffic, TLAPS

USE SubsAssumption, BoundAssumption
USE DEF SubsAssumption, BoundAssumption

(* The type invariant in two halves: Boolean variables and the others. *)
SwitchesTyped == up \in BOOLEAN /\ alive \in BOOLEAN

ValuesTyped ==
    /\ counter \in Nat /\ observed \in Nat /\ sampled \in Nat
    /\ payer \in Subs \cup {NoSub} /\ current \in {payer, NoSub}
    /\ pending \in Total /\ listed \in Total
    /\ gate \in Holders /\ step \in Steps
    /\ batch \in Total /\ subject \in Subs \cup {NoSub}
    /\ opGate \in {"free", "flush", "sync"}
    /\ sync \in {"idle", "list", "file", "memory"}
    /\ cached \in Total /\ saved \in Total /\ used \in Total
    /\ flowed \in Total /\ lost \in Total /\ dup \in Total

(* A session counts from a baseline its sidecar has passed, there is none  *)
(* from the finish of one to the beginning of the next, and who released   *)
(* the engine gate is not at any of its steps.                             *)
SessionFits ==
    /\ gate = "free" => step = "idle"
    /\ alive => payer # NoSub
    /\ current = NoSub => observed = 0
    /\ observed <= counter
    /\ step = "record" => current # NoSub /\ observed <= sampled /\ sampled <= counter
    /\ step \in {"stop", "start", "begin"} => current = NoSub
    /\ step = "begin" => payer # NoSub

(* What a flush has taken is still pending until it is acknowledged. *)
BatchIsPending ==
    /\ step \in {"report", "counted"} => \A s \in Subs : batch[s] <= pending[s]
    /\ step = "counted" => subject # NoSub

Places == SessionFits /\ BatchIsPending

(* A flush and a sync exclude each other, so what a sync has listed is not *)
(* older than the totals it is going to replace.                           *)
Exclusive ==
    /\ sync # "idle" => opGate = "sync"
    /\ step \in {"report", "counted"} => opGate = "flush"
    /\ sync # "idle" => up
ListIsNew ==
    /\ \A s \in Subs : cached[s] <= used[s] /\ saved[s] <= used[s]
    /\ sync \in {"file", "memory"}
          => \A s \in Subs : cached[s] <= listed[s] /\ listed[s] <= used[s]
Totals == Exclusive /\ ListIsNew

IInv ==
    /\ SwitchesTyped
    /\ ValuesTyped
    /\ Places
    /\ TrafficIsConserved
    /\ Totals

-----------------------------------------------------------------------------
(* The initial states satisfy the inductive invariant. *)
LEMMA Initially == Init => IInv
<1> SUFFICES ASSUME Init PROVE IInv
  OBVIOUS
<1>1. SwitchesTyped
  BY Zenon DEF Init, SwitchesTyped
<1>2. ValuesTyped
  BY DEF Init, ValuesTyped, Total, Zero, Holders, Steps
<1>3. Places
  BY DEF Init, Places, SessionFits, BatchIsPending
<1>4. TrafficIsConserved
  <2> SUFFICES ASSUME NEW s \in Subs
               PROVE  flowed[s] + dup[s] + InFlight(s)
                        = used[s] + pending[s] + Unsampled(s) + lost[s]
    BY DEF TrafficIsConserved
  <2>1. InFlight(s) = 0 /\ Unsampled(s) = 0
    BY DEF Init, InFlight, Unsampled
  <2>2. Zero[s] = 0
    BY DEF Zero
  <2> QED
    BY <2>1, <2>2 DEF Init
<1>5. Totals
  BY DEF Init, Totals, Exclusive, ListIsNew, Zero
<1> QED
  BY <1>1, <1>2, <1>3, <1>4, <1>5 DEF IInv


(* The switches stay Boolean. *)
LEMMA SwitchesInductive == SwitchesTyped /\ [Next]_vars => SwitchesTyped'
<1> SUFFICES ASSUME SwitchesTyped, [Next]_vars PROVE SwitchesTyped'
  OBVIOUS
<1> USE DEF SwitchesTyped, core, account, holder, syncing, cache
<1>1. CASE Flow
  BY <1>1, Zenon DEF Flow
<1>2. CASE CoreDies
  BY <1>2, Zenon DEF CoreDies
<1>3. CASE TakeGate
  BY <1>3, Zenon DEF TakeGate, GateIsFree
<1>4. CASE Query
  BY <1>4, Zenon DEF Query
<1>5. CASE Record
  BY <1>5, Zenon DEF Record, MoveBaseline
<1>6. CASE TakePending
  BY <1>6, Zenon DEF TakePending
<1>7. ASSUME NEW s \in Subs, Counted(s) PROVE SwitchesTyped'
  BY <1>7, Zenon DEF Counted
<1>8. ASSUME NEW s \in Subs, NotCounted(s) PROVE SwitchesTyped'
  BY <1>8, Zenon DEF NotCounted
<1>9. CASE Reply
  BY <1>9, Zenon DEF Reply
<1>10. CASE ReplyLost
  BY <1>10, Zenon DEF ReplyLost
<1>11. CASE Flushed
  BY <1>11, Zenon DEF Flushed
<1>12. CASE FinishSession
  BY <1>12, Zenon DEF FinishSession
<1>13. CASE StopCore
  BY <1>13, Zenon DEF StopCore
<1>14. CASE StartCore
  BY <1>14, Zenon DEF StartCore
<1>15. CASE BeginSession
  BY <1>15, Zenon DEF BeginSession
<1>16. CASE BeginSync
  BY <1>16, Zenon DEF BeginSync, MayBegin
<1>17. CASE SyncListed
  BY <1>17, Zenon DEF SyncListed, EndSync
<1>18. CASE ReplaceFile
  BY <1>18, Zenon DEF ReplaceFile, EndSync
<1>19. CASE ReplaceMemory
  BY <1>19, Zenon DEF ReplaceMemory, EndSync
<1>20. CASE Crash
  BY <1>20, Zenon DEF Crash
<1>21. CASE Launch
  BY <1>21, Zenon DEF Launch
<1>22. CASE UNCHANGED vars
  BY <1>22, Zenon DEF vars
<1> QED
  BY <1>1, <1>2, <1>3, <1>4, <1>5, <1>6, <1>7, <1>8, <1>9, <1>10, <1>11, <1>12,
     <1>13, <1>14, <1>15, <1>16, <1>17, <1>18, <1>19, <1>20, <1>21, <1>22
     DEF Next, HolderStep, CollectStep, FlushStep, CleanupStep, SyncStep

(* The other variables keep their types. *)
LEMMA ValuesInductive == ValuesTyped /\ Places /\ [Next]_vars => ValuesTyped'
<1> SUFFICES ASSUME ValuesTyped, Places, [Next]_vars PROVE ValuesTyped'
  OBVIOUS
<1> USE DEF ValuesTyped, Total, Holders, Steps, Places, SessionFits, BatchIsPending,
         core, account, holder, syncing, cache
<1>1. CASE Flow
  BY <1>1, SMTT(20) DEF Flow, Plus
<1>2. CASE CoreDies
  BY <1>2, SMTT(20) DEF CoreDies
<1>3. CASE TakeGate
  BY <1>3, SMTT(20) DEF TakeGate, GateIsFree
<1>4. CASE Query
  BY <1>4, SMTT(20) DEF Query, GoTo, Collected, Release
<1>5. CASE Record
  BY <1>5, SMTT(20) DEF Record, Plus, MoveBaseline, Collected, Release, GoTo
<1>6. CASE TakePending
  BY <1>6, SMTT(20) DEF TakePending, Zero, AfterFlush, GoTo, Release
<1>7. ASSUME NEW s \in Subs, Counted(s) PROVE ValuesTyped'
  BY <1>7, SMTT(20) DEF Counted, Plus, GoTo
<1>8. ASSUME NEW s \in Subs, NotCounted(s) PROVE ValuesTyped'
  BY <1>8, SMTT(20) DEF NotCounted
<1>9. CASE Reply
  BY <1>9, SMTT(20) DEF Reply, Acknowledged, GoTo, Minus
<1>10. CASE ReplyLost
  BY <1>10, SMTT(20) DEF ReplyLost, Plus, GoTo
<1>11. CASE Flushed
  BY <1>11, SMTT(20) DEF Flushed, Zero, AfterFlush, Release, GoTo
<1>12. CASE FinishSession
  BY <1>12, SMTT(20) DEF FinishSession, Plus, Unsampled, GoTo
<1>13. CASE StopCore
  BY <1>13, SMTT(20) DEF StopCore, Release, GoTo
<1>14. CASE StartCore
  BY <1>14, SMTT(20) DEF StartCore, GoTo, Release
<1>15. CASE BeginSession
  BY <1>15, SMTT(20) DEF BeginSession, Release
<1>16. CASE BeginSync
  BY <1>16, SMTT(20) DEF BeginSync, MayBegin
<1>17. CASE SyncListed
  BY <1>17, SMTT(20) DEF SyncListed, EndSync, Zero
<1>18. CASE ReplaceFile
  BY <1>18, SMTT(20) DEF ReplaceFile, EndSync, Zero
<1>19. CASE ReplaceMemory
  BY <1>19, SMTT(20) DEF ReplaceMemory, EndSync, Zero
<1>20. CASE Crash
  BY <1>20, SMTT(20) DEF Crash, Zero, Unsampled, InFlight, Release
<1>21. CASE Launch
  BY <1>21, SMTT(20) DEF Launch
<1>22. CASE UNCHANGED vars
  BY <1>22, SMTT(20) DEF vars
<1> QED
  BY <1>1, <1>2, <1>3, <1>4, <1>5, <1>6, <1>7, <1>8, <1>9, <1>10, <1>11, <1>12,
     <1>13, <1>14, <1>15, <1>16, <1>17, <1>18, <1>19, <1>20, <1>21, <1>22
     DEF Next, HolderStep, CollectStep, FlushStep, CleanupStep, SyncStep

(* Every step keeps the session and what a flush has taken in their places. *)
LEMMA PlacesInductive == ValuesTyped /\ Places /\ [Next]_vars => Places'
<1> SUFFICES ASSUME ValuesTyped, Places, [Next]_vars PROVE Places'
  OBVIOUS
<1> USE DEF ValuesTyped, Total, Holders, Steps, Places, SessionFits, BatchIsPending,
         core, account, holder, syncing, cache
<1>1. CASE Flow
  BY <1>1, SMTT(20) DEF Flow, Plus
<1>2. CASE CoreDies
  BY <1>2, SMTT(20) DEF CoreDies
<1>3. CASE TakeGate
  BY <1>3, SMTT(20) DEF TakeGate, GateIsFree
<1>4. CASE Query
  BY <1>4, SMTT(20) DEF Query, GoTo, Collected, Release
<1>5. CASE Record
  BY <1>5, SMTT(20) DEF Record, Plus, MoveBaseline, Collected, Release, GoTo
<1>6. CASE TakePending
  BY <1>6, SMTT(20) DEF TakePending, Zero, AfterFlush, GoTo, Release
<1>7. ASSUME NEW s \in Subs, Counted(s) PROVE Places'
  BY <1>7, SMTT(20) DEF Counted, Plus, GoTo
<1>8. ASSUME NEW s \in Subs, NotCounted(s) PROVE Places'
  BY <1>8, SMTT(20) DEF NotCounted
<1>9. CASE Reply
  BY <1>9, SMTT(20) DEF Reply, Acknowledged, GoTo, Minus
<1>10. CASE ReplyLost
  BY <1>10, SMTT(20) DEF ReplyLost, Plus, GoTo
<1>11. CASE Flushed
  BY <1>11, SMTT(20) DEF Flushed, Zero, AfterFlush, Release, GoTo
<1>12. CASE FinishSession
  BY <1>12, SMTT(20) DEF FinishSession, Plus, Unsampled, GoTo
<1>13. CASE StopCore
  BY <1>13, SMTT(20) DEF StopCore, Release, GoTo
<1>14. CASE StartCore
  BY <1>14, SMTT(20) DEF StartCore, GoTo, Release
<1>15. CASE BeginSession
  BY <1>15, SMTT(20) DEF BeginSession, Release
<1>16. CASE BeginSync
  BY <1>16, SMTT(20) DEF BeginSync, MayBegin
<1>17. CASE SyncListed
  BY <1>17, SMTT(20) DEF SyncListed, EndSync, Zero
<1>18. CASE ReplaceFile
  BY <1>18, SMTT(20) DEF ReplaceFile, EndSync, Zero
<1>19. CASE ReplaceMemory
  BY <1>19, SMTT(20) DEF ReplaceMemory, EndSync, Zero
<1>20. CASE Crash
  BY <1>20, SMTT(20) DEF Crash, Zero, Unsampled, InFlight, Release
<1>21. CASE Launch
  BY <1>21, SMTT(20) DEF Launch
<1>22. CASE UNCHANGED vars
  BY <1>22, SMTT(20) DEF vars
<1> QED
  BY <1>1, <1>2, <1>3, <1>4, <1>5, <1>6, <1>7, <1>8, <1>9, <1>10, <1>11, <1>12,
     <1>13, <1>14, <1>15, <1>16, <1>17, <1>18, <1>19, <1>20, <1>21, <1>22
     DEF Next, HolderStep, CollectStep, FlushStep, CleanupStep, SyncStep

(* Every step keeps the gates exclusive and the list of a sync new. *)
LEMMA TotalsInductive == ValuesTyped /\ Totals /\ [Next]_vars => Totals'
<1> SUFFICES ASSUME ValuesTyped, Totals, [Next]_vars PROVE Totals'
  OBVIOUS
<1> USE DEF ValuesTyped, Total, Holders, Steps, Totals, Exclusive, ListIsNew,
         core, account, holder, syncing, cache
<1>1. CASE Flow
  BY <1>1, SMTT(20) DEF Flow, Plus
<1>2. CASE CoreDies
  BY <1>2, SMTT(20) DEF CoreDies
<1>3. CASE TakeGate
  BY <1>3, SMTT(20) DEF TakeGate, GateIsFree
<1>4. CASE Query
  BY <1>4, SMTT(20) DEF Query, GoTo, Collected, Release
<1>5. CASE Record
  BY <1>5, SMTT(20) DEF Record, Plus, MoveBaseline, Collected, Release, GoTo
<1>6. CASE TakePending
  BY <1>6, SMTT(20) DEF TakePending, Zero, AfterFlush, GoTo, Release
<1>7. ASSUME NEW s \in Subs, Counted(s) PROVE Totals'
  BY <1>7, SMTT(20) DEF Counted, Plus, GoTo
<1>8. ASSUME NEW s \in Subs, NotCounted(s) PROVE Totals'
  BY <1>8, SMTT(20) DEF NotCounted
<1>9. CASE Reply
  BY <1>9, SMTT(20) DEF Reply, Acknowledged, GoTo, Minus
<1>10. CASE ReplyLost
  BY <1>10, SMTT(20) DEF ReplyLost, Plus, GoTo
<1>11. CASE Flushed
  BY <1>11, SMTT(20) DEF Flushed, Zero, AfterFlush, Release, GoTo
<1>12. CASE FinishSession
  BY <1>12, SMTT(20) DEF FinishSession, Plus, Unsampled, GoTo
<1>13. CASE StopCore
  BY <1>13, SMTT(20) DEF StopCore, Release, GoTo
<1>14. CASE StartCore
  BY <1>14, SMTT(20) DEF StartCore, GoTo, Release
<1>15. CASE BeginSession
  BY <1>15, SMTT(20) DEF BeginSession, Release
<1>16. CASE BeginSync
  BY <1>16, SMTT(20) DEF BeginSync, MayBegin
<1>17. CASE SyncListed
  BY <1>17, SMTT(20) DEF SyncListed, EndSync, Zero
<1>18. CASE ReplaceFile
  BY <1>18, SMTT(20) DEF ReplaceFile, EndSync, Zero
<1>19. CASE ReplaceMemory
  BY <1>19, SMTT(20) DEF ReplaceMemory, EndSync, Zero
<1>20. CASE Crash
  BY <1>20, SMTT(20) DEF Crash, Release
<1>21. CASE Launch
  BY <1>21, SMTT(20) DEF Launch
<1>22. CASE UNCHANGED vars
  BY <1>22, SMTT(20) DEF vars
<1> QED
  BY <1>1, <1>2, <1>3, <1>4, <1>5, <1>6, <1>7, <1>8, <1>9, <1>10, <1>11, <1>12,
     <1>13, <1>14, <1>15, <1>16, <1>17, <1>18, <1>19, <1>20, <1>21, <1>22
     DEF Next, HolderStep, CollectStep, FlushStep, CleanupStep, SyncStep

(* No step of a running application takes a cached total back. *)
Grows == up /\ up' => \A s \in Subs : cached'[s] >= cached[s]
LEMMA CacheGrows == ValuesTyped /\ Totals /\ [Next]_vars => Grows
<1> SUFFICES ASSUME ValuesTyped, Totals, [Next]_vars, up, up',
                    NEW s \in Subs
             PROVE  cached'[s] >= cached[s]
  BY DEF Grows
<1>0. cached[s] \in Nat /\ cached[s] <= used[s]
  BY DEF ValuesTyped, Total, Totals, ListIsNew
<1>1. CASE UNCHANGED cached
  BY <1>0, <1>1
<1>2. CASE Reply
  BY <1>0, <1>2 DEF Reply, ValuesTyped, Total
<1>3. CASE ReplaceMemory
  <2>1. cached'[s] = listed[s] /\ cached[s] <= listed[s]
    BY <1>3 DEF ReplaceMemory, Totals, ListIsNew
  <2> QED
    BY <1>0, <2>1 DEF ValuesTyped, Total
<1>4. CASE Launch
  BY <1>4, Zenon DEF Launch
<1> QED
  <2> USE DEF core, account, holder, syncing, cache
  <2>1. CASE Flow \/ CoreDies \/ TakeGate \/ CollectStep \/ CleanupStep
    BY <1>1, <2>1, Zenon
       DEF Flow, CoreDies, TakeGate, CollectStep, CleanupStep, Query, Record,
           FinishSession, StopCore, StartCore, BeginSession
  <2>2. CASE FlushStep
    BY <1>1, <1>2, <2>2, Zenon
       DEF FlushStep, TakePending, ReplyLost, Flushed, Counted, NotCounted
  <2>3. CASE BeginSync \/ SyncStep \/ Crash
    BY <1>1, <1>3, <2>3, Zenon DEF BeginSync, SyncStep, SyncListed, ReplaceFile, Crash
  <2>4. CASE UNCHANGED vars
    BY <1>1, <2>4, Zenon DEF vars
  <2> QED
    BY <1>4, <2>1, <2>2, <2>3, <2>4 DEF Next, HolderStep

(* No step loses a byte or counts it twice. *)
LEMMA TrafficInductive ==
    ValuesTyped /\ Places /\ TrafficIsConserved /\ [Next]_vars => TrafficIsConserved'
<1> SUFFICES ASSUME ValuesTyped, Places, TrafficIsConserved, [Next]_vars
             PROVE  TrafficIsConserved'
  OBVIOUS
<1> USE DEF ValuesTyped, Total, Holders, Steps, Places, SessionFits, BatchIsPending,
         TrafficIsConserved, InFlight, Unsampled, core, account, holder, syncing,
         cache
<1>1. CASE Flow
  <2> SUFFICES ASSUME NEW u \in Subs
               PROVE  flowed'[u] + dup'[u] + InFlight(u)'
                        = used'[u] + pending'[u] + Unsampled(u)' + lost'[u]
    OBVIOUS
  <2>0. flowed[u] + dup[u] + InFlight(u) = used[u] + pending[u] + Unsampled(u) + lost[u]
    OBVIOUS
  <2>1. InFlight(u)' = InFlight(u)
    BY <1>1 DEF Flow
  <2>2. CASE u # payer
    BY <1>1, <2>0, <2>1, <2>2, SMTT(20) DEF Flow, Plus
  <2>3. CASE u = payer /\ (current # NoSub \/ step = "begin")
    <3>1. flowed'[u] = flowed[u] + 1 /\ lost'[u] = lost[u]
      BY <1>1, <2>3 DEF Flow, Plus
    <3>2. Unsampled(u)' = Unsampled(u) + 1
      BY <1>1, <2>3 DEF Flow
    <3> QED
      BY <1>1, <2>0, <2>1, <3>1, <3>2, SMTT(20) DEF Flow
  <2>4. CASE u = payer /\ current = NoSub /\ step # "begin"
    <3>1. flowed'[u] = flowed[u] + 1 /\ lost'[u] = lost[u] + 1
      BY <1>1, <2>4 DEF Flow, Plus
    <3>2. Unsampled(u)' = Unsampled(u) /\ UNCHANGED <<used, pending, dup>>
      BY <1>1, <2>4 DEF Flow
    <3>3. Unsampled(u) = 0 /\ InFlight(u) \in Nat
      BY <2>4
    <3> HIDE DEF Unsampled, InFlight, TrafficIsConserved
    <3> QED
      BY <2>0, <2>1, <3>1, <3>2, <3>3, SMTT(20)
  <2> QED
    BY <2>2, <2>3, <2>4
<1>2. CASE CoreDies
  BY <1>2, SMTT(20) DEF CoreDies
<1>3. CASE TakeGate
  <2>1. UNCHANGED <<core, account, batch, subject, used, flowed, lost, dup>>
        /\ step' \in {"query", "pending"}
    BY <1>3 DEF TakeGate
  <2>2. step \notin {"begin", "counted"}
    BY <1>3 DEF TakeGate, GateIsFree
  <2> QED
    BY <2>1, <2>2, SMTT(20)
<1>4. CASE Query
  BY <1>4, SMTT(20) DEF Query, GoTo, Collected, Release
<1>5. CASE Record
  BY <1>5, SMTT(20) DEF Record, Plus, MoveBaseline, Collected, Release, GoTo
<1>6. CASE TakePending
  BY <1>6, SMTT(20) DEF TakePending, Zero, AfterFlush, GoTo, Release
<1>7. ASSUME NEW s \in Subs, Counted(s) PROVE TrafficIsConserved'
  <2> SUFFICES ASSUME NEW u \in Subs
               PROVE  flowed'[u] + dup'[u] + InFlight(u)'
                        = used'[u] + pending'[u] + Unsampled(u)' + lost'[u]
    OBVIOUS
  <2>0. flowed[u] + dup[u] + InFlight(u) = used[u] + pending[u] + Unsampled(u) + lost[u]
    OBVIOUS
  <2>1. step = "report" /\ step' = "counted" /\ subject' = s
        /\ UNCHANGED <<core, account, batch, flowed, lost, dup>>
    BY <1>7 DEF Counted, GoTo
  <2>2. Unsampled(u)' = Unsampled(u) /\ InFlight(u) = 0
    BY <2>1
  <2>3. CASE u = s
    BY <1>7, <2>0, <2>1, <2>2, <2>3, SMTT(20) DEF Counted, Plus
  <2>4. CASE u # s
    BY <1>7, <2>0, <2>1, <2>2, <2>4, SMTT(20) DEF Counted, Plus
  <2> QED
    BY <2>3, <2>4
<1>8. ASSUME NEW s \in Subs, NotCounted(s) PROVE TrafficIsConserved'
  BY <1>8, SMTT(20) DEF NotCounted
<1>9. CASE Reply
  <2> SUFFICES ASSUME NEW u \in Subs
               PROVE  flowed'[u] + dup'[u] + InFlight(u)'
                        = used'[u] + pending'[u] + Unsampled(u)' + lost'[u]
    OBVIOUS
  <2>0. flowed[u] + dup[u] + InFlight(u) = used[u] + pending[u] + Unsampled(u) + lost[u]
    OBVIOUS
  <2>1. step = "counted" /\ step' = "report" /\ subject \in Subs
        /\ UNCHANGED <<core, current, observed, used, flowed, lost, dup>>
    BY <1>9 DEF Reply, GoTo
  <2>2. Unsampled(u)' = Unsampled(u) /\ InFlight(u)' = 0
    BY <2>1
  <2>3. CASE u = subject
    <3>1. pending'[u] = pending[u] - batch[u] /\ InFlight(u) = batch[u]
      BY <1>9, <2>1, <2>3 DEF Reply, Acknowledged, Minus
    <3>2. UNCHANGED <<flowed[u], dup[u], used[u], lost[u]>>
      BY <2>1
    <3>3. Unsampled(u) \in Nat /\ pending[u] \in Nat /\ batch[u] \in Nat
      OBVIOUS
    <3>4. flowed[u] \in Nat /\ dup[u] \in Nat /\ used[u] \in Nat /\ lost[u] \in Nat
      OBVIOUS
    <3> HIDE DEF Unsampled, InFlight, TrafficIsConserved, ValuesTyped, Places
    <3> QED
      BY <2>0, <2>2, <3>1, <3>2, <3>3, <3>4, SMTT(20)
  <2>4. CASE u # subject
    <3>1. pending'[u] = pending[u] /\ InFlight(u) = 0
      BY <1>9, <2>1, <2>4 DEF Reply, Acknowledged, Minus
    <3>2. UNCHANGED <<flowed[u], dup[u], used[u], lost[u]>>
      BY <2>1
    <3>3. InFlight(u)' = InFlight(u)
      BY <2>2, <3>1
    <3> HIDE DEF Unsampled, InFlight, TrafficIsConserved
    <3> QED
      BY <2>0, <2>2, <3>1, <3>2, <3>3, Zenon
  <2> QED
    BY <2>3, <2>4
<1>10. CASE ReplyLost
  BY <1>10, SMTT(20) DEF ReplyLost, Plus, GoTo
<1>11. CASE Flushed
  BY <1>11, SMTT(20) DEF Flushed, Zero, AfterFlush, Release, GoTo
<1>12. CASE FinishSession
  BY <1>12, SMTT(20) DEF FinishSession, Plus, GoTo
<1>13. CASE StopCore
  BY <1>13, SMTT(20) DEF StopCore, Release, GoTo
<1>14. CASE StartCore
  BY <1>14, SMTT(20) DEF StartCore, GoTo, Release
<1>15. CASE BeginSession
  BY <1>15, SMTT(20) DEF BeginSession, Release
<1>16. CASE BeginSync
  BY <1>16, SMTT(20) DEF BeginSync, MayBegin
<1>17. CASE SyncListed
  BY <1>17, SMTT(20) DEF SyncListed, EndSync, Zero
<1>18. CASE ReplaceFile
  BY <1>18, SMTT(20) DEF ReplaceFile, EndSync, Zero
<1>19. CASE ReplaceMemory
  BY <1>19, SMTT(20) DEF ReplaceMemory, EndSync, Zero
<1>20. CASE Crash
  <2> SUFFICES ASSUME NEW u \in Subs
               PROVE  flowed'[u] + dup'[u] + InFlight(u)'
                        = used'[u] + pending'[u] + Unsampled(u)' + lost'[u]
    OBVIOUS
  <2>0. flowed[u] + dup[u] + InFlight(u) = used[u] + pending[u] + Unsampled(u) + lost[u]
    OBVIOUS
  <2>1. InFlight(u)' = 0 /\ Unsampled(u)' = 0 /\ pending'[u] = 0
    BY <1>20 DEF Crash, Release, Zero
  <2>2. lost'[u] = lost[u] + pending[u] + Unsampled(u) - InFlight(u)
    BY <1>20 DEF Crash
  <2>3. Unsampled(u) \in Nat /\ InFlight(u) \in Nat
    OBVIOUS
  <2>4. UNCHANGED <<used, flowed, dup>>
    BY <1>20 DEF Crash
  <2> QED
    BY <2>0, <2>1, <2>2, <2>3, <2>4, SMTT(20)
<1>21. CASE Launch
  BY <1>21, SMTT(20) DEF Launch
<1>22. CASE UNCHANGED vars
  BY <1>22, SMTT(20) DEF vars
<1> QED
  BY <1>1, <1>2, <1>3, <1>4, <1>5, <1>6, <1>7, <1>8, <1>9, <1>10, <1>11, <1>12,
     <1>13, <1>14, <1>15, <1>16, <1>17, <1>18, <1>19, <1>20, <1>21, <1>22
     DEF Next, HolderStep, CollectStep, FlushStep, CleanupStep, SyncStep

-----------------------------------------------------------------------------
(* Every step keeps the inductive invariant. *)
LEMMA Preservation == IInv /\ [Next]_vars => IInv'
<1> SUFFICES ASSUME SwitchesTyped, ValuesTyped, Places, TrafficIsConserved, Totals,
                    [Next]_vars
             PROVE  SwitchesTyped' /\ ValuesTyped' /\ Places' /\ TrafficIsConserved'
                    /\ Totals'
  BY DEF IInv
<1> QED
  BY SwitchesInductive, ValuesInductive, PlacesInductive, TrafficInductive,
     TotalsInductive

(* The inductive invariant holds in every state. *)
LEMMA Invariance == Spec => []IInv
<1>1. Init => IInv
  BY Initially
<1>2. IInv /\ [Next]_vars => IInv'
  BY Preservation
<1> QED
  BY <1>1, <1>2, PTL DEF Spec

(* Every variable of the accounting keeps its type. *)
THEOREM TypeCorrect == Spec => []TypeOK
<1>1. IInv => TypeOK
  BY DEF IInv, SwitchesTyped, ValuesTyped, TypeOK
<1> QED
  BY <1>1, Invariance, PTL

(* No byte that went through a sidecar disappears and none is counted twice,*)
(* whatever restarts, reports fail or are repeated.                         *)
THEOREM NoByteIsLost == Spec => []TrafficIsConserved
<1>1. IInv => TrafficIsConserved
  BY DEF IInv
<1> QED
  BY <1>1, Invariance, PTL

(* The total a user sees never goes back while the application runs: no    *)
(* sync overwrites what a report has brought with an older list.           *)
THEOREM TotalsOnlyGrow == Spec => CachedTotalNeverGoesBack
<1>1. IInv /\ [Next]_vars => [up /\ up' => \A s \in Subs : cached'[s] >= cached[s]]_vars
  BY CacheGrows DEF IInv, Grows
<1> QED
  BY <1>1, Invariance, PTL DEF Spec, CachedTotalNeverGoesBack
=============================================================================
