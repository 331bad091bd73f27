---------------------------- MODULE MacTun_proofs ---------------------------
(***************************************************************************)
(* OverrideHasAKeeper and StopIsExact for any set of network services, any *)
(* number of cores, changes of the network and faults.                     *)
(*                                                                         *)
(* For the first: while nobody races, the threads take turns.  The watcher *)
(* acts on an override only while no call is under way, and the slot names *)
(* the service whose servers are the gateway's, but for the moment of a    *)
(* switch.  For the second: a call that is waited for is served after      *)
(* those that were given up before it, so that a stop that succeeds found  *)
(* the only session there was.                                             *)
(***************************************************************************)
EXTENDS MacTun, SequenceTheorems, TLAPS

USE ValuesAssumption, BoundsAssumption
USE DEF ValuesAssumption, BoundsAssumption

(* The type invariant in parts: Boolean variables, the values of the       *)
(* application, those of the helper and the system, and the calls.         *)
SwitchesTyped ==
    /\ up \in BOOLEAN /\ watching \in BOOLEAN /\ notified \in BOOLEAN /\ tried \in BOOLEAN
    /\ owns \in BOOLEAN /\ scoped \in BOOLEAN /\ leaked \in BOOLEAN /\ raced \in BOOLEAN

Places == {"idle", "install", "start", "ready", "abort", "detect", "decide", "restore",
           "write", "record", "strip", "stop", "routes", "purge", "uninstall", "shell"}
Hand == [service : Services \cup {NoService}, prev : Services \cup {NoService},
         servers : Servers]
Job == [op : {"start", "stop", "routes", "uninstall"}, core : Cores \cup {NoCore},
        at : {"queued", "spawn", "install", "reap", "clear", "reply"},
        owns : BOOLEAN, ok : BOOLEAN, open : BOOLEAN]

AppTyped ==
    /\ pc \in [Threads -> Places]
    /\ hand \in [Threads -> Hand]
    /\ slot \in Services \cup {NoService} /\ lock \in Threads \cup {NoThread}
    /\ tun \in {"off", "on", "unknown"}

SystemTyped ==
    /\ installed \in {"no", "old", "current"}
    /\ active \in Cores \cup {NoCore}
    /\ core \in [Cores -> {"unborn", "running", "dead"}]
    /\ primary \in Services \cup {NoService} /\ dns \in [Services -> Servers]
    /\ lost \subseteq Services /\ orphans \subseteq Cores
    /\ changes \in Nat /\ faults \in Nat

JobsTyped == jobs \in Seq(Job)

(* A call that is waited for is the last one, and the caller waits for it. *)
InCall == {"start", "abort", "stop", "routes", "purge", "uninstall"}
CallsFit == \A i \in 1 .. Len(jobs) :
                jobs[i].open => i = Len(jobs) /\ pc["caller"] \in InCall

(* What a thread holds at each place. *)
Reapplying == {"detect", "decide", "restore", "write", "record"}
HandsFit ==
    /\ \A t \in Threads :
          /\ pc[t] \in {"decide", "restore", "write", "record", "strip"}
                => hand[t].service # NoService
          /\ pc[t] \in {"restore", "record"} => hand[t].prev # NoService
          /\ lock = t => pc[t] = "write"
    /\ pc["watcher"] \in {"idle"} \cup Reapplying
    /\ ~up => /\ \A t \in Threads : pc[t] = "idle"
              /\ lock = NoThread /\ slot = NoService
              /\ tun = "unknown"

(* The threads take turns: the watcher works on a slot that is taken, the  *)
(* caller on one that is free, and only the caller fills it.               *)
Turns ==
    /\ pc["watcher"] # "idle" => slot # NoService
    /\ pc["caller"] # "idle" \/ tun = "off" => slot = NoService
    /\ lock # "watcher"
    /\ pc["caller"] \notin {"restore", "record"}
    /\ pc["caller"] = "write" => lock = "caller"

(* A switch: the service before is in the slot until the one after has the *)
(* gateway and no other has.                                                *)
Switch ==
    LET h == hand["watcher"] IN
    /\ pc["watcher"] = "decide" => h.prev = NoService
    /\ pc["watcher"] \in {"restore", "record"} => h.prev = slot
    /\ pc["watcher"] = "write"
          => h.prev = slot \/ (h.prev = NoService /\ h.service = slot)
    /\ pc["watcher"] = "write" /\ h.prev # NoService
          => \A s \in Services : Overridden(s) => s \in lost
    /\ pc["watcher"] = "record"
          => \A s \in Services : Overridden(s) => s \in lost \cup {h.service}

Kept ==
    /\ \A s \in Services : Overridden(s) => Tracked(s) \/ s \in lost
    /\ Turns /\ Switch
OverrideIsKept == raced \/ Kept

IInv ==
    /\ SwitchesTyped
    /\ AppTyped
    /\ SystemTyped
    /\ JobsTyped
    /\ CallsFit
    /\ HandsFit
    /\ OverrideIsKept

-----------------------------------------------------------------------------
(* The initial states satisfy the inductive invariant. *)
LEMMA Initially == Init => IInv
<1> SUFFICES ASSUME Init PROVE IInv
  OBVIOUS
<1>1. SwitchesTyped
  BY Zenon DEF Init, SwitchesTyped
<1>2. AppTyped /\ SystemTyped
  BY DEF Init, AppTyped, SystemTyped, Places, Hand, Nothing, Threads, Servers
<1>3. JobsTyped /\ CallsFit
  BY DEF Init, JobsTyped, CallsFit
<1>4. HandsFit
  BY DEF Init, HandsFit, Threads
<1>5. OverrideIsKept
  BY DEF Init, OverrideIsKept, Kept, Turns, Switch, Overridden, Threads
<1> QED
  BY <1>1, <1>2, <1>3, <1>4, <1>5 DEF IInv

-----------------------------------------------------------------------------
(* The sequence of calls. *)

Ops    == {"start", "stop", "routes", "uninstall"}
Stages == {"queued", "spawn", "install", "reap", "clear", "reply"}
Silent(q) == \A i \in 1 .. Len(q) : ~q[i].open

(* A call stays a call, and as open as it was, wherever it moves. *)
LEMMA JobMoves ==
  ASSUME NEW j \in Job, NEW at \in Stages
  PROVE  /\ [j EXCEPT !.at = at] \in Job
         /\ [j EXCEPT !.at = at].open = j.open
  BY DEF Job, Stages

(* It is answered, *)
LEMMA JobReplies ==
  ASSUME NEW j \in Job, NEW ok \in BOOLEAN
  PROVE  /\ [j EXCEPT !.at = "reply", !.ok = ok] \in Job
         /\ [j EXCEPT !.at = "reply", !.ok = ok].open = j.open
  BY DEF Job

(* a start spawns its core, *)
LEMMA JobSpawns ==
  ASSUME NEW j \in Job, NEW c \in Cores, NEW own \in BOOLEAN
  PROVE  /\ [j EXCEPT !.at = "install", !.core = c, !.owns = own] \in Job
         /\ [j EXCEPT !.at = "install", !.core = c, !.owns = own].open = j.open
  BY DEF Job

(* a stop reads the core it is to end, *)
LEMMA JobReads ==
  ASSUME NEW j \in Job, NEW c \in Cores \cup {NoCore}, NEW at \in Stages
  PROVE  /\ [j EXCEPT !.core = c, !.at = at, !.ok = TRUE] \in Job
         /\ [j EXCEPT !.core = c, !.at = at, !.ok = TRUE].open = j.open
  BY DEF Job, Stages

(* its caller gives up, *)
LEMMA JobGivenUp ==
  ASSUME NEW j \in Job
  PROVE  [j EXCEPT !.open = FALSE] \in Job /\ ~[j EXCEPT !.open = FALSE].open
  BY DEF Job

(* or it is new. *)
LEMMA JobCalled ==
  ASSUME NEW op \in Ops
  PROVE  LET j == [op |-> op, at |-> "queued", core |-> NoCore, owns |-> FALSE,
                   ok |-> FALSE, open |-> TRUE]
         IN  j \in Job /\ j.open
  BY DEF Job, Ops

(* A sequence of calls of which one moves, *)
LEMMA OneMoves ==
  ASSUME NEW q \in Seq(Job), NEW i \in DOMAIN q, NEW j \in Job, j.open = q[i].open
  PROVE  LET r == [q EXCEPT ![i] = j]
         IN  /\ r \in Seq(Job) /\ Len(r) = Len(q)
             /\ \A k \in 1 .. Len(q) : r[k].open = q[k].open
<1> DEFINE r == [q EXCEPT ![i] = j]
<1>1. /\ Len(q) \in Nat /\ DOMAIN q = 1 .. Len(q)
      /\ q \in [1 .. Len(q) -> Job]
  BY LenProperties
<1>2. r \in [1 .. Len(q) -> Job]
  BY <1>1
<1>3. r \in Seq(Job) /\ Len(r) = Len(q)
  BY <1>1, <1>2, SeqDef, LenProperties
<1>4. \A k \in 1 .. Len(q) : r[k].open = q[k].open
  BY <1>1
<1> QED
  BY <1>3, <1>4

(* all are given up, *)
LEMMA AllGivenUp ==
  ASSUME NEW q \in Seq(Job)
  PROVE  LET r == [i \in DOMAIN q |-> [q[i] EXCEPT !.open = FALSE]]
         IN  r \in Seq(Job) /\ Silent(r)
<1> DEFINE r == [i \in DOMAIN q |-> [q[i] EXCEPT !.open = FALSE]]
<1>1. /\ Len(q) \in Nat /\ DOMAIN q = 1 .. Len(q)
      /\ \A i \in 1 .. Len(q) : q[i] \in Job
  BY LenProperties
<1>2. \A i \in 1 .. Len(q) : r[i] \in Job /\ ~r[i].open
  BY <1>1, JobGivenUp
<1>3. r \in [1 .. Len(q) -> Job]
  BY <1>1, JobGivenUp
<1>4. r \in Seq(Job) /\ Len(r) = Len(q)
  BY <1>1, <1>3, SeqDef, LenProperties
<1> HIDE DEF r
<1>5. Silent(r)
  BY <1>2, <1>4 DEF Silent
<1> QED
  BY <1>4, <1>5 DEF r

(* one returns, *)
LEMMA OneReturns ==
  ASSUME NEW q \in Seq(Job), NEW i \in DOMAIN q
  PROVE  LET r == SubSeq(q, 1, i - 1) \o SubSeq(q, i + 1, Len(q))
         IN  /\ r \in Seq(Job) /\ Len(r) = Len(q) - 1
             /\ \A k \in 1 .. Len(r) : r[k] = IF k < i THEN q[k] ELSE q[k + 1]
<1> DEFINE before == SubSeq(q, 1, i - 1)
           after  == SubSeq(q, i + 1, Len(q))
           r      == before \o after
<1>1. Len(q) \in Nat /\ i \in 1 .. Len(q)
  BY LenProperties
<1>2. /\ before \in Seq(Job) /\ Len(before) = i - 1
      /\ \A k \in 1 .. i - 1 : before[k] = q[k]
  <2>1. before \in Seq(Job)
    BY <1>1, SubSeqProperties
  <2>2. Len(before) = i - 1 /\ \A k \in 1 .. i - 1 : before[k] = q[k]
    BY <1>1
  <2> QED
    BY <2>1, <2>2
<1>3. /\ after \in Seq(Job) /\ Len(after) = Len(q) - i
      /\ \A k \in 1 .. Len(q) - i : after[k] = q[i + k]
  BY <1>1
<1> HIDE DEF before, after
<1>4. /\ r \in Seq(Job) /\ Len(r) = Len(before) + Len(after)
      /\ \A k \in 1 .. Len(before) + Len(after) :
            r[k] = IF k <= Len(before) THEN before[k] ELSE after[k - Len(before)]
  BY <1>2, <1>3, ConcatProperties
<1>5. Len(r) = Len(q) - 1
  BY <1>1, <1>2, <1>3, <1>4
<1>6. ASSUME NEW k \in 1 .. Len(r) PROVE r[k] = IF k < i THEN q[k] ELSE q[k + 1]
  <2>1. CASE k < i
    BY <1>1, <1>2, <1>4, <1>5, <1>6, <2>1
  <2>2. CASE ~(k < i)
    <3>1. k - (i - 1) \in 1 .. Len(q) - i /\ i + (k - (i - 1)) = k + 1
      BY <1>1, <1>5, <1>6, <2>2
    <3>2. r[k] = after[k - (i - 1)]
      BY <1>1, <1>2, <1>3, <1>4, <1>5, <1>6, <2>2
    <3> QED
      BY <1>3, <2>2, <3>1, <3>2
  <2> QED
    BY <2>1, <2>2
<1> QED
  BY <1>4, <1>5, <1>6 DEF before, after

(* or one is added. *)
LEMMA OneIsAdded ==
  ASSUME NEW q \in Seq(Job), NEW j \in Job
  PROVE  /\ Append(q, j) \in Seq(Job) /\ Len(Append(q, j)) = Len(q) + 1
         /\ \A k \in 1 .. Len(q) : Append(q, j)[k] = q[k]
         /\ Len(q) \in Nat
  BY AppendProperties, LenProperties

(* Behind calls that were given up, a new one is the open one. *)
LEMMA CallKept ==
  ASSUME NEW op \in Ops, NEW before \in Seq(Job), Silent(before), Call(op, before),
         pc'["caller"] \in InCall
  PROVE  JobsTyped' /\ CallsFit'
<1> DEFINE j == [op |-> op, at |-> "queued", core |-> NoCore, owns |-> FALSE,
                 ok |-> FALSE, open |-> TRUE]
<1>1. j \in Job /\ jobs' = Append(before, j)
  BY JobCalled DEF Call
<1> HIDE DEF j
<1>2. /\ jobs' \in Seq(Job) /\ Len(jobs') = Len(before) + 1
      /\ \A k \in 1 .. Len(before) : jobs'[k] = before[k]
      /\ Len(before) \in Nat
  BY <1>1, OneIsAdded
<1> QED
  BY <1>2 DEF JobsTyped, CallsFit, Silent
(* Without an open call nothing is asked of the caller. *)
LEMMA SilentKept ==
  ASSUME jobs' \in Seq(Job), Silent(jobs') PROVE JobsTyped' /\ CallsFit'
  BY DEF JobsTyped, CallsFit, Silent

(* Calls stay where they are when the caller does not wait for one, or stays. *)
LEMMA CallsStay ==
  ASSUME JobsTyped, CallsFit, UNCHANGED jobs,
         pc["caller"] \notin InCall \/ pc'["caller"] = pc["caller"]
  PROVE  JobsTyped' /\ CallsFit'
  BY DEF JobsTyped, CallsFit

(* A call that moves stays the open one, or closed. *)
LEMMA MoveKept ==
  ASSUME JobsTyped, CallsFit, NEW i \in DOMAIN jobs, NEW j \in Job, j.open = jobs[i].open,
         jobs' = [jobs EXCEPT ![i] = j], UNCHANGED pc
  PROVE  JobsTyped' /\ CallsFit'
<1>1. /\ jobs' \in Seq(Job) /\ Len(jobs') = Len(jobs)
      /\ \A k \in 1 .. Len(jobs) : jobs'[k].open = jobs[k].open
  BY OneMoves DEF JobsTyped
<1> QED
  BY <1>1 DEF JobsTyped, CallsFit

(* While nobody calls, no call is open. *)
LEMMA NobodyCalls ==
  ASSUME JobsTyped, CallsFit, pc["caller"] \notin InCall PROVE Silent(jobs)
  BY DEF JobsTyped, CallsFit, Silent

(* The call that returned was the only open one. *)
LEMMA ReturnSilent ==
  ASSUME JobsTyped, CallsFit, NEW i \in DOMAIN jobs
  PROVE  LET rest == SubSeq(jobs, 1, i - 1) \o SubSeq(jobs, i + 1, Len(jobs))
         IN  /\ rest \in Seq(Job)
             /\ jobs[i].open => Silent(rest) /\ pc["caller"] \in InCall
             /\ \A k \in 1 .. Len(rest) :
                   rest[k].open => k = Len(rest) /\ pc["caller"] \in InCall
<1> DEFINE rest == SubSeq(jobs, 1, i - 1) \o SubSeq(jobs, i + 1, Len(jobs))
<1>1. /\ rest \in Seq(Job) /\ Len(rest) = Len(jobs) - 1
      /\ \A k \in 1 .. Len(rest) : rest[k] = IF k < i THEN jobs[k] ELSE jobs[k + 1]
  BY OneReturns DEF JobsTyped
<1>2. Len(jobs) \in Nat /\ i \in 1 .. Len(jobs)
  BY LenProperties DEF JobsTyped
<1> HIDE DEF rest
<1>3. \A k \in 1 .. Len(rest) :
         /\ k \in 1 .. Len(jobs) /\ k + 1 \in 1 .. Len(jobs) /\ k # Len(jobs)
         /\ k + 1 = Len(jobs) => k = Len(rest)
  BY <1>1, <1>2
<1>4. \A k \in 1 .. Len(rest) : rest[k].open => k = Len(rest) /\ pc["caller"] \in InCall
  BY <1>1, <1>3 DEF CallsFit
<1>5. ASSUME jobs[i].open PROVE Silent(rest) /\ pc["caller"] \in InCall
  <2>1. i = Len(jobs) /\ pc["caller"] \in InCall
    BY <1>2, <1>5 DEF CallsFit
  <2>2. ASSUME NEW k \in 1 .. Len(rest), rest[k].open PROVE FALSE
    <3>1. k < i
      BY <1>1, <1>2, <2>1
    <3>2. jobs[k].open
      BY <1>1, <2>2, <3>1
    <3> QED
      BY <1>3, <3>2 DEF CallsFit
  <2> QED
    BY <2>1, <2>2 DEF Silent
<1> QED
  BY <1>1, <1>4, <1>5 DEF rest

(* What follows a call is another one, or something else of the caller. *)
LEMMA AfterCallGoes ==
  ASSUME pc["caller"] \in InCall, NEW ok \in BOOLEAN, NEW before, AfterCall(ok, before)
  PROVE  /\ \/ jobs' = before /\ \E p \in {"shell", "ready", "idle"} : GoTo("caller", p)
            \/ \E op \in {"routes", "uninstall"} : Call(op, before) /\ GoTo("caller", op)
         /\ tun' \in {tun, "off", "unknown"}
         /\ tun' = "off" => tun = "off" \/ pc["caller"] = "routes"
<1>1. CASE pc["caller"] \in {"start", "abort"}
  BY <1>1, SMTT(20) DEF AfterCall
<1>2. CASE pc["caller"] = "stop"
  BY <1>2, SMTT(20) DEF AfterCall
<1>3. CASE pc["caller"] \in {"routes", "purge", "uninstall"}
  BY <1>3, SMTT(20) DEF AfterCall
<1> QED
  BY <1>1, <1>2, <1>3 DEF InCall

(* So no other call is open after it, *)
LEMMA AfterCallKept ==
  ASSUME pc \in [Threads -> Places], pc["caller"] \in InCall, NEW ok \in BOOLEAN,
         NEW before \in Seq(Job), Silent(before), AfterCall(ok, before)
  PROVE  JobsTyped' /\ CallsFit'
<1>1. CASE jobs' = before
  BY <1>1, SilentKept
<1>2. ASSUME NEW op \in {"routes", "uninstall"}, Call(op, before), GoTo("caller", op)
      PROVE  JobsTyped' /\ CallsFit'
  <2>1. pc'["caller"] \in InCall /\ op \in Ops
    BY <1>2 DEF GoTo, InCall, Threads, Ops
  <2> QED
    BY <1>2, <2>1, CallKept
<1> QED
  BY <1>1, <1>2, AfterCallGoes

(* nor after an XPC error. *)
LEMMA InterruptedKept ==
  ASSUME pc \in [Threads -> Places], NEW before \in Seq(Job), Silent(before),
         Interrupted(before)
  PROVE  JobsTyped' /\ CallsFit'
<1>1. CASE ~Calling
  BY <1>1, SilentKept DEF Interrupted
<1>2. CASE Calling /\ ~tried /\ pc["caller"] # "uninstall"
  <2>1. PICK op \in Ops : Call(op, before)
    <3>1. (CASE pc["caller"] \in {"abort", "purge"} -> "stop" [] OTHER -> pc["caller"]) \in Ops
      BY <1>2 DEF Calling, Ops
    <3> QED
      BY <1>2, <3>1 DEF Interrupted
  <2>2. pc'["caller"] \in InCall
    BY <1>2 DEF Interrupted, Calling, InCall
  <2> QED
    BY <2>1, <2>2, CallKept
<1>3. CASE Calling /\ ~(~tried /\ pc["caller"] # "uninstall")
  <2>1. AfterCall(FALSE, before) /\ pc["caller"] \in InCall
    BY <1>3 DEF Interrupted, Calling, InCall
  <2> QED
    BY <2>1, AfterCallKept
<1> QED
  BY <1>1, <1>2, <1>3

(* Every step keeps the calls, and the caller waiting for the open one. *)
LEMMA JobsInductive ==
  SwitchesTyped /\ AppTyped /\ SystemTyped /\ JobsTyped /\ CallsFit /\ [Next]_vars
    => JobsTyped' /\ CallsFit'
<1> SUFFICES ASSUME SwitchesTyped, AppTyped, SystemTyped, JobsTyped, CallsFit, [Next]_vars
             PROVE  JobsTyped' /\ CallsFit'
  OBVIOUS
<1> USE DEF app, helper, history
<1>0. /\ pc \in [Threads -> Places] /\ jobs \in Seq(Job)
      /\ \A i \in DOMAIN jobs : jobs[i] \in Job
      /\ <<>> \in Seq(Job) /\ Silent(<<>>)
      /\ GivenUp \in Seq(Job) /\ Silent(GivenUp)
  <2>1. <<>> \in Seq(Job) /\ Silent(<<>>)
    BY DEF Silent
  <2>2. GivenUp \in Seq(Job) /\ Silent(GivenUp)
    BY AllGivenUp DEF JobsTyped, GivenUp
  <2>3. \A i \in DOMAIN jobs : jobs[i] \in Job
    BY LenProperties DEF JobsTyped
  <2> QED
    BY <2>1, <2>2, <2>3 DEF AppTyped, JobsTyped
<1>1. CASE UNCHANGED <<pc, jobs>>
  BY <1>1, CallsStay
<1>2. ASSUME NEW i \in DOMAIN jobs, StartKills(i) \/ Reap(i) PROVE JobsTyped' /\ CallsFit'
  <2>1. PICK at \in Stages : MoveTo(i, at) /\ UNCHANGED pc
    BY <1>2 DEF StartKills, Reap, Stages
  <2>2. jobs' = [jobs EXCEPT ![i] = [jobs[i] EXCEPT !.at = at]]
    BY <2>1 DEF MoveTo
  <2> QED
    BY <1>0, <2>1, <2>2, JobMoves, MoveKept
<1>3. ASSUME NEW i \in DOMAIN jobs,
             SpawnFails(i) \/ RoutesFail(i) \/ RoutesUp(i) \/ Clear(i) \/ RemoveRoutes(i)
      PROVE  JobsTyped' /\ CallsFit'
  <2>1. PICK ok \in BOOLEAN : Reply(i, ok) /\ UNCHANGED pc
    BY <1>3 DEF SpawnFails, RoutesFail, RoutesUp, Clear, RemoveRoutes
  <2>2. jobs' = [jobs EXCEPT ![i] = [jobs[i] EXCEPT !.at = "reply", !.ok = ok]]
    BY <1>0, <2>1 DEF Reply
  <2> QED
    BY <1>0, <2>1, <2>2, JobReplies, MoveKept
<1>4. ASSUME NEW i \in DOMAIN jobs, Spawn(i) PROVE JobsTyped' /\ CallsFit'
  <2>1. PICK c \in Cores, own \in BOOLEAN :
          jobs' = [jobs EXCEPT ![i].at = "install", ![i].core = c, ![i].owns = own]
    BY <1>4 DEF Spawn
  <2>2. jobs' = [jobs EXCEPT ![i] = [jobs[i] EXCEPT !.at = "install", !.core = c, !.owns = own]]
    BY <1>0, <2>1
  <2>3. UNCHANGED pc
    BY <1>4 DEF Spawn
  <2> QED
    BY <1>0, <2>2, <2>3, JobSpawns, MoveKept
<1>5. ASSUME NEW i \in DOMAIN jobs, ReadTarget(i) PROVE JobsTyped' /\ CallsFit'
  <2>1. PICK at \in Stages :
          jobs' = [jobs EXCEPT ![i].core = active, ![i].at = at, ![i].ok = TRUE]
    BY <1>5 DEF ReadTarget, Stages
  <2>2. jobs' = [jobs EXCEPT ![i] = [jobs[i] EXCEPT !.core = active, !.at = at, !.ok = TRUE]]
    BY <1>0, <2>1
  <2>3. UNCHANGED pc /\ active \in Cores \cup {NoCore}
    BY <1>5 DEF ReadTarget, SystemTyped
  <2> QED
    BY <1>0, <2>2, <2>3, JobReads, MoveKept
<1>6. ASSUME NEW i \in DOMAIN jobs, UninstallSelf(i) PROVE JobsTyped' /\ CallsFit'
  <2>1. jobs' = <<>>
    BY <1>6 DEF UninstallSelf
  <2> QED
    BY <1>0, <2>1, SilentKept
<1>7. ASSUME NEW i \in DOMAIN jobs, Return(i) PROVE JobsTyped' /\ CallsFit'
  <2> DEFINE rest == SubSeq(jobs, 1, i - 1) \o SubSeq(jobs, i + 1, Len(jobs))
  <2>1. /\ rest \in Seq(Job)
        /\ jobs[i].open => Silent(rest) /\ pc["caller"] \in InCall
        /\ \A k \in 1 .. Len(rest) :
              rest[k].open => k = Len(rest) /\ pc["caller"] \in InCall
    BY ReturnSilent
  <2>2. CASE jobs[i].open
    <3>1. jobs[i].ok \in BOOLEAN
      BY <1>0 DEF Job
    <3>2. AfterCall(jobs[i].ok, rest)
      BY <1>7, <2>2 DEF Return
    <3> HIDE DEF rest
    <3> QED
      BY <1>0, <2>1, <2>2, <3>1, <3>2, AfterCallKept
  <2>3. CASE ~jobs[i].open
    <3>1. jobs' = rest /\ UNCHANGED pc
      BY <1>7, <2>3 DEF Return
    <3> HIDE DEF rest
    <3> QED
      BY <2>1, <3>1 DEF JobsTyped, CallsFit
  <2> QED
    BY <2>2, <2>3
<1>8. CASE TimeOut
  <2>1. AfterCall(FALSE, GivenUp) /\ pc["caller"] \in InCall
    BY <1>8 DEF TimeOut, Calling, InCall
  <2> QED
    BY <1>0, <2>1, AfterCallKept
<1>9. CASE Unreachable
  <2>1. AfterCall(FALSE, <<>>) /\ pc["caller"] \in InCall
    BY <1>9 DEF Unreachable, Calling, InCall
  <2> QED
    BY <1>0, <2>1, AfterCallKept
<1>10. CASE HelperCrashes \/ ConnectionDrops
  <2>1. Interrupted(<<>>) \/ Interrupted(GivenUp)
    BY <1>10 DEF HelperCrashes, ConnectionDrops
  <2> QED
    BY <1>0, <2>1, InterruptedKept
<1>11. CASE Install \/ ShellRemoves \/ OrphanAppCleanup
  <2>1. jobs' = <<>>
    BY <1>11 DEF Install, ShellRemoves, OrphanAppCleanup
  <2> QED
    BY <1>0, <2>1, SilentKept
<1>12. CASE AppCrashes
  BY <1>0, <1>12, SilentKept DEF AppCrashes
<1>13. CASE StartTun \/ PrepareFails \/ ApiReady \/ ShellFails
  <2>1. pc["caller"] \notin InCall /\ UNCHANGED jobs
    BY <1>13 DEF StartTun, PrepareFails, ApiReady, ShellFails, InCall
  <2> QED
    BY <2>1, CallsStay
<1>14. CASE StartCore \/ ApiNotReady \/ StripGateway \/ UninstallHelper
  <2>1. /\ pc["caller"] \notin InCall
        /\ \E op \in {"start", "stop"} : Call(op, jobs)
        /\ \E p \in {"start", "abort", "stop", "purge"} : GoTo("caller", p)
    BY <1>14 DEF StartCore, ApiNotReady, StripGateway, UninstallHelper, InCall
  <2>2. Silent(jobs) /\ pc'["caller"] \in InCall
    BY <1>0, <2>1, NobodyCalls DEF GoTo, Threads, InCall
  <2> QED
    BY <1>0, <2>1, <2>2, CallKept DEF Ops
<1>15. CASE StopTun
  <2>1. pc["caller"] \notin InCall /\ Silent(jobs)
    BY <1>15, NobodyCalls DEF StopTun, InCall
  <2>2. CASE slot = NoService
    <3>1. GoTo("caller", "stop") /\ Call("stop", jobs)
      BY <1>15, <2>2 DEF StopTun
    <3> QED
      BY <1>0, <2>1, <3>1, CallKept DEF GoTo, Threads, InCall, Ops
  <2>3. CASE slot # NoService
    BY <1>15, <2>1, <2>3, CallsStay DEF StopTun
  <2> QED
    BY <2>2, <2>3
<1>16. ASSUME NEW t \in Threads, Reapply(t) PROVE JobsTyped' /\ CallsFit'
  <2>1. UNCHANGED jobs /\ pc[t] \notin InCall
    BY <1>16, Zenon
       DEF Reapply, Detect, Decide, Restore, Write, WriteFails, Record, InCall
  <2>2. pc'["caller"] = pc["caller"] \/ t = "caller"
    BY <1>0, <1>16 DEF Reapply, Detect, Decide, Restore, Write, WriteFails, Record, Done,
       GoTo, Threads
  <2> QED
    BY <2>1, <2>2, CallsStay
<1>17. CASE Wake
  <2>1. UNCHANGED jobs /\ pc'["caller"] = pc["caller"]
    BY <1>0, <1>17 DEF Wake, GoTo, Threads
  <2> QED
    BY <2>1, CallsStay
<1>18. CASE ExitHandler \/ SkipStop \/ NetworkChanges \/ Launch \/ UNCHANGED vars
  BY <1>1, <1>18, Zenon DEF ExitHandler, SkipStop, NetworkChanges, Launch, vars
<1>19. ASSUME NEW c \in Cores, CoreExits(c) PROVE JobsTyped' /\ CallsFit'
  BY <1>1, <1>19 DEF CoreExits
<1> QED
  BY <1>2, <1>3, <1>4, <1>5, <1>6, <1>7, <1>8, <1>9, <1>10, <1>11, <1>12, <1>13, <1>14,
     <1>15, <1>16, <1>17, <1>18, <1>19
     DEF Next, HelperStep, Caller, Environment
-----------------------------------------------------------------------------
(* The threads and the override. *)

quiet == <<up, pc, hand, slot, lock, tun, dns, lost, raced>>

(* The caller goes from one call to the next, or to what comes between      *)
(* calls: it has not touched the override.                                  *)
Between == {"idle", "install", "start", "ready", "abort", "stop", "routes", "purge",
            "uninstall", "shell"}
CallerMoves ==
    /\ pc["caller"] \in Between /\ (pc["caller"] # "idle" \/ tun = "off")
    /\ \E p \in Between \cup {"detect"} : pc' = [pc EXCEPT !["caller"] = p]
    /\ tun' \in {tun, "off", "unknown"}
    /\ UNCHANGED <<up, hand, slot, lock, dns, lost, raced>>

AfterCallMoves ==
    /\ pc["caller"] \in InCall
    /\ \E p \in Between : pc' = [pc EXCEPT !["caller"] = p]
    /\ tun' \in {tun, "off", "unknown"}

(* It leaves the override alone, *)
LEMMA AfterCallSteps ==
  ASSUME pc["caller"] \in InCall, NEW ok \in BOOLEAN, NEW before, AfterCall(ok, before)
  PROVE  AfterCallMoves
<1>1. \/ \E p \in {"shell", "ready", "idle"} : GoTo("caller", p)
      \/ \E op \in {"routes", "uninstall"} : GoTo("caller", op)
  BY AfterCallGoes
<1>2. tun' \in {tun, "off", "unknown"}
  BY AfterCallGoes
<1> QED
  BY <1>1, <1>2 DEF AfterCallMoves, GoTo, Between

(* and so does an XPC error. *)
LEMMA InterruptedSteps ==
  ASSUME NEW before, Interrupted(before)
  PROVE  UNCHANGED <<pc, tun>> \/ AfterCallMoves
<1>1. CASE Calling /\ ~(~tried /\ pc["caller"] # "uninstall")
  <2>1. AfterCall(FALSE, before) /\ pc["caller"] \in InCall
    BY <1>1 DEF Interrupted, Calling, InCall
  <2> QED
    BY <2>1, AfterCallSteps
<1>2. CASE ~Calling \/ (~tried /\ pc["caller"] # "uninstall")
  BY <1>2, Zenon DEF Interrupted
<1> QED
  BY <1>1, <1>2

Others ==
    \/ StopTun \/ SkipStop \/ StripGateway \/ Wake \/ NetworkChanges \/ AppCrashes \/ Launch
    \/ \E t \in Threads : Reapply(t)

(* What a step does to the override. *)
LEMMA Steps ==
  ASSUME JobsTyped, CallsFit, [Next]_vars
  PROVE  UNCHANGED quiet \/ CallerMoves \/ Others
<1> USE DEF app, helper, history
<1> DEFINE rest == <<up, hand, slot, lock, dns, lost, raced>>
<1>1. ASSUME AfterCallMoves, UNCHANGED rest PROVE CallerMoves
  BY <1>1 DEF AfterCallMoves, CallerMoves, InCall, Between
<1>2. ASSUME NEW i \in DOMAIN jobs,
             StartKills(i) \/ SpawnFails(i) \/ Spawn(i) \/ RoutesFail(i) \/ RoutesUp(i)
             \/ ReadTarget(i) \/ Reap(i) \/ Clear(i) \/ RemoveRoutes(i)
      PROVE  UNCHANGED quiet
  BY <1>2, Zenon DEF quiet, StartKills, SpawnFails, Spawn, RoutesFail, RoutesUp,
     ReadTarget, Reap, Clear, RemoveRoutes
<1>3. ASSUME NEW i \in DOMAIN jobs, UninstallSelf(i) PROVE UNCHANGED quiet \/ CallerMoves
  <2>1. UNCHANGED rest /\ UNCHANGED tun
    BY <1>3, Zenon DEF UninstallSelf, HelperEnds
  <2>2. CASE jobs[i].open
    <3>1. pc["caller"] \in InCall
      BY <2>2, ReturnSilent
    <3>2. pc' = [pc EXCEPT !["caller"] = "idle"]
      BY <1>3, <2>2 DEF UninstallSelf, GoTo
    <3> QED
      BY <1>1, <2>1, <3>1, <3>2 DEF AfterCallMoves, Between
  <2>3. CASE ~jobs[i].open
    BY <1>3, <2>1, <2>3 DEF UninstallSelf, quiet
  <2> QED
    BY <2>2, <2>3
<1>4. ASSUME NEW i \in DOMAIN jobs, Return(i) PROVE UNCHANGED quiet \/ CallerMoves
  <2>1. UNCHANGED rest
    BY <1>4, Zenon DEF Return
  <2>2. CASE jobs[i].open
    <3> DEFINE before == SubSeq(jobs, 1, i - 1) \o SubSeq(jobs, i + 1, Len(jobs))
    <3>1. pc["caller"] \in InCall
      BY <2>2, ReturnSilent
    <3>2. jobs[i].ok \in BOOLEAN
      <4>1. jobs[i] \in Job
        BY LenProperties DEF JobsTyped
      <4> QED
        BY <4>1 DEF Job
    <3>3. AfterCall(jobs[i].ok, before)
      BY <1>4, <2>2 DEF Return
    <3> HIDE DEF before
    <3> QED
      BY <1>1, <2>1, <3>1, <3>2, <3>3, AfterCallSteps
  <2>3. CASE ~jobs[i].open
    BY <1>4, <2>1, <2>3 DEF Return, quiet
  <2> QED
    BY <2>2, <2>3
<1>5. CASE TimeOut \/ Unreachable
  <2>1. pc["caller"] \in InCall /\ \E before : AfterCall(FALSE, before)
    BY <1>5 DEF TimeOut, Unreachable, Calling, InCall
  <2>2. UNCHANGED rest
    BY <1>5, Zenon DEF TimeOut, Unreachable
  <2> QED
    BY <1>1, <2>1, <2>2, AfterCallSteps
<1>6. CASE HelperCrashes \/ ConnectionDrops
  <2>1. UNCHANGED rest
    BY <1>6, Zenon DEF HelperCrashes, ConnectionDrops, HelperEnds
  <2>2. \E before : Interrupted(before)
    BY <1>6, Zenon DEF HelperCrashes, ConnectionDrops
  <2> QED
    BY <1>1, <2>1, <2>2, InterruptedSteps DEF quiet
<1>7. CASE StartTun \/ PrepareFails \/ StartCore \/ ApiReady \/ ApiNotReady
           \/ UninstallHelper \/ ShellRemoves \/ ShellFails
  <2>1. UNCHANGED rest /\ tun' \in {tun, "unknown"}
    BY <1>7, SMTT(20) DEF StartTun, PrepareFails, StartCore, ApiReady, ApiNotReady,
       UninstallHelper, ShellRemoves, ShellFails, HelperEnds
  <2>2. /\ pc["caller"] \in Between /\ (pc["caller"] # "idle" \/ tun = "off")
        /\ \E p \in Between \cup {"detect"} : pc' = [pc EXCEPT !["caller"] = p]
    BY <1>7, SMTT(20) DEF StartTun, PrepareFails, StartCore, ApiReady, ApiNotReady,
       UninstallHelper, ShellRemoves, ShellFails, GoTo, Between
  <2> QED
    BY <2>1, <2>2 DEF CallerMoves
<1>8. CASE Install \/ OrphanAppCleanup \/ ExitHandler \/ UNCHANGED vars
  BY <1>8, Zenon DEF quiet, Install, OrphanAppCleanup, ExitHandler, HelperEnds, vars
<1>9. ASSUME NEW c \in Cores, CoreExits(c) PROVE UNCHANGED quiet
  BY <1>9, Zenon DEF quiet, CoreExits
<1> HIDE DEF rest
<1> QED
  BY <1>2, <1>3, <1>4, <1>5, <1>6, <1>7, <1>8, <1>9
     DEF Next, HelperStep, Caller, Environment, Others

(* Threads stay where there is a place for them. *)
LEMMA AppInductive ==
  AppTyped /\ SystemTyped /\ JobsTyped /\ CallsFit /\ [Next]_vars => AppTyped'
<1> SUFFICES ASSUME AppTyped, SystemTyped, JobsTyped, CallsFit, [Next]_vars
             PROVE  AppTyped'
  OBVIOUS
<1> USE DEF app, helper, history
<1>1. CASE UNCHANGED quiet
  BY <1>1, Zenon DEF quiet, AppTyped
<1>2. CASE CallerMoves
  BY <1>2 DEF CallerMoves, AppTyped, Between, Places
<1>3. CASE StopTun
  <2>1. hand' \in [Threads -> Hand]
    BY <1>3 DEF StopTun, AppTyped, SystemTyped, Hand, Threads
  <2>2. \E p \in {"stop", "strip"} : pc' = [pc EXCEPT !["caller"] = p]
    BY <1>3 DEF StopTun, GoTo
  <2> QED
    BY <1>3, <2>1, <2>2 DEF StopTun, AppTyped, Places
<1>4. CASE SkipStop \/ NetworkChanges \/ Launch
  BY <1>4 DEF SkipStop, NetworkChanges, Launch, AppTyped
<1>5. CASE StripGateway
  BY <1>5 DEF StripGateway, GoTo, AppTyped, Nothing, Hand, Servers, Places
<1>6. CASE Wake
  BY <1>6 DEF Wake, GoTo, AppTyped, Places
<1>7. CASE AppCrashes
  BY <1>7 DEF AppCrashes, AppTyped, Nothing, Hand, Servers, Places
<1>8. ASSUME NEW t \in Threads, Done(t)
      PROVE  pc' \in [Threads -> Places] /\ hand' \in [Threads -> Hand]
             /\ tun' \in {"off", "on", "unknown"}
  BY <1>8 DEF Done, GoTo, AppTyped, Nothing, Hand, Servers, Places
<1>9. ASSUME NEW t \in Threads, Detect(t) PROVE AppTyped'
  <2>1. CASE Done(t)
    BY <1>8, <1>9, <2>1 DEF Detect, AppTyped
  <2>2. CASE ~Done(t)
    <3>1. [Nothing EXCEPT !.service = primary, !.servers = dns[primary]] \in Hand
      BY <1>9, <2>2 DEF Detect, Nothing, Hand, SystemTyped
    <3> QED
      BY <1>9, <2>2, <3>1 DEF Detect, GoTo, AppTyped, Places
  <2> QED
    BY <2>1, <2>2
<1>10. ASSUME NEW t \in Threads, Decide(t) PROVE AppTyped'
  <2>1. CASE Done(t)
    BY <1>8, <1>10, <2>1, SMTT(20) DEF Decide, AppTyped
  <2>2. CASE ~Done(t)
    <3>1. hand' \in [Threads -> Hand]
      BY <1>10, <2>2, SMTT(20) DEF Decide, AppTyped, SystemTyped, Hand
    <3>2. \E p \in {"write", "restore"} : pc' = [pc EXCEPT ![t] = p]
      BY <1>10, <2>2 DEF Decide, GoTo
    <3> QED
      BY <1>10, <2>2, <3>1, <3>2 DEF Decide, AppTyped, Places
  <2> QED
    BY <2>1, <2>2
<1>11. ASSUME NEW t \in Threads, Restore(t) PROVE AppTyped'
  BY <1>11 DEF Restore, GoTo, AppTyped, Places
<1>12. ASSUME NEW t \in Threads, Write(t) PROVE AppTyped'
  <2>1. hand[t].service \in Services \cup {NoService}
    BY DEF AppTyped, Hand
  <2>2. slot' \in Services \cup {NoService} /\ lock' \in Threads \cup {NoThread}
    BY <1>12, <2>1 DEF Write, AppTyped
  <2>3. Done(t) \/ (GoTo(t, "record") /\ UNCHANGED <<hand, tun>>)
    BY <1>12, Zenon DEF Write
  <2> QED
    BY <1>8, <2>2, <2>3 DEF AppTyped, GoTo, Places
<1>13. ASSUME NEW t \in Threads, WriteFails(t) PROVE AppTyped'
  BY <1>8, <1>13 DEF WriteFails, AppTyped
<1>14. ASSUME NEW t \in Threads, Record(t) PROVE AppTyped'
  <2>1. hand[t].service \in Services \cup {NoService}
    BY DEF AppTyped, Hand
  <2> QED
    BY <1>8, <1>14, <2>1 DEF Record, AppTyped
<1> QED
  BY <1>1, <1>2, <1>3, <1>4, <1>5, <1>6, <1>7, <1>9, <1>10, <1>11, <1>12, <1>13, <1>14, Steps
     DEF Others, Reapply

-----------------------------------------------------------------------------
(* What each thread holds. *)

(* A thread that is done holds nothing and is nowhere. *)
LEMMA DoneParts ==
  ASSUME AppTyped, NEW t \in Threads, Done(t)
  PROVE  /\ pc' = [pc EXCEPT ![t] = "idle"] /\ pc'[t] = "idle"
         /\ hand' = [hand EXCEPT ![t] = Nothing]
         /\ t = "caller" => tun' = "on"
         /\ t # "caller" => tun' = tun
  BY DEF Done, GoTo, AppTyped

(* Every step keeps what a thread holds in step with where it is. *)
LEMMA HandsInductive ==
  AppTyped /\ SystemTyped /\ JobsTyped /\ CallsFit /\ HandsFit /\ [Next]_vars => HandsFit'
<1> SUFFICES ASSUME AppTyped, SystemTyped, JobsTyped, CallsFit, HandsFit, [Next]_vars
             PROVE  HandsFit'
  OBVIOUS
<1> USE DEF app, helper, history
<1>0. /\ pc \in [Threads -> Places] /\ hand \in [Threads -> Hand]
      /\ NoThread \notin Threads /\ "caller" \in Threads /\ "watcher" \in Threads
      /\ lock \in Threads \cup {NoThread}
  BY DEF AppTyped, Threads
<1>1. CASE UNCHANGED quiet
  BY <1>1, Zenon DEF quiet, HandsFit
<1>2. CASE CallerMoves
  <2>1. up
    BY <1>2 DEF CallerMoves, HandsFit, Threads
  <2> QED
    BY <1>0, <1>2, <2>1, SMTT(20) DEF CallerMoves, HandsFit, Between, Threads
<1>3. CASE StopTun
  <2>1. /\ up /\ UNCHANGED <<up, lock>> /\ lock = NoThread /\ pc["caller"] = "idle"
        /\ \/ pc' = [pc EXCEPT !["caller"] = "stop"] /\ hand' = hand
           \/ /\ pc' = [pc EXCEPT !["caller"] = "strip"] /\ slot # NoService
              /\ hand' = [hand EXCEPT !["caller"] =
                             [service |-> slot, prev |-> NoService, servers |-> dns[slot]]]
    BY <1>3 DEF StopTun, GoTo, Unlocked
  <2> QED
    BY <1>0, <2>1, SMTT(20) DEF HandsFit, Threads, Reapplying
<1>4. CASE SkipStop \/ NetworkChanges \/ Launch
  <2>1. UNCHANGED <<pc, hand, lock, slot>> /\ (up' \/ UNCHANGED <<up, tun>>)
    <3>1. CASE SkipStop \/ Launch
      BY <3>1 DEF SkipStop, Launch
    <3>2. CASE NetworkChanges
      BY <3>2, Zenon DEF NetworkChanges
    <3> QED
      BY <1>4, <3>1, <3>2
  <2> QED
    BY <1>4, <2>1 DEF HandsFit
<1>5. CASE StripGateway
  <2>1. /\ UNCHANGED <<up, lock>> /\ pc["caller"] = "strip"
        /\ pc' = [pc EXCEPT !["caller"] = "stop"]
        /\ hand' = [hand EXCEPT !["caller"] = Nothing]
    BY <1>5 DEF StripGateway, GoTo
  <2> QED
    BY <1>0, <2>1, SMTT(20) DEF HandsFit, Threads, Reapplying
<1>6. CASE Wake
  <2>1. /\ UNCHANGED <<up, hand, lock, tun>> /\ pc["watcher"] = "idle" /\ lock = NoThread
        /\ UNCHANGED slot
        /\ pc' = pc \/ (pc' = [pc EXCEPT !["watcher"] = "detect"] /\ slot # NoService)
    BY <1>6 DEF Wake, GoTo, Unlocked
  <2> QED
    BY <1>0, <2>1, SMTT(20) DEF HandsFit, Threads, Reapplying
<1>7. CASE AppCrashes
  <2>1. /\ ~up' /\ lock' = NoThread /\ slot' = NoService /\ tun' = "unknown"
        /\ pc' = [t \in Threads |-> "idle"]
    BY <1>7 DEF AppCrashes
  <2> QED
    BY <1>0, <2>1 DEF HandsFit
<1>8. ASSUME NEW t \in Threads, pc[t] \in Reapplying, UNCHANGED up,
             lock' = lock \/ lock' = NoThread, lock = t => lock' = NoThread,
             Done(t)
      PROVE  HandsFit'
  <2>1. /\ pc' = [pc EXCEPT ![t] = "idle"] /\ hand' = [hand EXCEPT ![t] = Nothing]
        /\ up
    BY <1>8, DoneParts DEF HandsFit, Reapplying
  <2> QED
    BY <1>0, <1>8, <2>1, SMTT(20) DEF HandsFit, Threads
<1>9. ASSUME NEW t \in Threads, pc[t] \in Reapplying, UNCHANGED up, lock # t,
             lock' = lock \/ (lock = NoThread /\ lock' = t /\ pc'[t] = "write"),
             NEW p \in Reapplying, pc' = [pc EXCEPT ![t] = p],
             NEW h \in Hand, h.service # NoService,
             p \in {"restore", "record"} => h.prev # NoService,
             hand' = [hand EXCEPT ![t] = h]
      PROVE  HandsFit'
  <2>1. up
    BY <1>9 DEF HandsFit, Reapplying
  <2> QED
    BY <1>0, <1>9, <2>1, SMTT(30) DEF HandsFit, Threads
<1>10. ASSUME NEW t \in Threads, Detect(t) PROVE HandsFit'
  <2>1. UNCHANGED <<up, lock>> /\ lock = NoThread /\ pc[t] = "detect" /\ lock # t
    BY <1>0, <1>10 DEF Detect, Unlocked
  <2>2. CASE Done(t)
    BY <1>8, <2>1, <2>2 DEF Reapplying
  <2>3. CASE ~Done(t)
    <3> DEFINE h == [Nothing EXCEPT !.service = primary, !.servers = dns[primary]]
    <3>1. h \in Hand /\ h.service # NoService
      BY <1>10, <2>3 DEF Detect, Nothing, Hand, SystemTyped
    <3>2. pc' = [pc EXCEPT ![t] = "decide"] /\ hand' = [hand EXCEPT ![t] = h]
      BY <1>10, <2>3 DEF Detect, GoTo
    <3> HIDE DEF h
    <3> QED
      BY <1>9, <2>1, <3>1, <3>2 DEF Reapplying
  <2> QED
    BY <2>2, <2>3
<1>11. ASSUME NEW t \in Threads, Decide(t) PROVE HandsFit'
  <2>1. /\ UNCHANGED up /\ lock = NoThread /\ pc[t] = "decide" /\ lock # t
        /\ hand[t] \in Hand /\ hand[t].service # NoService
    BY <1>0, <1>11 DEF Decide, Unlocked, HandsFit
  <2>2. CASE Done(t)
    <3>1. UNCHANGED lock
      BY <1>0, <1>11, <2>1, <2>2, DoneParts, SMTT(20) DEF Decide, GoTo
    <3> QED
      BY <1>8, <2>1, <2>2, <3>1 DEF Reapplying
  <2>3. CASE GoTo(t, "write") /\ UNCHANGED hand /\ lock' \in {lock, t}
    <3>1. hand' = [hand EXCEPT ![t] = hand[t]]
      BY <1>0, <2>3
    <3>2. pc' = [pc EXCEPT ![t] = "write"] /\ pc'[t] = "write"
      BY <1>0, <2>3 DEF GoTo
    <3> QED
      BY <1>9, <2>1, <2>3, <3>1, <3>2 DEF Reapplying
  <2>4. CASE /\ slot # NoService /\ GoTo(t, "restore") /\ UNCHANGED lock
             /\ hand' = [hand EXCEPT ![t].prev = slot, ![t].servers = dns[slot]]
    <3> DEFINE h == [hand[t] EXCEPT !.prev = slot, !.servers = dns[slot]]
    <3>1. slot \in Services /\ dns[slot] \in Servers
      BY <2>4 DEF AppTyped, SystemTyped
    <3>2. h \in Hand /\ h.service # NoService /\ h.prev # NoService
      BY <2>1, <2>4, <3>1 DEF Hand
    <3>3. hand' = [hand EXCEPT ![t] = h] /\ pc' = [pc EXCEPT ![t] = "restore"]
      BY <1>0, <2>4 DEF GoTo
    <3> HIDE DEF h
    <3> QED
      BY <1>9, <2>1, <2>4, <3>2, <3>3 DEF Reapplying
  <2> QED
    BY <1>11, <2>2, <2>3, <2>4, Zenon DEF Decide
<1>12. ASSUME NEW t \in Threads, Restore(t) PROVE HandsFit'
  <2>1. /\ UNCHANGED <<up, hand, lock>> /\ pc[t] = "restore"
        /\ pc' = [pc EXCEPT ![t] = "write"]
    BY <1>12 DEF Restore, GoTo
  <2>2. /\ lock # t /\ hand[t] \in Hand /\ hand[t].service # NoService
        /\ hand' = [hand EXCEPT ![t] = hand[t]]
    BY <1>0, <2>1 DEF HandsFit
  <2> QED
    BY <1>9, <2>1, <2>2 DEF Reapplying
<1>13. ASSUME NEW t \in Threads, Write(t) PROVE HandsFit'
  <2>1. UNCHANGED up /\ pc[t] = "write"
    BY <1>13 DEF Write
  <2>2. CASE Done(t) /\ (lock = t => lock' = NoThread) /\ lock' \in {lock, NoThread}
    BY <1>8, <2>1, <2>2 DEF Reapplying
  <2>3. CASE /\ lock # t /\ hand[t].prev # NoService /\ GoTo(t, "record")
             /\ UNCHANGED <<hand, lock>>
    <3>1. /\ hand[t] \in Hand /\ hand[t].service # NoService
          /\ hand' = [hand EXCEPT ![t] = hand[t]] /\ pc' = [pc EXCEPT ![t] = "record"]
      BY <1>0, <2>1, <2>3 DEF HandsFit, GoTo
    <3> QED
      BY <1>9, <2>1, <2>3, <3>1 DEF Reapplying
  <2>4. \/ Done(t) /\ (lock = t => lock' = NoThread) /\ lock' \in {lock, NoThread}
        \/ /\ lock # t /\ hand[t].prev # NoService /\ GoTo(t, "record")
           /\ UNCHANGED <<hand, lock>>
    BY <1>13, SMTT(20) DEF Write
  <2> QED
    BY <2>2, <2>3, <2>4
<1>14. ASSUME NEW t \in Threads, WriteFails(t) PROVE HandsFit'
  <2>1. /\ UNCHANGED up /\ pc[t] = "write" /\ Done(t)
        /\ lock' = IF lock = t THEN NoThread ELSE lock
    BY <1>14 DEF WriteFails
  <2> QED
    BY <1>8, <2>1 DEF Reapplying
<1>15. ASSUME NEW t \in Threads, Record(t) PROVE HandsFit'
  <2>1. UNCHANGED <<up, lock>> /\ pc[t] = "record" /\ Done(t) /\ lock = NoThread
    BY <1>15 DEF Record, Unlocked
  <2> QED
    BY <1>8, <2>1 DEF Reapplying
<1> QED
  BY <1>1, <1>2, <1>3, <1>4, <1>5, <1>6, <1>7, <1>10, <1>11, <1>12, <1>13, <1>14, <1>15,
     Steps
     DEF Others, Reapply

-----------------------------------------------------------------------------
(* The override itself, while nobody raced. *)

NothingForgotten == \A s \in Services : Overridden(s) => Tracked(s) \/ s \in lost

(* A service nobody tracks is forgotten: what the slot, a switch and a stop *)
(* say about it is all there is.                                            *)
LEMMA NobodyTracks ==
  ASSUME Kept, slot = NoService
  PROVE  /\ pc["watcher"] = "idle"
         /\ \A s \in Services :
               Overridden(s) => \/ s \in lost
                                \/ pc["caller"] = "strip" /\ hand["caller"].service = s
  BY SMTT(20) DEF Kept, Turns, Tracked, Threads

(* While the slot is taken nobody calls, and only a switch goes beyond the slot. *)
LEMMA OnlyTheSlot ==
  ASSUME Kept, HandsFit, slot # NoService
  PROVE  /\ pc["caller"] = "idle" /\ tun # "off"
         /\ \A s \in Services :
               Overridden(s) => \/ s \in lost \/ s = slot
                                \/ pc["watcher"] = "record" /\ hand["watcher"].service = s
<1>1. pc["caller"] = "idle" /\ tun # "off"
  BY DEF Kept, Turns
<1>2. pc["watcher"] = "restore" => hand["watcher"].prev = slot
  BY DEF Kept, Switch
<1>3. pc["watcher"] # "strip"
  BY DEF HandsFit, Reapplying
<1> QED
  BY <1>1, <1>2, <1>3 DEF Kept, Tracked, Threads

(* A race is never forgotten. *)
LEMMA RacedStays == [Next]_vars /\ ~raced' => ~raced
<1> SUFFICES ASSUME [Next]_vars, raced PROVE raced'
  BY Zenon
<1> USE DEF app, helper, history
<1>1. CASE StopTun \/ SkipStop
  BY <1>1, Zenon DEF StopTun, SkipStop
<1>2. CASE UNCHANGED raced
  BY <1>2
<1>4. ASSUME NEW i \in DOMAIN jobs,
             \/ StartKills(i) \/ SpawnFails(i) \/ Spawn(i) \/ RoutesFail(i) \/ RoutesUp(i)
             \/ ReadTarget(i) \/ Reap(i) \/ Clear(i) \/ RemoveRoutes(i) \/ UninstallSelf(i)
             \/ Return(i)
      PROVE  UNCHANGED raced
  BY <1>4, Zenon DEF StartKills, SpawnFails, Spawn, RoutesFail, RoutesUp, ReadTarget, Reap,
     Clear, RemoveRoutes, UninstallSelf, Return, HelperEnds
<1>5. CASE ExitHandler \/ StartTun \/ PrepareFails \/ Install \/ StartCore \/ ApiReady
           \/ ApiNotReady \/ StripGateway \/ UninstallHelper \/ ShellRemoves \/ ShellFails
           \/ Unreachable \/ Wake \/ NetworkChanges \/ AppCrashes \/ Launch
           \/ OrphanAppCleanup \/ HelperCrashes \/ TimeOut \/ ConnectionDrops
           \/ UNCHANGED vars
  BY <1>2, <1>5, Zenon DEF ExitHandler, StartTun, PrepareFails, Install, StartCore, ApiReady,
     ApiNotReady, StripGateway, UninstallHelper, ShellRemoves, ShellFails, Unreachable,
     Wake, NetworkChanges, AppCrashes, Launch, OrphanAppCleanup, HelperCrashes, TimeOut,
     ConnectionDrops, HelperEnds, vars
<1>6. ASSUME NEW t \in Threads, Reapply(t) PROVE UNCHANGED raced
  BY <1>6, Zenon DEF Reapply, Detect, Decide, Restore, Write, WriteFails, Record
<1>7. ASSUME NEW c \in Cores, CoreExits(c) PROVE UNCHANGED raced
  BY <1>7, Zenon DEF CoreExits
<1> QED
  BY <1>1, <1>2, <1>4, <1>5, <1>6, <1>7 DEF Next, HelperStep, Caller, Environment

(* Writes to the servers of one service. *)
LEMMA DnsWritten ==
  ASSUME SystemTyped, NEW s \in Services, NEW servers \in Servers,
         SetDns(s, servers) \/ SetDnsFails(s, servers)
  PROVE  /\ lost \subseteq lost'
         /\ \A x \in Services \ {s} : dns'[x] = dns[x]
         /\ dns'[s] \in {"gateway", "both"} => servers \in {"gateway", "both"} \/ s \in lost'
  BY SMTT(30) DEF SystemTyped, SetDns, SetDnsFails, Overridden

(* A write that fails forgets the service, or leaves it as it was. *)
LEMMA WriteMayFail ==
  ASSUME SystemTyped, NEW s \in Services, NEW servers \in Servers, SetDnsFails(s, servers)
  PROVE  dns'[s] \in {"gateway", "both"} => s \in lost'
  BY SMTT(30) DEF SystemTyped, SetDnsFails, Overridden

(* Servers without the gateway are no override. *)
LEMMA Stripped == \A servers \in Servers : Strip(servers) \in {"own", "empty"}
  BY DEF Servers, Strip

(* What there is to show when the watcher rests, and when it works. *)
LEMMA RestKept ==
  ASSUME pc'["watcher"] = "idle", lock' # "watcher",
         pc'["caller"] # "idle" \/ tun' = "off" => slot' = NoService,
         pc'["caller"] \notin {"restore", "record"},
         pc'["caller"] = "write" => lock' = "caller",
         NothingForgotten'
  PROVE  Kept'
  BY DEF Kept, Turns, Switch, NothingForgotten

(* The watcher works on a slot that is taken. *)
LEMMA WorkKept ==
  ASSUME pc'["caller"] = "idle", slot' # NoService, tun' # "off", lock' # "watcher",
         Switch', NothingForgotten'
  PROVE  Kept'
  BY DEF Kept, Turns, NothingForgotten

(* Steps of the caller. *)
LEMMA CallerKeeps ==
  ASSUME AppTyped, SystemTyped, HandsFit, Kept,
         CallerMoves \/ StopTun \/ SkipStop \/ StripGateway, ~raced'
  PROVE  Kept'
<1>0. /\ pc \in [Threads -> Places] /\ hand \in [Threads -> Hand]
      /\ "caller" \in Threads /\ "watcher" \in Threads
      /\ slot \in Services \cup {NoService}
      /\ lock # "watcher"
      /\ \A t \in Threads : lock = t => pc[t] = "write"
  BY DEF AppTyped, Threads, Kept, Turns, HandsFit
<1>1. CASE CallerMoves
  <2>1. slot = NoService
    BY <1>1 DEF CallerMoves, Kept, Turns
  <2>2. pc["watcher"] = "idle" /\ \A s \in Services : Overridden(s) => s \in lost
    BY <1>1, <2>1, NobodyTracks DEF CallerMoves, Between
  <2>3. NothingForgotten'
    BY <1>1, <2>2 DEF CallerMoves, NothingForgotten, Overridden
  <2>4. /\ pc'["watcher"] = "idle" /\ slot' = NoService /\ lock' # "watcher"
        /\ pc'["caller"] \in Between \cup {"detect"}
    BY <1>0, <1>1, <2>1, <2>2 DEF CallerMoves
  <2> QED
    BY <2>3, <2>4, RestKept DEF Between
<1>2. CASE StopTun
  <2>1. /\ pc["watcher"] = "idle" /\ pc["caller"] = "idle" /\ slot' = NoService
        /\ lock' # "watcher" /\ UNCHANGED <<dns, lost>>
    <3>1. raced' = (raced \/ pc["watcher"] # "idle")
      BY <1>2, Zenon DEF StopTun
    <3>2. pc["watcher"] = "idle"
      BY <3>1, Zenon
    <3> QED
      BY <1>0, <1>2, <3>2 DEF StopTun, history
  <2>2. CASE slot = NoService
    <3>1. \A s \in Services : Overridden(s) => s \in lost
      BY <2>1, <2>2, NobodyTracks
    <3>2. pc' = [pc EXCEPT !["caller"] = "stop"]
      BY <1>2, <2>2 DEF StopTun, GoTo
    <3>3. NothingForgotten'
      BY <2>1, <3>1 DEF NothingForgotten, Overridden
    <3> QED
      BY <1>0, <2>1, <3>2, <3>3, RestKept
  <2>3. CASE slot # NoService
    <3>1. \A s \in Services : Overridden(s) => s \in lost \/ s = slot
      BY <2>1, <2>3, OnlyTheSlot
    <3>2. /\ pc' = [pc EXCEPT !["caller"] = "strip"]
          /\ hand' = [hand EXCEPT !["caller"] = [service |-> slot, prev |-> NoService,
                                                 servers |-> dns[slot]]]
      BY <1>2, <2>3 DEF StopTun, GoTo
    <3>3. pc'["caller"] = "strip" /\ hand'["caller"].service = slot
          /\ pc'["watcher"] = "idle"
      BY <1>0, <2>1, <3>2
    <3>4. NothingForgotten'
      BY <1>0, <2>1, <3>1, <3>3 DEF NothingForgotten, Overridden, Tracked
    <3> QED
      BY <2>1, <3>3, <3>4, RestKept
  <2> QED
    BY <2>2, <2>3
<1>3. CASE SkipStop
  <2>1. slot = NoService /\ pc["caller"] = "idle" /\ UNCHANGED <<pc, hand, slot, lock, dns, lost>>
    <3>1. raced' = (raced \/ slot # NoService)
      BY <1>3, Zenon DEF SkipStop
    <3>2. slot = NoService
      BY <3>1, Zenon
    <3> QED
      BY <1>3, <3>2 DEF SkipStop
  <2>2. pc["watcher"] = "idle" /\ \A s \in Services : Overridden(s) => s \in lost
    BY <2>1, NobodyTracks
  <2>3. NothingForgotten'
    BY <2>1, <2>2 DEF NothingForgotten, Overridden
  <2> QED
    BY <1>0, <2>1, <2>2, <2>3, RestKept
<1>4. CASE StripGateway
  <2>0. PICK s0, stripped : s0 = hand["caller"].service /\ stripped = Strip(hand["caller"].servers)
    OBVIOUS
  <2>1. /\ pc["caller"] = "strip" /\ UNCHANGED <<slot, lock>>
        /\ SetDns(s0, stripped) \/ SetDnsFails(s0, stripped)
        /\ pc' = [pc EXCEPT !["caller"] = "stop"]
    BY <1>4, <2>0 DEF StripGateway, GoTo
  <2>2. s0 \in Services /\ stripped \in Servers /\ stripped \notin {"gateway", "both"}
    <3>1. hand["caller"].service # NoService /\ hand["caller"] \in Hand
      BY <1>0, <2>1 DEF HandsFit
    <3> QED
      BY <2>0, <3>1, Stripped DEF Hand, Servers
  <2>3. slot = NoService
    BY <2>1 DEF Kept, Turns
  <2>4. pc["watcher"] = "idle" /\ \A s \in Services : Overridden(s) => s \in lost \/ s = s0
    BY <2>0, <2>3, NobodyTracks
  <2>5. /\ lost \subseteq lost'
        /\ \A x \in Services \ {s0} : dns'[x] = dns[x]
        /\ dns'[s0] \in {"gateway", "both"} => s0 \in lost'
    BY <2>1, <2>2, DnsWritten
  <2>6. NothingForgotten'
    BY <2>4, <2>5 DEF NothingForgotten, Overridden
  <2>7. pc'["caller"] = "stop" /\ pc'["watcher"] = "idle" /\ slot' = NoService
        /\ lock' # "watcher"
    BY <1>0, <2>1, <2>3, <2>4
  <2> QED
    BY <2>6, <2>7, RestKept
<1> QED
  BY <1>1, <1>2, <1>3, <1>4

(* Steps of the caller that makes the override: the slot is free and the    *)
(* watcher rests.                                                           *)
LEMMA OverrideKeeps ==
  ASSUME AppTyped, SystemTyped, HandsFit, Kept, Reapply("caller")
  PROVE  Kept'
<1>0. /\ pc \in [Threads -> Places] /\ hand \in [Threads -> Hand]
      /\ "caller" \in Threads /\ "watcher" \in Threads /\ NoThread \notin Threads
      /\ slot \in Services \cup {NoService} /\ lock # "watcher"
      /\ pc["caller"] \notin {"restore", "record"}
      /\ pc["caller"] = "write" => lock = "caller"
  BY DEF AppTyped, Threads, Kept, Turns
<1>1. slot = NoService /\ pc["caller"] \in {"detect", "decide", "write"}
  <2>1. pc["caller"] \in {"detect", "decide", "write"}
    BY <1>0, Zenon DEF Reapply, Detect, Decide, Restore, Write, WriteFails, Record
  <2> QED
    BY <2>1 DEF Kept, Turns
<1>2. pc["watcher"] = "idle" /\ \A s \in Services : Overridden(s) => s \in lost
  BY <1>1, NobodyTracks
<1>3. ASSUME Done("caller")
      PROVE  pc'["caller"] = "idle" /\ pc'["watcher"] = "idle" /\ tun' = "on"
  BY <1>0, <1>2, <1>3, DoneParts
<1>4. CASE UNCHANGED <<dns, lost>>
  <2>1. NothingForgotten'
    BY <1>2, <1>4 DEF NothingForgotten, Overridden
  <2>2. CASE Detect("caller")
    <3>1. UNCHANGED <<slot, lock>> /\ lock = NoThread
      BY <2>2 DEF Detect, Unlocked
    <3>2. CASE Done("caller")
      BY <1>0, <1>3, <2>1, <3>1, <3>2, RestKept
    <3>3. CASE pc' = [pc EXCEPT !["caller"] = "decide"]
      BY <1>0, <1>1, <1>2, <2>1, <3>1, <3>3, RestKept
    <3> QED
      BY <2>2, <3>2, <3>3 DEF Detect, GoTo
  <2>3. CASE Decide("caller")
    <3>1. /\ lock' = "caller" /\ UNCHANGED slot
          /\ pc' = [pc EXCEPT !["caller"] = "write"]
      BY <1>0, <1>1, <2>3 DEF Decide, GoTo, HandsFit
    <3> QED
      BY <1>0, <1>1, <1>2, <2>1, <3>1, RestKept
  <2>4. Detect("caller") \/ Decide("caller") \/ Write("caller") \/ WriteFails("caller")
    BY <1>0 DEF Reapply, Restore, Record
  <2>5. CASE Write("caller") \/ WriteFails("caller")
    <3>1. Done("caller") /\ lock' = NoThread
      BY <1>0, <2>5 DEF Write, WriteFails
    <3> QED
      BY <1>0, <1>3, <2>1, <3>1, RestKept
  <2> QED
    BY <2>2, <2>3, <2>4, <2>5
<1>5. CASE Write("caller") \/ WriteFails("caller")
  <2>0. PICK s0 : s0 = hand["caller"].service
    OBVIOUS
  <2>1. /\ lock = "caller" /\ lock' = NoThread /\ Done("caller")
        /\ \/ SetDns(s0, "gateway") /\ slot' = s0
           \/ SetDnsFails(s0, "gateway") /\ UNCHANGED slot
    BY <1>0, <1>5, <2>0 DEF Write, WriteFails
  <2>2. s0 \in Services
    <3>1. hand["caller"].service # NoService /\ hand["caller"] \in Hand
      BY <1>0, <1>5 DEF HandsFit, Write, WriteFails
    <3> QED
      BY <2>0, <3>1 DEF Hand
  <2>3. /\ lost \subseteq lost'
        /\ \A x \in Services \ {s0} : dns'[x] = dns[x]
    BY <2>1, <2>2, DnsWritten DEF Servers
  <2>4. slot' = s0 \/ (dns'[s0] \in {"gateway", "both"} => s0 \in lost')
    BY <2>1, <2>2, WriteMayFail DEF Servers
  <2>5. NothingForgotten'
    BY <1>2, <2>3, <2>4 DEF NothingForgotten, Overridden, Tracked
  <2> QED
    BY <1>0, <1>3, <2>1, <2>5, RestKept
<1> QED
  BY <1>0, <1>4, <1>5, Zenon
     DEF Reapply, Detect, Decide, Restore, Record, history

(* Steps of the watcher: the slot is taken and nobody calls. *)
LEMMA WatcherKeeps ==
  ASSUME AppTyped, SystemTyped, HandsFit, Kept, Reapply("watcher")
  PROVE  Kept'
<1> DEFINE h == hand["watcher"]
<1>0. /\ pc \in [Threads -> Places] /\ hand \in [Threads -> Hand]
      /\ "caller" \in Threads /\ "watcher" \in Threads /\ NoThread \notin Threads
      /\ slot \in Services \cup {NoService} /\ lock # "watcher"
      /\ NoService \notin Services
  BY DEF AppTyped, Threads, Kept, Turns
<1>1. /\ pc["watcher"] \in Reapplying /\ slot # NoService
  <2>1. pc["watcher"] \in Reapplying
    BY Zenon DEF Reapply, Detect, Decide, Restore, Write, WriteFails, Record, Reapplying
  <2> QED
    BY <2>1 DEF Kept, Turns, Reapplying
<1>2. /\ pc["caller"] = "idle" /\ tun # "off"
      /\ \A s \in Services :
            Overridden(s) => \/ s \in lost \/ s = slot
                             \/ pc["watcher"] = "record" /\ h.service = s
  BY <1>1, OnlyTheSlot
<1>3. ASSUME Done("watcher")
      PROVE  pc'["watcher"] = "idle" /\ pc'["caller"] = "idle" /\ tun' # "off"
  BY <1>0, <1>2, <1>3, DoneParts
<1>4. CASE Detect("watcher")
  <2>1. UNCHANGED <<slot, lock, dns, lost>> /\ pc["watcher"] = "detect"
    BY <1>4 DEF Detect, history
  <2>2. NothingForgotten'
    BY <1>2, <2>1 DEF NothingForgotten, Overridden, Tracked
  <2>3. CASE Done("watcher")
    BY <1>0, <1>3, <2>1, <2>2, <2>3, RestKept
  <2>4. CASE ~Done("watcher")
    <3>1. /\ pc' = [pc EXCEPT !["watcher"] = "decide"] /\ UNCHANGED tun
          /\ hand' = [hand EXCEPT !["watcher"] =
                         [Nothing EXCEPT !.service = primary, !.servers = dns[primary]]]
      BY <1>4, <2>4 DEF Detect, GoTo
    <3>2. pc'["watcher"] = "decide" /\ pc'["caller"] = "idle"
          /\ hand'["watcher"].prev = NoService
      BY <1>0, <1>2, <3>1 DEF Nothing
    <3>3. Switch'
      BY <3>2 DEF Switch
    <3> QED
      BY <1>0, <1>1, <1>2, <2>1, <2>2, <3>1, <3>2, <3>3, WorkKept
  <2> QED
    BY <2>3, <2>4
<1>5. CASE Decide("watcher")
  <2>1. UNCHANGED <<slot, dns, lost>> /\ pc["watcher"] = "decide" /\ UNCHANGED lock
    BY <1>1, <1>5 DEF Decide, history
  <2>2. NothingForgotten'
    BY <1>2, <2>1 DEF NothingForgotten, Overridden, Tracked
  <2>3. CASE Done("watcher")
    BY <1>0, <1>3, <2>1, <2>2, <2>3, RestKept
  <2>4. CASE GoTo("watcher", "write") /\ UNCHANGED <<hand, tun>> /\ slot = h.service
    <3>1. pc'["watcher"] = "write" /\ pc'["caller"] = "idle"
      BY <1>0, <1>2, <2>4 DEF GoTo
    <3>2. h.prev = NoService
      BY <2>1 DEF Kept, Switch
    <3>3. Switch'
      BY <2>1, <2>4, <3>1, <3>2 DEF Switch
    <3> QED
      BY <1>0, <1>1, <1>2, <2>1, <2>2, <2>4, <3>1, <3>3, WorkKept
  <2>5. CASE /\ GoTo("watcher", "restore") /\ UNCHANGED tun
             /\ hand' = [hand EXCEPT !["watcher"].prev = slot,
                                     !["watcher"].servers = dns[slot]]
    <3>1. pc'["watcher"] = "restore" /\ pc'["caller"] = "idle"
      BY <1>0, <1>2, <2>5 DEF GoTo
    <3>2. hand'["watcher"].prev = slot
      <4>1. h \in Hand
        BY <1>0
      <4>2. hand'["watcher"] = [h EXCEPT !.prev = slot, !.servers = dns[slot]]
        BY <1>0, <2>5
      <4> QED
        BY <4>1, <4>2 DEF Hand
    <3>3. Switch'
      BY <2>1, <3>1, <3>2 DEF Switch
    <3> QED
      BY <1>0, <1>1, <1>2, <2>1, <2>2, <2>5, <3>1, <3>3, WorkKept
  <2> QED
    BY <1>1, <1>5, <2>3, <2>4, <2>5, Zenon DEF Decide
<1>6. CASE Restore("watcher")
  <2>0. PICK s0, stripped : s0 = h.prev /\ stripped = Strip(h.servers)
    OBVIOUS
  <2>1. /\ pc["watcher"] = "restore" /\ UNCHANGED <<hand, slot, lock, tun>>
        /\ SetDns(s0, stripped) \/ SetDnsFails(s0, stripped)
        /\ pc' = [pc EXCEPT !["watcher"] = "write"]
    BY <1>6, <2>0 DEF Restore, GoTo
  <2>2. s0 = slot /\ s0 \in Services
    BY <1>0, <1>1, <2>0, <2>1 DEF Kept, Switch
  <2>3. stripped \in Servers /\ stripped \notin {"gateway", "both"}
    <3>1. h \in Hand
      BY <1>0
    <3> QED
      BY <2>0, <3>1, Stripped DEF Hand, Servers
  <2>4. /\ lost \subseteq lost'
        /\ \A x \in Services \ {s0} : dns'[x] = dns[x]
        /\ dns'[s0] \in {"gateway", "both"} => s0 \in lost'
    BY <2>1, <2>2, <2>3, DnsWritten
  <2>5. \A s \in Services : Overridden(s)' => s \in lost'
    BY <1>2, <2>1, <2>2, <2>4 DEF Overridden
  <2>6. pc'["watcher"] = "write" /\ pc'["caller"] = "idle"
    BY <1>0, <1>2, <2>1
  <2>7. Switch' /\ NothingForgotten'
    BY <2>0, <2>1, <2>2, <2>5, <2>6 DEF Switch, NothingForgotten
  <2> QED
    BY <1>0, <1>1, <1>2, <2>1, <2>6, <2>7, WorkKept
<1>7. ASSUME Write("watcher") \/ WriteFails("watcher") PROVE Kept'
  <2>0. PICK s0 : s0 = h.service
    OBVIOUS
  <2>1. /\ pc["watcher"] = "write" /\ UNCHANGED <<slot, lock>>
        /\ SetDns(s0, "gateway") \/ SetDnsFails(s0, "gateway")
    BY <1>0, <1>7, <2>0 DEF Write, WriteFails
  <2>2. s0 \in Services
    <3>1. h.service # NoService /\ h \in Hand
      BY <1>0, <2>1 DEF HandsFit
    <3> QED
      BY <2>0, <3>1 DEF Hand
  <2>3. /\ lost \subseteq lost'
        /\ \A x \in Services \ {s0} : dns'[x] = dns[x]
    BY <2>1, <2>2, DnsWritten DEF Servers
  <2>4. h.prev = slot \/ (h.prev = NoService /\ s0 = slot)
    BY <2>0, <2>1 DEF Kept, Switch
  <2>5. \A s \in Services : Overridden(s) => s \in lost \/ (s = slot /\ s = s0)
    BY <1>1, <1>2, <2>1, <2>4 DEF Kept, Switch
  <2>6. CASE Done("watcher") /\ (s0 = slot \/ SetDnsFails(s0, "gateway"))
    <3>1. s0 = slot \/ (dns'[s0] \in {"gateway", "both"} => s0 \in lost')
      BY <2>2, <2>6, WriteMayFail DEF Servers
    <3>2. NothingForgotten'
      BY <2>1, <2>3, <2>5, <3>1 DEF NothingForgotten, Overridden, Tracked
    <3> QED
      BY <1>0, <1>3, <2>1, <2>6, <3>2, RestKept
  <2>7. CASE GoTo("watcher", "record") /\ UNCHANGED <<hand, tun>> /\ h.prev # NoService
    <3>1. pc'["watcher"] = "record" /\ pc'["caller"] = "idle"
      BY <1>0, <1>2, <2>7 DEF GoTo
    <3>2. \A s \in Services : Overridden(s) => s \in lost
      BY <2>1, <2>7 DEF Kept, Switch
    <3>3. \A s \in Services : Overridden(s)' => s \in lost' \cup {s0}
      BY <2>3, <3>2 DEF Overridden
    <3>4. Switch'
      BY <2>0, <2>1, <2>4, <2>7, <3>1, <3>3 DEF Switch
    <3>5. NothingForgotten'
      BY <1>0, <2>0, <2>7, <3>1, <3>3 DEF NothingForgotten, Tracked
    <3> QED
      BY <1>0, <1>1, <1>2, <2>1, <2>7, <3>1, <3>4, <3>5, WorkKept
  <2>8. \/ Done("watcher") /\ (h.prev = NoService \/ SetDnsFails(s0, "gateway"))
        \/ GoTo("watcher", "record") /\ UNCHANGED <<hand, tun>> /\ h.prev # NoService
    BY <1>0, <1>7, <2>0 DEF Write, WriteFails
  <2> QED
    BY <1>1, <2>4, <2>6, <2>7, <2>8
<1>8. CASE Record("watcher")
  <2>1. /\ pc["watcher"] = "record" /\ UNCHANGED <<lock, dns, lost>> /\ slot' = h.service
        /\ Done("watcher")
    BY <1>8 DEF Record, history
  <2>2. h.service # NoService
    BY <1>0, <2>1 DEF HandsFit
  <2>3. \A s \in Services : Overridden(s) => s \in lost \cup {h.service}
    BY <2>1 DEF Kept, Switch
  <2>4. NothingForgotten'
    BY <2>1, <2>3 DEF NothingForgotten, Overridden, Tracked
  <2> QED
    BY <1>0, <1>3, <2>1, <2>4, RestKept
<1> QED
  BY <1>4, <1>5, <1>6, <1>7, <1>8 DEF Reapply

(* Steps of the environment, and those that leave the override alone. *)
LEMMA EnvironmentKeeps ==
  ASSUME AppTyped, SystemTyped, HandsFit, Kept,
         UNCHANGED quiet \/ Wake \/ NetworkChanges \/ AppCrashes \/ Launch
  PROVE  Kept'
<1>0. /\ pc \in [Threads -> Places] /\ "caller" \in Threads /\ "watcher" \in Threads
      /\ NoThread \notin Threads
  BY DEF AppTyped, Threads
<1>1. CASE UNCHANGED <<pc, hand, slot, lock, tun, dns, lost>>
  BY <1>1 DEF Kept, Turns, Switch, Overridden, Tracked
<1>2. CASE UNCHANGED quiet \/ Launch
  BY <1>1, <1>2, Zenon DEF quiet, Launch, history
<1>3. CASE Wake
  <2>1. UNCHANGED <<hand, slot, lock, tun, dns, lost>> /\ pc["watcher"] = "idle"
    BY <1>3 DEF Wake, history
  <2>2. CASE slot = NoService
    BY <1>1, <1>3, <2>1, <2>2 DEF Wake
  <2>3. CASE slot # NoService
    <3>1. /\ pc["caller"] = "idle" /\ tun # "off"
          /\ \A s \in Services : Overridden(s) => s \in lost \/ s = slot
      BY <2>1, <2>3, OnlyTheSlot
    <3>2. pc'["watcher"] = "detect" /\ pc'["caller"] = "idle"
      BY <1>0, <1>3, <2>3, <3>1 DEF Wake, GoTo
    <3>3. NothingForgotten' /\ Switch'
      BY <2>1, <3>1, <3>2 DEF NothingForgotten, Overridden, Tracked, Switch
    <3>4. lock # "watcher"
      BY DEF Kept, Turns
    <3> QED
      BY <2>1, <2>3, <3>1, <3>2, <3>3, <3>4, WorkKept
  <2> QED
    BY <2>2, <2>3
<1>4. CASE NetworkChanges
  <2>1. UNCHANGED <<pc, hand, slot, lock, tun, lost>>
    BY <1>4 DEF NetworkChanges
  <2>2. \A s \in Services : Overridden(s)' => Overridden(s)
    BY <1>4, SMTT(20) DEF NetworkChanges, Overridden, SystemTyped, Servers
  <2> QED
    BY <2>1, <2>2 DEF Kept, Turns, Switch, Tracked
<1>5. CASE AppCrashes
  <2>1. /\ pc' = [t \in Threads |-> "idle"] /\ slot' = NoService /\ lock' = NoThread
        /\ lost' = lost \cup {s \in Services : Overridden(s)} /\ UNCHANGED dns
    BY <1>5 DEF AppCrashes
  <2>2. pc'["caller"] = "idle" /\ pc'["watcher"] = "idle" /\ lock' # "watcher"
    BY <1>0, <2>1
  <2>3. NothingForgotten'
    BY <2>1 DEF NothingForgotten, Overridden
  <2> QED
    BY <2>1, <2>2, <2>3, RestKept
<1> QED
  BY <1>2, <1>3, <1>4, <1>5

(* While nobody races, no step loses the override. *)
LEMMA OverrideInductive ==
  AppTyped /\ SystemTyped /\ JobsTyped /\ CallsFit /\ HandsFit /\ OverrideIsKept /\ [Next]_vars
    => OverrideIsKept'
<1> SUFFICES ASSUME AppTyped, SystemTyped, JobsTyped, CallsFit, HandsFit, OverrideIsKept,
                    [Next]_vars, ~raced'
             PROVE  Kept'
  BY Zenon DEF OverrideIsKept
<1>1. Kept
  BY RacedStays, Zenon DEF OverrideIsKept
<1>2. ASSUME NEW t \in Threads, Reapply(t) PROVE Kept'
  BY <1>1, <1>2, OverrideKeeps, WatcherKeeps DEF Threads
<1>3. CASE CallerMoves \/ StopTun \/ SkipStop \/ StripGateway
  BY <1>1, <1>3, CallerKeeps
<1>4. CASE UNCHANGED quiet \/ Wake \/ NetworkChanges \/ AppCrashes \/ Launch
  BY <1>1, <1>4, EnvironmentKeeps
<1> QED
  BY <1>2, <1>3, <1>4, Steps DEF Others

-----------------------------------------------------------------------------
(* The types of the rest. *)

(* The helper's end, and a core's. *)
LEMMA HelperEndsTyped ==
  ASSUME SystemTyped, HelperEnds, UNCHANGED core
  PROVE  /\ active' \in Cores \cup {NoCore} /\ orphans' \subseteq Cores
         /\ UNCHANGED <<primary, dns, lost, changes>>
  BY DEF SystemTyped, HelperEnds

(* A core that dies is dead. *)
LEMMA DieTyped ==
  ASSUME SystemTyped, NEW c
  PROVE  Die(c) \in [Cores -> {"unborn", "running", "dead"}]
  BY DEF SystemTyped, Die

(* Every step keeps the helper and the system typed. *)
LEMMA SystemInductive ==
  AppTyped /\ SystemTyped /\ JobsTyped /\ HandsFit /\ [Next]_vars => SystemTyped'
<1> SUFFICES ASSUME AppTyped, SystemTyped, JobsTyped, HandsFit, [Next]_vars PROVE SystemTyped'
  OBVIOUS
<1> USE DEF app, helper, history
<1>0. \A i \in DOMAIN jobs : jobs[i].core \in Cores \cup {NoCore}
  <2>1. \A i \in DOMAIN jobs : jobs[i] \in Job
    BY LenProperties DEF JobsTyped
  <2> QED
    BY <2>1 DEF Job
<1>1. CASE UNCHANGED <<installed, active, core, primary, dns, lost, orphans, changes, faults>>
  BY <1>1 DEF SystemTyped
<1>2. ASSUME NEW i \in DOMAIN jobs, StartKills(i) PROVE SystemTyped'
  <2>1. core' = core \/ core' = Die(active)
    BY <1>2 DEF StartKills
  <2> QED
    BY <1>2, <2>1, DieTyped DEF StartKills, ClearActive, SystemTyped
<1>3. ASSUME NEW i \in DOMAIN jobs, SpawnFails(i) \/ ReadTarget(i) \/ RemoveRoutes(i)
      PROVE  SystemTyped'
  BY <1>1, <1>3, Zenon DEF SpawnFails, ReadTarget, RemoveRoutes
<1>4. ASSUME NEW i \in DOMAIN jobs, Spawn(i) PROVE SystemTyped'
  <2>1. \E c \in Cores : core' = [core EXCEPT ![c] = "running"]
    BY <1>4 DEF Spawn
  <2> QED
    BY <1>4, <2>1 DEF Spawn, SystemTyped
<1>5. ASSUME NEW i \in DOMAIN jobs, RoutesFail(i) \/ Reap(i) PROVE SystemTyped'
  <2>1. core' = core \/ core' = Die(jobs[i].core)
    BY <1>5 DEF RoutesFail, Reap
  <2> QED
    BY <1>5, <2>1, DieTyped DEF RoutesFail, Reap, SystemTyped
<1>6. ASSUME NEW i \in DOMAIN jobs, RoutesUp(i) \/ Clear(i) PROVE SystemTyped'
  <2>1. active' \in {active, NoCore, jobs[i].core}
    BY <1>6 DEF RoutesUp, Clear, ClearActive
  <2> QED
    BY <1>0, <1>6, <2>1 DEF RoutesUp, Clear, SystemTyped
<1>7. CASE ExitHandler
  BY <1>7 DEF ExitHandler, ClearActive, SystemTyped
<1>8. ASSUME HelperEnds, UNCHANGED core,
             installed' \in {"no", "old", "current"}, faults' \in Nat
      PROVE  SystemTyped'
  BY <1>8, HelperEndsTyped DEF SystemTyped
<1>9. ASSUME NEW i \in DOMAIN jobs, UninstallSelf(i) PROVE SystemTyped'
  BY <1>8, <1>9 DEF UninstallSelf, SystemTyped
<1>10. CASE Install \/ ShellRemoves \/ OrphanAppCleanup \/ HelperCrashes
  BY <1>8, <1>10, SMTT(20)
     DEF Install, ShellRemoves, OrphanAppCleanup, HelperCrashes, Fault, SystemTyped
<1>11. ASSUME NEW i \in DOMAIN jobs, Return(i) PROVE SystemTyped'
  BY <1>1, <1>11, Zenon DEF Return
<1>12. CASE TimeOut \/ ConnectionDrops
  <2>1. /\ UNCHANGED <<installed, active, core, primary, dns, lost, orphans, changes>>
        /\ faults' = faults + 1
    BY <1>12, Zenon DEF TimeOut, ConnectionDrops, Fault
  <2> QED
    BY <2>1 DEF SystemTyped
<1>13. CASE StartTun \/ PrepareFails \/ StartCore \/ ApiReady \/ ApiNotReady \/ StopTun
            \/ SkipStop \/ UninstallHelper \/ ShellFails \/ Unreachable \/ Wake \/ Launch
            \/ UNCHANGED vars
  BY <1>1, <1>13, Zenon DEF StartTun, PrepareFails, StartCore, ApiReady, ApiNotReady, StopTun,
     SkipStop, UninstallHelper, ShellFails, Unreachable, Wake, Launch, vars
<1>14. ASSUME NEW t \in Threads, Detect(t) \/ Decide(t) \/ Record(t) PROVE SystemTyped'
  BY <1>1, <1>14, Zenon DEF Detect, Decide, Record
<1>15. ASSUME NEW s \in Services, NEW servers \in Servers,
              SetDns(s, servers) \/ SetDnsFails(s, servers)
       PROVE  dns' \in [Services -> Servers] /\ lost' \subseteq Services /\ faults' \in Nat
  BY <1>15, SMTT(20) DEF SetDns, SetDnsFails, Fault, SystemTyped
<1>16. ASSUME NEW s, NEW servers \in Servers, s \in Services,
              SetDns(s, servers) \/ SetDnsFails(s, servers),
              UNCHANGED <<installed, active, core, primary, orphans, changes>>
       PROVE  SystemTyped'
  BY <1>15, <1>16 DEF SystemTyped
<1>17. \A t \in Threads : hand[t] \in Hand /\ Strip(hand[t].servers) \in Servers
  <2>1. \A t \in Threads : hand[t] \in Hand
    BY DEF AppTyped
  <2>2. \A servers \in Servers : Strip(servers) \in Servers
    BY DEF Strip, Servers
  <2> QED
    BY <2>1, <2>2 DEF Hand
<1>18. ASSUME NEW t \in Threads, Restore(t) PROVE SystemTyped'
  <2>1. hand[t].prev \in Services
    BY <1>17, <1>18 DEF Restore, HandsFit, Hand
  <2>2. /\ UNCHANGED <<installed, active, core, primary, orphans, changes>>
        /\ SetDns(hand[t].prev, Strip(hand[t].servers))
           \/ SetDnsFails(hand[t].prev, Strip(hand[t].servers))
    BY <1>18, Zenon DEF Restore
  <2> QED
    BY <1>16, <1>17, <2>1, <2>2
<1>19. ASSUME NEW t \in Threads, Write(t) \/ WriteFails(t) PROVE SystemTyped'
  <2>1. hand[t].service \in Services
    BY <1>17, <1>19 DEF Write, WriteFails, HandsFit, Hand
  <2>2. /\ UNCHANGED <<installed, active, core, primary, orphans, changes>>
        /\ SetDns(hand[t].service, "gateway") \/ SetDnsFails(hand[t].service, "gateway")
    BY <1>19, Zenon DEF Write, WriteFails
  <2>3. "gateway" \in Servers
    BY DEF Servers
  <2> QED
    BY <1>16, <2>1, <2>2, <2>3
<1>20. CASE StripGateway
  <2>1. hand["caller"].service \in Services
    BY <1>17, <1>20 DEF StripGateway, HandsFit, Hand, Threads
  <2>2. /\ UNCHANGED <<installed, active, core, primary, orphans, changes>>
        /\ SetDns(hand["caller"].service, Strip(hand["caller"].servers))
           \/ SetDnsFails(hand["caller"].service, Strip(hand["caller"].servers))
    BY <1>20, Zenon DEF StripGateway
  <2> QED
    BY <1>16, <1>17, <2>1, <2>2 DEF Threads
<1>21. CASE NetworkChanges
  BY <1>21, SMTT(20) DEF NetworkChanges, SystemTyped, Servers
<1>22. CASE AppCrashes
  BY <1>22 DEF AppCrashes, Fault, SystemTyped
<1>23. ASSUME NEW c \in Cores, CoreExits(c) PROVE SystemTyped'
  BY <1>23, DieTyped DEF CoreExits, SystemTyped
<1> QED
  BY <1>2, <1>3, <1>4, <1>5, <1>6, <1>7, <1>9, <1>10, <1>11, <1>12, <1>13, <1>14,
     <1>18, <1>19, <1>20, <1>21, <1>22, <1>23
     DEF Next, HelperStep, Caller, Environment, Reapply

(* Every step keeps the Boolean variables Boolean. *)
LEMMA SwitchesInductive ==
  SwitchesTyped /\ JobsTyped /\ [Next]_vars => SwitchesTyped'
<1> SUFFICES ASSUME SwitchesTyped, JobsTyped, [Next]_vars PROVE SwitchesTyped'
  OBVIOUS
<1> USE DEF app, helper, history
<1> DEFINE switches == <<up, watching, notified, tried, owns, scoped, leaked, raced>>
<1>0. \A i \in DOMAIN jobs : jobs[i].owns \in BOOLEAN
  <2>1. \A i \in DOMAIN jobs : jobs[i] \in Job
    BY LenProperties DEF JobsTyped
  <2> QED
    BY <2>1 DEF Job
<1>1. CASE UNCHANGED switches
  BY <1>1, Zenon DEF SwitchesTyped
<1>2. ASSUME NEW i \in DOMAIN jobs, SpawnFails(i) \/ ReadTarget(i) \/ Reap(i)
      PROVE  SwitchesTyped'
  BY <1>1, <1>2, Zenon DEF SpawnFails, ReadTarget, Reap
<1>3. ASSUME NEW i \in DOMAIN jobs, StartKills(i) \/ Clear(i) PROVE SwitchesTyped'
  BY <1>3, Zenon DEF StartKills, Clear, ClearActive, SwitchesTyped
<1>4. ASSUME NEW i \in DOMAIN jobs, Spawn(i) \/ RoutesFail(i) \/ RemoveRoutes(i)
      PROVE  SwitchesTyped'
  BY <1>4, Zenon DEF Spawn, RoutesFail, RemoveRoutes, SwitchesTyped
<1>5. ASSUME NEW i \in DOMAIN jobs, RoutesUp(i) PROVE SwitchesTyped'
  BY <1>0, <1>5, Zenon DEF RoutesUp, SwitchesTyped
<1>6. CASE ExitHandler
  BY <1>6, Zenon DEF ExitHandler, ClearActive, SwitchesTyped
<1>7. ASSUME HelperEnds, scoped' \in BOOLEAN, UNCHANGED <<up, watching, notified>>,
             tried' \in BOOLEAN
      PROVE  SwitchesTyped'
  BY <1>7, Zenon DEF HelperEnds, SwitchesTyped
<1>8. ASSUME NEW i \in DOMAIN jobs, UninstallSelf(i) PROVE SwitchesTyped'
  BY <1>7, <1>8, Zenon DEF UninstallSelf, SwitchesTyped
<1>9. CASE Install \/ ShellRemoves \/ OrphanAppCleanup
  BY <1>7, <1>9, Zenon DEF Install, ShellRemoves, OrphanAppCleanup, SwitchesTyped
<1>10. ASSUME NEW ok, NEW before, AfterCall(ok, before) PROVE tried' \in BOOLEAN
  BY <1>10, Zenon DEF AfterCall
<1>11. ASSUME NEW before, Interrupted(before) PROVE tried' \in BOOLEAN
  BY <1>10, <1>11, Zenon DEF Interrupted, SwitchesTyped
<1>12. ASSUME UNCHANGED <<up, watching, notified, owns, scoped, leaked, raced>>,
              tried' \in BOOLEAN
       PROVE  SwitchesTyped'
  BY <1>12, Zenon DEF SwitchesTyped
<1>13. ASSUME NEW i \in DOMAIN jobs, Return(i) PROVE SwitchesTyped'
  BY <1>10, <1>12, <1>13, Zenon DEF Return, SwitchesTyped
<1>14. CASE TimeOut \/ Unreachable \/ ConnectionDrops
  BY <1>10, <1>11, <1>12, <1>14, Zenon DEF TimeOut, Unreachable, ConnectionDrops
<1>15. CASE HelperCrashes
  BY <1>7, <1>11, <1>15, Zenon DEF HelperCrashes, SwitchesTyped
<1>16. CASE StartTun \/ PrepareFails \/ StartCore \/ ApiReady \/ ApiNotReady
            \/ UninstallHelper \/ ShellFails \/ UNCHANGED vars
  BY <1>1, <1>16, Zenon DEF StartTun, PrepareFails, StartCore, ApiReady, ApiNotReady,
     UninstallHelper, ShellFails, vars
<1>17. CASE StopTun \/ SkipStop \/ Wake \/ NetworkChanges
  BY <1>17, Zenon DEF StopTun, SkipStop, Wake, NetworkChanges, SwitchesTyped
<1>18. CASE AppCrashes \/ Launch
  BY <1>18, Zenon DEF AppCrashes, Launch, SwitchesTyped
<1>19. ASSUME NEW s, NEW servers, SetDns(s, servers) \/ SetDnsFails(s, servers)
       PROVE  notified' \in BOOLEAN
  BY <1>19, Zenon DEF SetDns, SetDnsFails, SwitchesTyped
<1>20. ASSUME NEW t, Done(t) \/ UNCHANGED watching PROVE watching' \in BOOLEAN
  BY <1>20, Zenon DEF Done, SwitchesTyped
<1>21. ASSUME UNCHANGED <<up, tried, owns, scoped, leaked, raced>>,
              notified' \in BOOLEAN, watching' \in BOOLEAN
       PROVE  SwitchesTyped'
  BY <1>21, Zenon DEF SwitchesTyped
<1>22. ASSUME NEW t \in Threads, Detect(t) \/ Decide(t) \/ Record(t) PROVE SwitchesTyped'
  BY <1>20, <1>21, <1>22, Zenon DEF Detect, Decide, Record, SwitchesTyped
<1>23. ASSUME NEW t \in Threads, Restore(t) \/ Write(t) \/ WriteFails(t)
       PROVE  SwitchesTyped'
  BY <1>19, <1>20, <1>21, <1>23, Zenon DEF Restore, Write, WriteFails
<1>24. CASE StripGateway
  BY <1>19, <1>20, <1>21, <1>24, Zenon DEF StripGateway
<1>25. ASSUME NEW c \in Cores, CoreExits(c) PROVE SwitchesTyped'
  BY <1>1, <1>25, Zenon DEF CoreExits
<1> HIDE DEF switches
<1> QED
  BY <1>2, <1>3, <1>4, <1>5, <1>6, <1>8, <1>9, <1>13, <1>14, <1>15, <1>16, <1>17, <1>18,
     <1>22, <1>23, <1>24, <1>25
     DEF Next, HelperStep, Caller, Environment, Reapply

-----------------------------------------------------------------------------
(* Every step of the caller, the watcher, the helper and the network        *)
(* preserves the inductive invariant.                                       *)
THEOREM Preservation == IInv /\ [Next]_vars => IInv'
<1> SUFFICES ASSUME IInv, [Next]_vars PROVE IInv'
  OBVIOUS
<1>1. SwitchesTyped' /\ AppTyped' /\ SystemTyped'
  BY SwitchesInductive, AppInductive, SystemInductive DEF IInv
<1>2. JobsTyped' /\ CallsFit'
  BY JobsInductive DEF IInv
<1>3. HandsFit' /\ OverrideIsKept'
  BY HandsInductive, OverrideInductive DEF IInv
<1> QED
  BY <1>1, <1>2, <1>3 DEF IInv

(* The inductive invariant holds in every reachable state. *)
LEMMA Invariance == Spec => []IInv
  BY Initially, Preservation, PTL DEF Spec

(* Every reachable state of the application, the helper and the system is   *)
(* well typed.                                                              *)
THEOREM TypeCorrect == Spec => []TypeOK
<1>1. IInv => TypeOK
  <2>1. IInv => SwitchesTyped /\ AppTyped /\ SystemTyped /\ JobsTyped
    BY DEF IInv
  <2> QED
    BY <2>1, Zenon DEF TypeOK, SwitchesTyped, AppTyped, SystemTyped, JobsTyped, Places,
       Hand, Job
<1> QED
  BY Invariance, <1>1, PTL

(* A service whose servers are the gateway's is in the slot, or in the hand *)
(* of a thread that clears it or records it, unless a write failed, the     *)
(* application was killed or a stop drained the slot under the watcher      *)
(* (macos/tun_ops.rs:94-134, 250-404).                                       *)
THEOREM OverridesAreTracked == Spec => []OverrideHasAKeeper
<1>1. IInv => OverrideHasAKeeper
  BY Zenon DEF IInv, OverrideIsKept, Kept, OverrideHasAKeeper
<1> QED
  BY Invariance, <1>1, PTL
-----------------------------------------------------------------------------
(***************************************************************************)
(* StopIsExact.  The calls and the session fit: a call that is waited for  *)
(* is served after those before it, so that what it found is what the ones *)
(* given up before it leave, and no call but the next one starts anything. *)
(***************************************************************************)
Calls(q) == 1 .. Len(q)
OnIt     == {"spawn", "install"}
Pending  == {"queued", "spawn", "install"}

(* What a call at each stage asks, and the core it named: one that was     *)
(* spawned, and that is over before the session is cleared.                *)
StagesFit(q) == \A i \in Calls(q) :
    /\ q[i].at \in OnIt => q[i].op = "start"
    /\ q[i].at \in {"reap", "clear"} => q[i].op \in Stops
    /\ q[i].at = "install" => q[i].core \in Cores
    /\ q[i].core # NoCore => core[q[i].core] # "unborn"
    /\ q[i].at = "clear" /\ q[i].core # NoCore => core[q[i].core] # "running"

(* The queue is serial: a start on it finds no session, and nobody is to   *)
(* end the core it spawned.                                                *)
Serial(q) == \A i \in Calls(q) : q[i].at \in OnIt =>
    /\ active = NoCore /\ installed # "no"
    /\ \A j \in Calls(q) \ {i} : q[j].at \notin OnIt
    /\ q[i].at = "install"
          => \A j \in Calls(q) : q[j].at = "reap" => q[j].core # q[i].core

(* When the call that is waited for is served, so were those before it.    *)
Served(q) == \A i, j \in Calls(q) :
    i # j /\ q[i].open /\ q[i].at # "queued" => q[j].at \notin Pending

(* A start that was answered left a core nobody is to end, *)
StartIsSafe(q) == \A i, j \in Calls(q) :
    /\ q[i].open /\ q[i].op = "start" /\ q[i].at = "reply"
    /\ q[j].at = "reap" /\ q[j].core # NoCore
    => q[j].core # active

(* and a stop found the only session there is. *)
StopIsServed(q) == \A i \in Calls(q) : q[i].open /\ q[i].op = "stop" =>
    /\ q[i].at \in {"reap", "clear"} => active \in {NoCore, q[i].core}
    /\ q[i].at = "reply" => active = NoCore

(* A core that runs and the scoped route are of the session, of the start  *)
(* on the queue, or of a helper that ended.                                *)
CoresKnown(q) == \A c \in Cores :
    core[c] = "running"
      => \/ c \in orphans \/ c = active
         \/ \E i \in Calls(q) : q[i].at = "install" /\ q[i].core = c
RouteKnown(q) ==
    scoped => leaked \/ owns \/ \E i \in Calls(q) : q[i].at = "install" /\ q[i].owns

CallsServed(q) ==
    /\ StagesFit(q) /\ Serial(q) /\ Served(q) /\ StartIsSafe(q) /\ StopIsServed(q)
    /\ CoresKnown(q) /\ RouteKnown(q)

SessionFits ==
    /\ active = NoCore => ~owns
    /\ active # NoCore => core[active] # "unborn"
    /\ installed = "no" => active = NoCore

(* A call that is waited for is the one its place asks for. *)
Asked == IF pc["caller"] \in {"abort", "purge"} THEN "stop" ELSE pc["caller"]
AnswersFit(q) == \A i \in Calls(q) : q[i].open => q[i].op = Asked

(* After a stop nothing is left, and after a start nobody touches it. *)
Cleared(q) == active = NoCore /\ \A i \in Calls(q) :
    q[i].at \notin OnIt /\ (q[i].at = "queued" => q[i].op = "routes")
Untouched(q) == \A i \in Calls(q) :
    q[i].at \notin Pending /\ (q[i].at = "reap" /\ q[i].core # NoCore => q[i].core # active)

NothingLeft  == pc["caller"] = "routes" => Cleared(jobs)
TunnelIsSafe ==
    pc["caller"] \in {"ready"} \cup Reapplying \/ tun = "on" => Untouched(jobs)
OnIsIdle     == tun = "on" => pc["caller"] = "idle"

SInv ==
    /\ CallsServed(jobs)
    /\ SessionFits
    /\ AnswersFit(jobs)
    /\ NothingLeft
    /\ TunnelIsSafe
    /\ OnIsIdle

(* Initially nothing is called. *)
LEMMA NothingIsCalled == Init => SInv
<1> SUFFICES ASSUME Init PROVE SInv
  OBVIOUS
<1>1. Calls(jobs) = {}
  BY DEF Init, Calls
<1>2. CallsServed(jobs) /\ AnswersFit(jobs)
  BY <1>1
     DEF Init, CallsServed, StagesFit, Serial, Served, StartIsSafe, StopIsServed,
     CoresKnown, RouteKnown, AnswersFit
<1>3. SessionFits /\ NothingLeft /\ TunnelIsSafe /\ OnIsIdle
  BY DEF Init, SessionFits, NothingLeft, TunnelIsSafe, OnIsIdle, Reapplying, Threads
<1> QED
  BY <1>2, <1>3 DEF SInv

-----------------------------------------------------------------------------
(* A step of the helper moves one call. *)

(* What the proofs use of the types. *)
JobFacts(q) == \A k \in Calls(q) :
    /\ q[k].op \in Ops /\ q[k].core \in Cores \cup {NoCore} /\ q[k].at \in Stages
    /\ q[k].owns \in BOOLEAN /\ q[k].ok \in BOOLEAN /\ q[k].open \in BOOLEAN
Facts ==
    /\ JobFacts(jobs)
    /\ active \in Cores \cup {NoCore} /\ orphans \subseteq Cores
    /\ NoCore \notin Cores

(* They follow from the type invariant. *)
LEMMA TypeFacts == JobsTyped /\ SystemTyped => Facts
<1> SUFFICES ASSUME JobsTyped, SystemTyped PROVE Facts
  OBVIOUS
<1>1. \A k \in Calls(jobs) : jobs[k] \in Job
  BY LenProperties DEF JobsTyped, Calls
<1>2. JobFacts(jobs)
  BY <1>1 DEF JobFacts, Job, Ops, Stages
<1> QED
  BY <1>2 DEF Facts, SystemTyped

OneMoved(i) ==
    /\ i \in Calls(jobs) /\ Calls(jobs') = Calls(jobs)
    /\ \A k \in Calls(jobs) \ {i} : jobs'[k] = jobs[k]
    /\ jobs'[i].op = jobs[i].op /\ jobs'[i].open = jobs[i].open

(* The other calls stay as they are. *)
LEMMA OthersStay ==
    ASSUME JobsTyped, NEW i \in DOMAIN jobs, NEW j \in Job, jobs' = [jobs EXCEPT ![i] = j],
           j.op = jobs[i].op, j.open = jobs[i].open
    PROVE  OneMoved(i) /\ jobs'[i] = j /\ jobs[i] \in Job
<1>1. /\ Len(jobs) \in Nat /\ DOMAIN jobs = 1 .. Len(jobs)
      /\ jobs \in [1 .. Len(jobs) -> Job]
  BY LenProperties DEF JobsTyped
<1>2. Len(jobs') = Len(jobs)
  BY OneMoves DEF JobsTyped
<1> QED
  BY <1>1, <1>2 DEF OneMoved, Calls

(* One that goes on keeps what it read; *)
LEMMA Moved ==
    ASSUME JobsTyped, NEW i \in DOMAIN jobs, NEW at \in Stages, MoveTo(i, at)
    PROVE  /\ OneMoved(i)
           /\ jobs'[i].at = at /\ jobs'[i].core = jobs[i].core /\ jobs'[i].owns = jobs[i].owns
<1> DEFINE j == [jobs[i] EXCEPT !.at = at]
<1>1. jobs[i] \in Job
  BY LenProperties DEF JobsTyped
<1>2. /\ j \in Job /\ j.op = jobs[i].op /\ j.open = jobs[i].open
      /\ j.at = at /\ j.core = jobs[i].core /\ j.owns = jobs[i].owns
  BY <1>1 DEF Job, Stages
<1>3. jobs' = [jobs EXCEPT ![i] = j]
  BY DEF MoveTo
<1> HIDE DEF j
<1> QED
  BY <1>2, <1>3, OthersStay

(* so does one that is answered. *)
LEMMA Replied ==
    ASSUME JobsTyped, NEW i \in DOMAIN jobs, NEW ok \in BOOLEAN, Reply(i, ok)
    PROVE  /\ OneMoved(i)
           /\ jobs'[i].at = "reply" /\ jobs'[i].core = jobs[i].core
           /\ jobs'[i].owns = jobs[i].owns
<1> DEFINE j == [jobs[i] EXCEPT !.at = "reply", !.ok = ok]
<1>1. jobs[i] \in Job
  BY LenProperties DEF JobsTyped
<1>2. /\ j \in Job /\ j.op = jobs[i].op /\ j.open = jobs[i].open
      /\ j.at = "reply" /\ j.core = jobs[i].core /\ j.owns = jobs[i].owns
  BY <1>1 DEF Job
<1>3. jobs' = [jobs EXCEPT ![i] = j]
  BY <1>1 DEF Reply
<1> HIDE DEF j
<1> QED
  BY <1>2, <1>3, OthersStay

(* A start takes the core it spawned, *)
LEMMA Spawned ==
    ASSUME JobsTyped, NEW i \in DOMAIN jobs, NEW c \in Cores, NEW own \in BOOLEAN,
           jobs' = [jobs EXCEPT ![i].at = "install", ![i].core = c, ![i].owns = own]
    PROVE  /\ OneMoved(i)
           /\ jobs'[i].at = "install" /\ jobs'[i].core = c /\ jobs'[i].owns = own
<1> DEFINE j == [jobs[i] EXCEPT !.at = "install", !.core = c, !.owns = own]
<1>1. jobs[i] \in Job
  BY LenProperties DEF JobsTyped
<1>2. /\ j \in Job /\ j.op = jobs[i].op /\ j.open = jobs[i].open
      /\ j.at = "install" /\ j.core = c /\ j.owns = own
  BY <1>1 DEF Job
<1>3. jobs' = [jobs EXCEPT ![i] = j]
  BY <1>1
<1> HIDE DEF j
<1> QED
  BY <1>2, <1>3, OthersStay

(* a stop the one of the session. *)
LEMMA TargetRead ==
    ASSUME JobsTyped, NEW i \in DOMAIN jobs, NEW c \in Cores \cup {NoCore}, NEW at \in Stages,
           jobs' = [jobs EXCEPT ![i].core = c, ![i].at = at, ![i].ok = TRUE]
    PROVE  /\ OneMoved(i)
           /\ jobs'[i].at = at /\ jobs'[i].core = c /\ jobs'[i].owns = jobs[i].owns
<1> DEFINE j == [jobs[i] EXCEPT !.core = c, !.at = at, !.ok = TRUE]
<1>1. jobs[i] \in Job
  BY LenProperties DEF JobsTyped
<1>2. /\ j \in Job /\ j.op = jobs[i].op /\ j.open = jobs[i].open
      /\ j.at = at /\ j.core = c /\ j.owns = jobs[i].owns
  BY <1>1 DEF Job, Stages
<1>3. jobs' = [jobs EXCEPT ![i] = j]
  BY <1>1
<1> HIDE DEF j
<1> QED
  BY <1>2, <1>3, OthersStay

(* The numbers below another. *)
LEMMA Below == ASSUME NEW n \in Nat, NEW k \in 1 .. n, k # n PROVE k \in 1 .. (n - 1)
  OBVIOUS

(* A call that is served finds the queue free, and when it is waited for   *)
(* the calls before it were served.                                        *)
LEMMA ServedInOrder ==
    ASSUME JobsTyped, CallsFit, NEW i \in DOMAIN jobs, OnQueue(i)
    PROVE  /\ \A k \in Calls(jobs) : jobs[k].at \notin OnIt
           /\ jobs[i].open => \A k \in Calls(jobs) \ {i} : jobs[k].at \notin Pending
<1>1. Len(jobs) \in Nat /\ DOMAIN jobs = 1 .. Len(jobs)
  BY LenProperties DEF JobsTyped
<1>2. \A k \in Calls(jobs) : jobs[k].at \notin OnIt
  BY <1>1 DEF OnQueue, QueueIsFree, Calls, OnIt
<1>3. ASSUME jobs[i].open, NEW k \in Calls(jobs) \ {i} PROVE jobs[k].at \notin Pending
  <2>0. i = Len(jobs) /\ k \in 1 .. Len(jobs) /\ k # i
    BY <1>1, <1>3 DEF CallsFit, Calls
  <2>1. k \in 1 .. (i - 1)
    BY <1>1, <2>0, Below
  <2>2. jobs[k].at # "queued"
    BY <2>1 DEF OnQueue
  <2> QED
    BY <1>2, <1>3, <2>2 DEF Pending, OnIt
<1> QED
  BY <1>2, <1>3

(* A core that dies ran; the others are as they were. *)
LEMMA OneDies ==
    ASSUME SystemTyped, NEW x \in Cores
    PROVE  /\ \A c \in Cores : c # x => Die(x)[c] = core[c]
           /\ Die(x)[x] = IF core[x] = "running" THEN "dead" ELSE core[x]
  BY DEF SystemTyped, Die

(* The session is cleared. *)
Clears == active' = NoCore /\ ~owns' /\ (scoped' => scoped /\ ~owns)
Rest   == UNCHANGED <<pc, tun, installed, orphans, leaked>>

(* A start ends the session before, *)
LEMMA StartKillsServed ==
    ASSUME SwitchesTyped, SystemTyped, AppTyped, JobsTyped, CallsFit, SInv,
           NEW i \in DOMAIN jobs, StartKills(i), installed # "no"
    PROVE  SInv'
<1>1. /\ Facts
      /\ StagesFit(jobs) /\ Serial(jobs) /\ Served(jobs) /\ StartIsSafe(jobs)
      /\ StopIsServed(jobs) /\ CoresKnown(jobs) /\ RouteKnown(jobs)
      /\ SessionFits /\ AnswersFit(jobs) /\ NothingLeft /\ TunnelIsSafe /\ OnIsIdle
  BY TypeFacts DEF SInv, CallsServed
<1> USE DEF app, helper, history
<1>2. /\ i \in Calls(jobs) /\ jobs[i].op = "start" /\ jobs[i].at = "queued"
      /\ Rest /\ OneMoved(i)
      /\ jobs'[i].at = "spawn" /\ jobs'[i].core = jobs[i].core /\ jobs'[i].owns = jobs[i].owns
  BY Moved DEF StartKills, At, Rest, Stages, OneMoved
<1>3. /\ \A k \in Calls(jobs) : jobs[k].at \notin OnIt
      /\ jobs[i].open => \A k \in Calls(jobs) \ {i} : jobs[k].at \notin Pending
  BY ServedInOrder DEF StartKills
<1>4. Clears
  BY <1>1, <1>2, <1>3, Zenon
     DEF StartKills, ClearActive, Clears, SessionFits, SwitchesTyped
<1>5. /\ \A c \in Cores : c # active => core'[c] = core[c]
      /\ active \in Cores => core'[active] = IF core[active] = "running" THEN "dead" ELSE core[active]
  BY <1>1, <1>2, <1>3, <1>4, OneDies DEF StartKills, Facts
<1>6. StagesFit(jobs)'
  BY <1>1, <1>2, <1>3, <1>4, <1>5, SMTT(30)
     DEF StagesFit, OneMoved, Rest, Clears, Stops, OnIt, Facts, JobFacts
<1>7. Serial(jobs)'
  BY <1>1, <1>2, <1>3, <1>4, <1>5, SMTT(30)
     DEF Serial, OneMoved, Rest, Clears, OnIt
<1>8. Served(jobs)'
  BY <1>1, <1>2, <1>3, <1>4, <1>5, SMTT(30)
     DEF Served, OneMoved, Rest, Clears, Pending
<1>9. StartIsSafe(jobs)'
  BY <1>1, <1>2, <1>3, <1>4, <1>5, SMTT(30)
     DEF StartIsSafe, OneMoved, Rest, Clears
<1>10. StopIsServed(jobs)'
  BY <1>1, <1>2, <1>3, <1>4, <1>5, SMTT(30)
     DEF StopIsServed, OneMoved, Rest, Clears
<1>11. CoresKnown(jobs)'
  BY <1>1, <1>2, <1>3, <1>4, <1>5, SMTT(30)
     DEF CoresKnown, OneMoved, Rest, Clears
<1>12. RouteKnown(jobs)'
  BY <1>1, <1>2, <1>3, <1>4, <1>5, SMTT(30)
     DEF RouteKnown, OneMoved, Rest, Clears
<1>13. SessionFits'
  BY <1>1, <1>2, <1>3, <1>4, <1>5, SMTT(30)
     DEF SessionFits, OneMoved, Rest, Clears
<1>14. AnswersFit(jobs)'
  BY <1>1, <1>2, <1>3, <1>4, <1>5, SMTT(30)
     DEF AnswersFit, Asked, OneMoved, Rest, Clears
<1>15. NothingLeft'
  BY <1>1, <1>2, <1>3, <1>4, <1>5, SMTT(30)
     DEF NothingLeft, Cleared, OneMoved, Rest, Clears, OnIt
<1>16. TunnelIsSafe'
  BY <1>1, <1>2, <1>3, <1>4, <1>5, SMTT(30)
     DEF TunnelIsSafe, Untouched, OneMoved, Rest, Clears, Pending
<1>17. OnIsIdle'
  BY <1>1, <1>2, <1>3, <1>4, <1>5, SMTT(30)
     DEF OnIsIdle, OneMoved, Rest, Clears
<1> QED
  BY <1>6, <1>7, <1>8, <1>9, <1>10, <1>11, <1>12, <1>13, <1>14, <1>15, <1>16,
     <1>17 DEF SInv, CallsServed

(* fails to spawn its core, *)
LEMMA SpawnFailsServed ==
    ASSUME SwitchesTyped, SystemTyped, AppTyped, JobsTyped, CallsFit, SInv,
           NEW i \in DOMAIN jobs, SpawnFails(i)
    PROVE  SInv'
<1>1. /\ Facts
      /\ StagesFit(jobs) /\ Serial(jobs) /\ Served(jobs) /\ StartIsSafe(jobs)
      /\ StopIsServed(jobs) /\ CoresKnown(jobs) /\ RouteKnown(jobs)
      /\ SessionFits /\ AnswersFit(jobs) /\ NothingLeft /\ TunnelIsSafe /\ OnIsIdle
  BY TypeFacts DEF SInv, CallsServed
<1> USE DEF app, helper, history
<1>2. /\ jobs[i].op = "start" /\ jobs[i].at = "spawn"
      /\ Rest /\ OneMoved(i) /\ UNCHANGED <<active, owns, scoped, core>>
      /\ jobs'[i].at = "reply" /\ jobs'[i].core = jobs[i].core /\ jobs'[i].owns = jobs[i].owns
  BY Replied DEF SpawnFails, At, Rest
<1>3. StagesFit(jobs)'
  BY <1>1, <1>2, SMTT(30)
     DEF StagesFit, OneMoved, Rest, Stops, OnIt
<1>4. Serial(jobs)'
  BY <1>1, <1>2, SMTT(30)
     DEF Serial, OneMoved, Rest, OnIt
<1>5. Served(jobs)'
  BY <1>1, <1>2, SMTT(30)
     DEF Served, OneMoved, Rest, Pending
<1>6. StartIsSafe(jobs)'
  BY <1>1, <1>2, SMTT(30)
     DEF StartIsSafe, Serial, OneMoved, Rest, OnIt
<1>7. StopIsServed(jobs)'
  BY <1>1, <1>2, SMTT(30)
     DEF StopIsServed, OneMoved, Rest
<1>8. CoresKnown(jobs)'
  BY <1>1, <1>2, SMTT(30)
     DEF CoresKnown, Serial, OneMoved, Rest, OnIt
<1>9. RouteKnown(jobs)'
  BY <1>1, <1>2, SMTT(30)
     DEF RouteKnown, OneMoved, Rest
<1>10. SessionFits'
  BY <1>1, <1>2, SMTT(30)
     DEF SessionFits, OneMoved, Rest
<1>11. AnswersFit(jobs)'
  BY <1>1, <1>2, SMTT(30)
     DEF AnswersFit, Asked, OneMoved, Rest
<1>12. NothingLeft'
  BY <1>1, <1>2, SMTT(30)
     DEF NothingLeft, Cleared, OneMoved, Rest, OnIt
<1>13. TunnelIsSafe'
  BY <1>1, <1>2, SMTT(30)
     DEF TunnelIsSafe, Untouched, OneMoved, Rest, Pending
<1>14. OnIsIdle'
  BY <1>1, <1>2, SMTT(30)
     DEF OnIsIdle, OneMoved, Rest
<1> QED
  BY <1>3, <1>4, <1>5, <1>6, <1>7, <1>8, <1>9, <1>10, <1>11, <1>12, <1>13, <1>14
     DEF SInv, CallsServed

(* or spawns it and adds the route; *)
LEMMA SpawnServed ==
    ASSUME SwitchesTyped, SystemTyped, AppTyped, JobsTyped, CallsFit, SInv,
           NEW i \in DOMAIN jobs, Spawn(i)
    PROVE  SInv'
<1>1. /\ Facts
      /\ StagesFit(jobs) /\ Serial(jobs) /\ Served(jobs) /\ StartIsSafe(jobs)
      /\ StopIsServed(jobs) /\ CoresKnown(jobs) /\ RouteKnown(jobs)
      /\ SessionFits /\ AnswersFit(jobs) /\ NothingLeft /\ TunnelIsSafe /\ OnIsIdle
  BY TypeFacts DEF SInv, CallsServed
<1> USE DEF app, helper, history
<1>2. /\ jobs[i].op = "start" /\ jobs[i].at = "spawn" /\ Rest
      /\ UNCHANGED <<active, owns>> /\ scoped' = TRUE
  BY DEF Spawn, At, Rest
<1>3. PICK c \in Cores :
        /\ core[c] = "unborn" /\ core' = [core EXCEPT ![c] = "running"]
        /\ jobs' = [jobs EXCEPT ![i].at = "install", ![i].core = c, ![i].owns = ~scoped]
  BY DEF Spawn
<1>4. /\ OneMoved(i)
      /\ jobs'[i].at = "install" /\ jobs'[i].core = c /\ jobs'[i].owns = ~scoped
  BY <1>1, <1>2, <1>3, Spawned DEF SwitchesTyped
<1>5. scoped \/ jobs'[i].owns
  BY <1>1, <1>2, <1>3, <1>4, Zenon DEF SwitchesTyped
<1>6. /\ core[c] = "unborn" /\ core'[c] = "running"
      /\ \A d \in Cores : d # c => core'[d] = core[d]
  BY <1>1, <1>2, <1>3, <1>4, <1>5 DEF SystemTyped
<1>7. StagesFit(jobs)'
  BY <1>1, <1>2, <1>4, <1>5, <1>6, SMTT(30)
     DEF StagesFit, OneMoved, Rest, Stops, OnIt, Facts, JobFacts
<1>8. Serial(jobs)'
  BY <1>1, <1>2, <1>4, <1>5, <1>6, SMTT(30)
     DEF Serial, StagesFit, OneMoved, Rest, Stops, OnIt
<1>9. Served(jobs)'
  BY <1>1, <1>2, <1>4, <1>5, <1>6, SMTT(30)
     DEF Served, OneMoved, Rest, Pending
<1>10. StartIsSafe(jobs)'
  BY <1>1, <1>2, <1>4, <1>5, <1>6, SMTT(30)
     DEF StartIsSafe, Serial, OneMoved, Rest, OnIt
<1>11. StopIsServed(jobs)'
  BY <1>1, <1>2, <1>4, <1>5, <1>6, SMTT(30)
     DEF StopIsServed, OneMoved, Rest
<1>12. CoresKnown(jobs)'
  BY <1>1, <1>2, <1>4, <1>5, <1>6, SMTT(30)
     DEF CoresKnown, OneMoved, Rest
<1>13. RouteKnown(jobs)'
  BY <1>1, <1>2, <1>4, <1>5, <1>6, SMTT(30)
     DEF RouteKnown, Serial, SessionFits, OneMoved, Rest, OnIt
<1>14. SessionFits'
  BY <1>1, <1>2, <1>4, <1>5, <1>6, SMTT(30)
     DEF SessionFits, Serial, OneMoved, Rest, OnIt
<1>15. AnswersFit(jobs)'
  BY <1>1, <1>2, <1>4, <1>5, <1>6, SMTT(30)
     DEF AnswersFit, Asked, OneMoved, Rest
<1>16. NothingLeft'
  BY <1>1, <1>2, <1>4, <1>5, <1>6, SMTT(30)
     DEF NothingLeft, Cleared, OneMoved, Rest, OnIt
<1>17. TunnelIsSafe'
  BY <1>1, <1>2, <1>4, <1>5, <1>6, SMTT(30)
     DEF TunnelIsSafe, Untouched, OneMoved, Rest, Pending
<1>18. OnIsIdle'
  BY <1>1, <1>2, <1>4, <1>5, <1>6, SMTT(30)
     DEF OnIsIdle, OneMoved, Rest
<1> QED
  BY <1>7, <1>8, <1>9, <1>10, <1>11, <1>12, <1>13, <1>14, <1>15, <1>16, <1>17,
     <1>18 DEF SInv, CallsServed

(* undoes both when the routes fail, *)
LEMMA RoutesFailServed ==
    ASSUME SwitchesTyped, SystemTyped, AppTyped, JobsTyped, CallsFit, SInv,
           NEW i \in DOMAIN jobs, RoutesFail(i)
    PROVE  SInv'
<1>1. /\ Facts
      /\ StagesFit(jobs) /\ Serial(jobs) /\ Served(jobs) /\ StartIsSafe(jobs)
      /\ StopIsServed(jobs) /\ CoresKnown(jobs) /\ RouteKnown(jobs)
      /\ SessionFits /\ AnswersFit(jobs) /\ NothingLeft /\ TunnelIsSafe /\ OnIsIdle
  BY TypeFacts DEF SInv, CallsServed
<1> USE DEF app, helper, history
<1>2. /\ jobs[i].op = "start" /\ jobs[i].at = "install"
      /\ Rest /\ OneMoved(i) /\ UNCHANGED <<active, owns>> /\ (scoped' => scoped /\ ~jobs[i].owns)
      /\ jobs'[i].at = "reply" /\ jobs'[i].core = jobs[i].core /\ jobs'[i].owns = jobs[i].owns
  BY Replied DEF RoutesFail, At, Rest
<1>3. jobs[i].core \in Cores
  BY <1>1, <1>2 DEF StagesFit, OneMoved
<1>4. /\ \A c \in Cores : c # jobs[i].core => core'[c] = core[c]
      /\ core'[jobs[i].core] = IF core[jobs[i].core] = "running" THEN "dead" ELSE core[jobs[i].core]
  BY <1>1, <1>2, <1>3, OneDies DEF RoutesFail
<1>5. StagesFit(jobs)'
  BY <1>1, <1>2, <1>3, <1>4, SMTT(30)
     DEF StagesFit, OneMoved, Rest, Stops, OnIt, Facts, JobFacts
<1>6. Serial(jobs)'
  BY <1>1, <1>2, <1>3, <1>4, SMTT(30)
     DEF Serial, OneMoved, Rest, OnIt
<1>7. Served(jobs)'
  BY <1>1, <1>2, <1>3, <1>4, SMTT(30)
     DEF Served, OneMoved, Rest, Pending
<1>8. StartIsSafe(jobs)'
  BY <1>1, <1>2, <1>3, <1>4, SMTT(30)
     DEF StartIsSafe, Serial, OneMoved, Rest, OnIt
<1>9. StopIsServed(jobs)'
  BY <1>1, <1>2, <1>3, <1>4, SMTT(30)
     DEF StopIsServed, OneMoved, Rest
<1>10. CoresKnown(jobs)'
  BY <1>1, <1>2, <1>3, <1>4, SMTT(30)
     DEF CoresKnown, Serial, OneMoved, Rest, OnIt
<1>11. RouteKnown(jobs)'
  BY <1>1, <1>2, <1>3, <1>4, SMTT(30)
     DEF RouteKnown, Serial, OneMoved, Rest, OnIt
<1>12. SessionFits'
  BY <1>1, <1>2, <1>3, <1>4, SMTT(30)
     DEF SessionFits, OneMoved, Rest, Facts
<1>13. AnswersFit(jobs)'
  BY <1>1, <1>2, <1>3, <1>4, SMTT(30)
     DEF AnswersFit, Asked, OneMoved, Rest
<1>14. NothingLeft'
  BY <1>1, <1>2, <1>3, <1>4, SMTT(30)
     DEF NothingLeft, Cleared, OneMoved, Rest, OnIt
<1>15. TunnelIsSafe'
  BY <1>1, <1>2, <1>3, <1>4, SMTT(30)
     DEF TunnelIsSafe, Untouched, OneMoved, Rest, Pending
<1>16. OnIsIdle'
  BY <1>1, <1>2, <1>3, <1>4, SMTT(30)
     DEF OnIsIdle, OneMoved, Rest
<1> QED
  BY <1>5, <1>6, <1>7, <1>8, <1>9, <1>10, <1>11, <1>12, <1>13, <1>14, <1>15, <1>16
     DEF SInv, CallsServed

(* or makes them the session. *)
LEMMA RoutesUpServed ==
    ASSUME SwitchesTyped, SystemTyped, AppTyped, JobsTyped, CallsFit, SInv,
           NEW i \in DOMAIN jobs, RoutesUp(i)
    PROVE  SInv'
<1>1. /\ Facts
      /\ StagesFit(jobs) /\ Serial(jobs) /\ Served(jobs) /\ StartIsSafe(jobs)
      /\ StopIsServed(jobs) /\ CoresKnown(jobs) /\ RouteKnown(jobs)
      /\ SessionFits /\ AnswersFit(jobs) /\ NothingLeft /\ TunnelIsSafe /\ OnIsIdle
  BY TypeFacts DEF SInv, CallsServed
<1> USE DEF app, helper, history
<1>2. /\ jobs[i].op = "start" /\ jobs[i].at = "install"
      /\ Rest /\ OneMoved(i) /\ UNCHANGED <<core, scoped>>
      /\ active' = jobs[i].core /\ owns' = jobs[i].owns
      /\ jobs'[i].at = "reply" /\ jobs'[i].core = jobs[i].core /\ jobs'[i].owns = jobs[i].owns
  BY Replied DEF RoutesUp, At, Rest
<1>3. jobs[i].core \in Cores
  BY <1>1, <1>2 DEF StagesFit, OneMoved
<1>4. StagesFit(jobs)'
  BY <1>1, <1>2, <1>3, SMTT(30)
     DEF StagesFit, OneMoved, Rest, Stops, OnIt
<1>5. Serial(jobs)'
  BY <1>1, <1>2, <1>3, SMTT(30)
     DEF Serial, OneMoved, Rest, OnIt
<1>6. Served(jobs)'
  BY <1>1, <1>2, <1>3, SMTT(30)
     DEF Served, OneMoved, Rest, Pending
<1>7. StartIsSafe(jobs)'
  BY <1>1, <1>2, <1>3, SMTT(30)
     DEF StartIsSafe, Serial, OneMoved, Rest, OnIt
<1>8. StopIsServed(jobs)'
  BY <1>1, <1>2, <1>3, SMTT(30)
     DEF StopIsServed, Served, OneMoved, Rest, Pending
<1>9. CoresKnown(jobs)'
  BY <1>1, <1>2, <1>3, SMTT(30)
     DEF CoresKnown, Serial, OneMoved, Rest, OnIt
<1>10. RouteKnown(jobs)'
  BY <1>1, <1>2, <1>3, SMTT(30)
     DEF RouteKnown, Serial, SessionFits, OneMoved, Rest, OnIt
<1>11. SessionFits'
  BY <1>1, <1>2, <1>3, SMTT(30)
     DEF SessionFits, StagesFit, Serial, OneMoved, Rest, Stops, OnIt
<1>12. AnswersFit(jobs)'
  BY <1>1, <1>2, <1>3, SMTT(30)
     DEF AnswersFit, Asked, OneMoved, Rest
<1>13. NothingLeft'
  BY <1>1, <1>2, <1>3, SMTT(30)
     DEF NothingLeft, Cleared, OneMoved, Rest, OnIt
<1>14. TunnelIsSafe'
  BY <1>1, <1>2, <1>3, SMTT(30)
     DEF TunnelIsSafe, Untouched, OneMoved, Rest, Pending
<1>15. OnIsIdle'
  BY <1>1, <1>2, <1>3, SMTT(30)
     DEF OnIsIdle, OneMoved, Rest
<1> QED
  BY <1>4, <1>5, <1>6, <1>7, <1>8, <1>9, <1>10, <1>11, <1>12, <1>13, <1>14, <1>15
     DEF SInv, CallsServed

(* A stop reads the session, *)
LEMMA ReadTargetServed ==
    ASSUME SwitchesTyped, SystemTyped, AppTyped, JobsTyped, CallsFit, SInv,
           NEW i \in DOMAIN jobs, ReadTarget(i)
    PROVE  SInv'
<1>1. /\ Facts
      /\ StagesFit(jobs) /\ Serial(jobs) /\ Served(jobs) /\ StartIsSafe(jobs)
      /\ StopIsServed(jobs) /\ CoresKnown(jobs) /\ RouteKnown(jobs)
      /\ SessionFits /\ AnswersFit(jobs) /\ NothingLeft /\ TunnelIsSafe /\ OnIsIdle
  BY TypeFacts DEF SInv, CallsServed
<1> USE DEF app, helper, history
<1>2. jobs[i].op \in Stops /\ jobs[i].at = "queued" /\ Rest /\ UNCHANGED <<active, owns, core, scoped>>
  BY DEF ReadTarget, At, Rest
<1>3. PICK at \in {"reply", "reap"} :
        /\ at = "reply" <=> active = NoCore /\ jobs[i].op = "stop"
        /\ jobs' = [jobs EXCEPT ![i].core = active, ![i].at = at, ![i].ok = TRUE]
  BY DEF ReadTarget
<1>4. /\ at \in {"reply", "reap"} /\ (at = "reply" <=> active = NoCore /\ jobs[i].op = "stop")
      /\ OneMoved(i) /\ jobs'[i].at = at /\ jobs'[i].core = active /\ jobs'[i].owns = jobs[i].owns
  BY <1>1, <1>2, <1>3, TargetRead DEF Facts, Stages
<1>5. /\ \A k \in Calls(jobs) : jobs[k].at \notin OnIt
      /\ jobs[i].open => \A k \in Calls(jobs) \ {i} : jobs[k].at \notin Pending
  BY ServedInOrder DEF ReadTarget
<1>6. StagesFit(jobs)'
  BY <1>1, <1>2, <1>4, <1>5, SMTT(30)
     DEF StagesFit, SessionFits, OneMoved, Rest, Stops, OnIt
<1>7. Serial(jobs)'
  BY <1>1, <1>2, <1>4, <1>5, SMTT(30)
     DEF Serial, OneMoved, Rest, OnIt
<1>8. Served(jobs)'
  BY <1>1, <1>2, <1>4, <1>5, SMTT(30)
     DEF Served, OneMoved, Rest, Pending
<1>9. StartIsSafe(jobs)'
  BY <1>1, <1>2, <1>4, <1>5, SMTT(30)
     DEF StartIsSafe, Served, OneMoved, Rest, Pending
<1>10. StopIsServed(jobs)'
  BY <1>1, <1>2, <1>4, <1>5, SMTT(30)
     DEF StopIsServed, OneMoved, Rest
<1>11. CoresKnown(jobs)'
  BY <1>1, <1>2, <1>4, <1>5, SMTT(30)
     DEF CoresKnown, OneMoved, Rest
<1>12. RouteKnown(jobs)'
  BY <1>1, <1>2, <1>4, <1>5, SMTT(30)
     DEF RouteKnown, OneMoved, Rest
<1>13. SessionFits'
  BY <1>1, <1>2, <1>4, <1>5, SMTT(30)
     DEF SessionFits, OneMoved, Rest
<1>14. AnswersFit(jobs)'
  BY <1>1, <1>2, <1>4, <1>5, SMTT(30)
     DEF AnswersFit, Asked, OneMoved, Rest
<1>15. NothingLeft'
  BY <1>1, <1>2, <1>4, <1>5, SMTT(30)
     DEF NothingLeft, Cleared, OneMoved, Rest, OnIt
<1>16. TunnelIsSafe'
  BY <1>1, <1>2, <1>4, <1>5, SMTT(30)
     DEF TunnelIsSafe, Untouched, OneMoved, Rest, Pending
<1>17. OnIsIdle'
  BY <1>1, <1>2, <1>4, <1>5, SMTT(30)
     DEF OnIsIdle, OneMoved, Rest
<1> QED
  BY <1>6, <1>7, <1>8, <1>9, <1>10, <1>11, <1>12, <1>13, <1>14, <1>15, <1>16,
     <1>17 DEF SInv, CallsServed

(* ends its core *)
LEMMA ReapServed ==
    ASSUME SwitchesTyped, SystemTyped, AppTyped, JobsTyped, CallsFit, SInv,
           NEW i \in DOMAIN jobs, Reap(i)
    PROVE  SInv'
<1>1. /\ Facts
      /\ StagesFit(jobs) /\ Serial(jobs) /\ Served(jobs) /\ StartIsSafe(jobs)
      /\ StopIsServed(jobs) /\ CoresKnown(jobs) /\ RouteKnown(jobs)
      /\ SessionFits /\ AnswersFit(jobs) /\ NothingLeft /\ TunnelIsSafe /\ OnIsIdle
  BY TypeFacts DEF SInv, CallsServed
<1> USE DEF app, helper, history
<1>2. /\ jobs[i].op \in Stops /\ jobs[i].at = "reap"
      /\ Rest /\ OneMoved(i) /\ UNCHANGED <<active, owns, scoped>>
      /\ jobs'[i].at = "clear" /\ jobs'[i].core = jobs[i].core /\ jobs'[i].owns = jobs[i].owns
  BY Moved DEF Reap, At, Rest, Stages
<1>3. /\ \A c \in Cores : c # jobs[i].core => core'[c] = core[c]
      /\ jobs[i].core \in Cores
            => core'[jobs[i].core]
                  = IF core[jobs[i].core] = "running" THEN "dead" ELSE core[jobs[i].core]
  BY <1>1, <1>2, OneDies DEF Reap, Facts, JobFacts, OneMoved
<1>4. StagesFit(jobs)'
  BY <1>1, <1>2, <1>3, SMTT(30)
     DEF StagesFit, OneMoved, Rest, Stops, OnIt, Facts, JobFacts
<1>5. Serial(jobs)'
  BY <1>1, <1>2, <1>3, SMTT(30)
     DEF Serial, OneMoved, Rest, OnIt
<1>6. Served(jobs)'
  BY <1>1, <1>2, <1>3, SMTT(30)
     DEF Served, OneMoved, Rest, Pending
<1>7. StartIsSafe(jobs)'
  BY <1>1, <1>2, <1>3, SMTT(30)
     DEF StartIsSafe, OneMoved, Rest
<1>8. StopIsServed(jobs)'
  BY <1>1, <1>2, <1>3, SMTT(30)
     DEF StopIsServed, OneMoved, Rest
<1>9. CoresKnown(jobs)'
  BY <1>1, <1>2, <1>3, SMTT(30)
     DEF CoresKnown, OneMoved, Rest
<1>10. RouteKnown(jobs)'
  BY <1>1, <1>2, <1>3, SMTT(30)
     DEF RouteKnown, OneMoved, Rest
<1>11. SessionFits'
  BY <1>1, <1>2, <1>3, SMTT(30)
     DEF SessionFits, OneMoved, Rest, Facts
<1>12. AnswersFit(jobs)'
  BY <1>1, <1>2, <1>3, SMTT(30)
     DEF AnswersFit, Asked, OneMoved, Rest
<1>13. NothingLeft'
  BY <1>1, <1>2, <1>3, SMTT(30)
     DEF NothingLeft, Cleared, OneMoved, Rest, OnIt
<1>14. TunnelIsSafe'
  BY <1>1, <1>2, <1>3, SMTT(30)
     DEF TunnelIsSafe, Untouched, OneMoved, Rest, Pending
<1>15. OnIsIdle'
  BY <1>1, <1>2, <1>3, SMTT(30)
     DEF OnIsIdle, OneMoved, Rest
<1> QED
  BY <1>4, <1>5, <1>6, <1>7, <1>8, <1>9, <1>10, <1>11, <1>12, <1>13, <1>14, <1>15
     DEF SInv, CallsServed

(* and clears the session when it is still the one it read. *)
LEMMA ClearServed ==
    ASSUME SwitchesTyped, SystemTyped, AppTyped, JobsTyped, CallsFit, SInv,
           NEW i \in DOMAIN jobs, Clear(i)
    PROVE  SInv'
<1>1. /\ Facts
      /\ StagesFit(jobs) /\ Serial(jobs) /\ Served(jobs) /\ StartIsSafe(jobs)
      /\ StopIsServed(jobs) /\ CoresKnown(jobs) /\ RouteKnown(jobs)
      /\ SessionFits /\ AnswersFit(jobs) /\ NothingLeft /\ TunnelIsSafe /\ OnIsIdle
  BY TypeFacts DEF SInv, CallsServed
<1> USE DEF app, helper, history
<1>2. /\ jobs[i].op = "stop" /\ jobs[i].at = "clear" /\ Rest /\ OneMoved(i) /\ UNCHANGED core
      /\ jobs'[i].at = "reply" /\ jobs'[i].core = jobs[i].core /\ jobs'[i].owns = jobs[i].owns
  BY Replied DEF Clear, At, Rest
<1>3. \A k \in Calls(jobs) : jobs[k].at \notin OnIt
  BY LenProperties DEF Clear, QueueIsFree, JobsTyped, Calls, OnIt
<1>4. (active = jobs[i].core /\ Clears) \/ (active # jobs[i].core /\ UNCHANGED <<active, owns, scoped>>)
  BY Zenon DEF Clear, ClearActive, Clears
<1>5. StagesFit(jobs)'
  BY <1>1, <1>2, <1>3, <1>4, SMTT(30)
     DEF StagesFit, OneMoved, Rest, Clears, Stops, OnIt
<1>6. Serial(jobs)'
  BY <1>1, <1>2, <1>3, <1>4, SMTT(30)
     DEF Serial, OneMoved, Rest, Clears, OnIt
<1>7. Served(jobs)'
  BY <1>1, <1>2, <1>3, <1>4, SMTT(30)
     DEF Served, OneMoved, Rest, Clears, Pending
<1>8. StartIsSafe(jobs)'
  BY <1>1, <1>2, <1>3, <1>4, SMTT(30)
     DEF StartIsSafe, OneMoved, Rest, Clears
<1>9. StopIsServed(jobs)'
  BY <1>1, <1>2, <1>3, <1>4, SMTT(30)
     DEF StopIsServed, OneMoved, Rest, Clears
<1>10. CoresKnown(jobs)'
  BY <1>1, <1>2, <1>3, <1>4, SMTT(30)
     DEF CoresKnown, StagesFit, OneMoved, Rest, Clears, Stops, OnIt
<1>11. RouteKnown(jobs)'
  <2>1. CASE Clears
    BY <1>1, <1>2, <2>1, SMTT(30) DEF Rest, OneMoved, RouteKnown, Clears
  <2>2. CASE UNCHANGED <<active, owns, scoped>>
    BY <1>1, <1>2, <2>2, SMTT(30) DEF Rest, OneMoved, RouteKnown
  <2> QED
    BY <1>4, <2>1, <2>2
<1>12. SessionFits'
  BY <1>1, <1>2, <1>3, <1>4, SMTT(30)
     DEF SessionFits, OneMoved, Rest, Clears
<1>13. AnswersFit(jobs)'
  BY <1>1, <1>2, <1>3, <1>4, SMTT(30)
     DEF AnswersFit, Asked, OneMoved, Rest, Clears
<1>14. NothingLeft'
  BY <1>1, <1>2, <1>3, <1>4, SMTT(30)
     DEF NothingLeft, Cleared, OneMoved, Rest, Clears, OnIt
<1>15. TunnelIsSafe'
  BY <1>1, <1>2, <1>3, <1>4, SMTT(30)
     DEF TunnelIsSafe, Untouched, OneMoved, Rest, Clears, Pending
<1>16. OnIsIdle'
  BY <1>1, <1>2, <1>3, <1>4, SMTT(30)
     DEF OnIsIdle, OneMoved, Rest, Clears
<1> QED
  BY <1>5, <1>6, <1>7, <1>8, <1>9, <1>10, <1>11, <1>12, <1>13, <1>14, <1>15, <1>16
     DEF SInv, CallsServed

(* The routes are dropped with the scoped one. *)
LEMMA RemoveRoutesServed ==
    ASSUME SwitchesTyped, SystemTyped, AppTyped, JobsTyped, CallsFit, SInv,
           NEW i \in DOMAIN jobs, RemoveRoutes(i)
    PROVE  SInv'
<1>1. /\ Facts
      /\ StagesFit(jobs) /\ Serial(jobs) /\ Served(jobs) /\ StartIsSafe(jobs)
      /\ StopIsServed(jobs) /\ CoresKnown(jobs) /\ RouteKnown(jobs)
      /\ SessionFits /\ AnswersFit(jobs) /\ NothingLeft /\ TunnelIsSafe /\ OnIsIdle
  BY TypeFacts DEF SInv, CallsServed
<1> USE DEF app, helper, history
<1>2. /\ jobs[i].op = "routes" /\ jobs[i].at = "queued"
      /\ Rest /\ OneMoved(i) /\ UNCHANGED <<active, core>>
      /\ (scoped' => scoped /\ ~owns) /\ ~owns'
      /\ jobs'[i].at = "reply" /\ jobs'[i].core = jobs[i].core /\ jobs'[i].owns = jobs[i].owns
  BY Replied DEF RemoveRoutes, At, Rest
<1>3. /\ \A k \in Calls(jobs) : jobs[k].at \notin OnIt
      /\ jobs[i].open => \A k \in Calls(jobs) \ {i} : jobs[k].at \notin Pending
  BY ServedInOrder DEF RemoveRoutes
<1>4. StagesFit(jobs)'
  BY <1>1, <1>2, <1>3, SMTT(30)
     DEF StagesFit, OneMoved, Rest, Stops, OnIt
<1>5. Serial(jobs)'
  BY <1>1, <1>2, <1>3, SMTT(30)
     DEF Serial, OneMoved, Rest, OnIt
<1>6. Served(jobs)'
  BY <1>1, <1>2, <1>3, SMTT(30)
     DEF Served, OneMoved, Rest, Pending
<1>7. StartIsSafe(jobs)'
  BY <1>1, <1>2, <1>3, SMTT(30)
     DEF StartIsSafe, OneMoved, Rest
<1>8. StopIsServed(jobs)'
  BY <1>1, <1>2, <1>3, SMTT(30)
     DEF StopIsServed, OneMoved, Rest
<1>9. CoresKnown(jobs)'
  BY <1>1, <1>2, <1>3, SMTT(30)
     DEF CoresKnown, OneMoved, Rest
<1>10. RouteKnown(jobs)'
  BY <1>1, <1>2, <1>3, SMTT(30)
     DEF RouteKnown, OneMoved, Rest
<1>11. SessionFits'
  BY <1>1, <1>2, <1>3, SMTT(30)
     DEF SessionFits, OneMoved, Rest
<1>12. AnswersFit(jobs)'
  BY <1>1, <1>2, <1>3, SMTT(30)
     DEF AnswersFit, Asked, OneMoved, Rest
<1>13. NothingLeft'
  BY <1>1, <1>2, <1>3, SMTT(30)
     DEF NothingLeft, Cleared, OneMoved, Rest, OnIt
<1>14. TunnelIsSafe'
  BY <1>1, <1>2, <1>3, SMTT(30)
     DEF TunnelIsSafe, Untouched, OneMoved, Rest, Pending
<1>15. OnIsIdle'
  BY <1>1, <1>2, <1>3, SMTT(30)
     DEF OnIsIdle, OneMoved, Rest
<1> QED
  BY <1>4, <1>5, <1>6, <1>7, <1>8, <1>9, <1>10, <1>11, <1>12, <1>13, <1>14, <1>15
     DEF SInv, CallsServed

(* The exit handler clears the session of a core that ended, *)
LEMMA ExitServed ==
    ASSUME SwitchesTyped, SystemTyped, AppTyped, JobsTyped, CallsFit, SInv,
           ExitHandler
    PROVE  SInv'
<1>1. /\ Facts
      /\ StagesFit(jobs) /\ Serial(jobs) /\ Served(jobs) /\ StartIsSafe(jobs)
      /\ StopIsServed(jobs) /\ CoresKnown(jobs) /\ RouteKnown(jobs)
      /\ SessionFits /\ AnswersFit(jobs) /\ NothingLeft /\ TunnelIsSafe /\ OnIsIdle
  BY TypeFacts DEF SInv, CallsServed
<1> USE DEF app, helper, history
<1>2. /\ Rest /\ UNCHANGED <<jobs, core>> /\ Clears /\ active # NoCore /\ core[active] = "dead"
  BY Zenon DEF ExitHandler, ClearActive, Clears, Rest
<1>3. StagesFit(jobs)'
  BY <1>1, <1>2, SMTT(30)
     DEF StagesFit, Rest, Clears, Stops, OnIt
<1>4. Serial(jobs)'
  BY <1>1, <1>2, SMTT(30)
     DEF Serial, Rest, Clears, OnIt
<1>5. Served(jobs)'
  BY <1>1, <1>2, SMTT(30)
     DEF Served, Rest, Clears, Pending
<1>6. StartIsSafe(jobs)'
  BY <1>1, <1>2, SMTT(30)
     DEF StartIsSafe, Rest, Clears
<1>7. StopIsServed(jobs)'
  BY <1>1, <1>2, SMTT(30)
     DEF StopIsServed, Rest, Clears
<1>8. CoresKnown(jobs)'
  BY <1>1, <1>2, SMTT(30)
     DEF CoresKnown, Rest, Clears
<1>9. RouteKnown(jobs)'
  BY <1>1, <1>2, SMTT(30)
     DEF RouteKnown, Rest, Clears
<1>10. SessionFits'
  BY <1>1, <1>2, SMTT(30)
     DEF SessionFits, Rest, Clears
<1>11. AnswersFit(jobs)'
  BY <1>1, <1>2, SMTT(30)
     DEF AnswersFit, Asked, Rest, Clears
<1>12. NothingLeft'
  BY <1>1, <1>2, SMTT(30)
     DEF NothingLeft, Cleared, Rest, Clears, OnIt
<1>13. TunnelIsSafe'
  BY <1>1, <1>2, SMTT(30)
     DEF TunnelIsSafe, Untouched, Rest, Clears, Pending
<1>14. OnIsIdle'
  BY <1>1, <1>2, SMTT(30)
     DEF OnIsIdle, Rest, Clears
<1> QED
  BY <1>3, <1>4, <1>5, <1>6, <1>7, <1>8, <1>9, <1>10, <1>11, <1>12, <1>13, <1>14
     DEF SInv, CallsServed

(* and a core may end. *)
LEMMA CoreExitsServed ==
    ASSUME SwitchesTyped, SystemTyped, AppTyped, JobsTyped, CallsFit, SInv,
           NEW x \in Cores, CoreExits(x)
    PROVE  SInv'
<1>1. /\ Facts
      /\ StagesFit(jobs) /\ Serial(jobs) /\ Served(jobs) /\ StartIsSafe(jobs)
      /\ StopIsServed(jobs) /\ CoresKnown(jobs) /\ RouteKnown(jobs)
      /\ SessionFits /\ AnswersFit(jobs) /\ NothingLeft /\ TunnelIsSafe /\ OnIsIdle
  BY TypeFacts DEF SInv, CallsServed
<1> USE DEF app, helper, history
<1>2. /\ Rest /\ UNCHANGED <<jobs, active, owns, scoped>>
  BY DEF CoreExits, Rest
<1>3. /\ \A c \in Cores : c # x => core'[c] = core[c]
      /\ core[x] = "running" /\ core'[x] = "dead"
  BY OneDies DEF CoreExits, Running
<1>4. StagesFit(jobs)'
  BY <1>1, <1>2, <1>3, SMTT(30)
     DEF StagesFit, Rest, Stops, OnIt, Facts, JobFacts
<1>5. Serial(jobs)'
  BY <1>1, <1>2, <1>3, SMTT(30)
     DEF Serial, Rest, OnIt
<1>6. Served(jobs)'
  BY <1>1, <1>2, <1>3, SMTT(30)
     DEF Served, Rest, Pending
<1>7. StartIsSafe(jobs)'
  BY <1>1, <1>2, <1>3, SMTT(30)
     DEF StartIsSafe, Rest
<1>8. StopIsServed(jobs)'
  BY <1>1, <1>2, <1>3, SMTT(30)
     DEF StopIsServed, Rest
<1>9. CoresKnown(jobs)'
  BY <1>1, <1>2, <1>3, SMTT(30)
     DEF CoresKnown, Rest
<1>10. RouteKnown(jobs)'
  BY <1>1, <1>2, <1>3, SMTT(30)
     DEF RouteKnown, Rest
<1>11. SessionFits'
  BY <1>1, <1>2, <1>3, SMTT(30)
     DEF SessionFits, Rest, Facts
<1>12. AnswersFit(jobs)'
  BY <1>1, <1>2, <1>3, SMTT(30)
     DEF AnswersFit, Asked, Rest
<1>13. NothingLeft'
  BY <1>1, <1>2, <1>3, SMTT(30)
     DEF NothingLeft, Cleared, Rest, OnIt
<1>14. TunnelIsSafe'
  BY <1>1, <1>2, <1>3, SMTT(30)
     DEF TunnelIsSafe, Untouched, Rest, Pending
<1>15. OnIsIdle'
  BY <1>1, <1>2, <1>3, SMTT(30)
     DEF OnIsIdle, Rest
<1> QED
  BY <1>4, <1>5, <1>6, <1>7, <1>8, <1>9, <1>10, <1>11, <1>12, <1>13, <1>14, <1>15
     DEF SInv, CallsServed

-----------------------------------------------------------------------------
(* A step of the client gives calls up, drops the one that returned, and   *)
(* makes the next.                                                         *)
Session == UNCHANGED <<active, owns, core, scoped, orphans, leaked, installed>>

(* What a call adds to the ones the helper keeps. *)
Adds(op, q) == \E n :
    /\ n \notin Calls(q) /\ Calls(jobs') = Calls(q) \cup {n}
    /\ \A k \in Calls(q) : jobs'[k] = q[k]
    /\ jobs'[n].op = op /\ jobs'[n].at = "queued" /\ jobs'[n].core = NoCore /\ jobs'[n].open

(* It is behind them. *)
LEMMA CallAdds ==
    ASSUME NEW op \in Ops, NEW q \in Seq(Job), Call(op, q) PROVE Adds(op, q)
<1> DEFINE j == [op |-> op, at |-> "queued", core |-> NoCore, owns |-> FALSE,
                 ok |-> FALSE, open |-> TRUE]
           n == Len(q) + 1
<1>1. /\ jobs' = Append(q, j) /\ j \in Job
      /\ j.op = op /\ j.at = "queued" /\ j.core = NoCore /\ j.open
  BY JobCalled DEF Call
<1> HIDE DEF j
<1>2. /\ Len(jobs') = n /\ Len(q) \in Nat
      /\ \A k \in 1 .. Len(q) : jobs'[k] = q[k]
  BY <1>1, OneIsAdded
<1>3. jobs'[n] = j
  BY <1>1
<1>4. n \notin Calls(q) /\ Calls(jobs') = Calls(q) \cup {n}
  BY <1>2 DEF Calls
<1> HIDE DEF n
<1>5. /\ n \notin Calls(q) /\ Calls(jobs') = Calls(q) \cup {n}
      /\ \A k \in Calls(q) : jobs'[k] = q[k]
      /\ jobs'[n].op = op /\ jobs'[n].at = "queued" /\ jobs'[n].core = NoCore
      /\ jobs'[n].open
  BY <1>1, <1>2, <1>3, <1>4 DEF Calls
<1> QED
  BY <1>5 DEF Adds

(* Behind calls that nobody waits for it changes nothing for them. *)
LEMMA NextCallServed ==
    ASSUME NEW q \in Seq(Job), Silent(q), CallsServed(q), Session, NEW op \in Ops, Call(op, q)
    PROVE  CallsServed(jobs)'
<1>1. Adds(op, q)
  BY CallAdds
<1>2. PICK n :
        /\ n \notin Calls(q) /\ Calls(jobs') = Calls(q) \cup {n}
        /\ \A k \in Calls(q) : jobs'[k] = q[k]
        /\ jobs'[n].op = op /\ jobs'[n].at = "queued" /\ jobs'[n].core = NoCore
        /\ jobs'[n].open
  BY <1>1 DEF Adds
<1>3. \A k \in Calls(q) : ~q[k].open
  BY DEF Silent, Calls
<1>4. /\ StagesFit(q) /\ Serial(q) /\ Served(q) /\ StartIsSafe(q) /\ StopIsServed(q)
      /\ CoresKnown(q) /\ RouteKnown(q)
  BY DEF CallsServed
<1>5. StagesFit(jobs)'
  BY <1>2, <1>4, SMTT(30) DEF StagesFit, Session, OnIt, Stops
<1>6. Serial(jobs)'
  BY <1>2, <1>4, SMTT(30) DEF Serial, Session, OnIt
<1>7. Served(jobs)'
  BY <1>2, <1>3, SMTT(30) DEF Served
<1>8. StartIsSafe(jobs)' /\ StopIsServed(jobs)'
  BY <1>2, <1>3, SMTT(30) DEF StartIsSafe, StopIsServed
<1>9. CoresKnown(jobs)'
  BY <1>2, <1>4, SMTT(30) DEF CoresKnown, Session
<1>10. RouteKnown(jobs)'
  BY <1>2, <1>4, SMTT(30) DEF RouteKnown, Session
<1> QED
  BY <1>5, <1>6, <1>7, <1>8, <1>9, <1>10 DEF CallsServed

(* After the step the calls are the ones it keeps, or one more. *)
LEMMA ClientServed ==
    ASSUME NEW q \in Seq(Job), CallsServed(q), Session, SessionFits,
           jobs' = q \/ (Silent(q) /\ \E op \in Ops : Call(op, q))
    PROVE  CallsServed(jobs)' /\ SessionFits'
<1>1. SessionFits'
  BY DEF SessionFits, Session
<1>2. CASE jobs' = q
  <2>1. /\ StagesFit(q) /\ Serial(q) /\ Served(q) /\ StartIsSafe(q) /\ StopIsServed(q)
        /\ CoresKnown(q) /\ RouteKnown(q)
    BY DEF CallsServed
  <2>2. StagesFit(jobs)' /\ Serial(jobs)' /\ Served(jobs)'
    BY <1>2, <2>1, SMTT(20) DEF StagesFit, Serial, Served, Session
  <2>3. StartIsSafe(jobs)' /\ StopIsServed(jobs)'
    BY <1>2, <2>1, SMTT(20) DEF StartIsSafe, StopIsServed, Session
  <2>4. CoresKnown(jobs)' /\ RouteKnown(jobs)'
    BY <1>2, <2>1, SMTT(20) DEF CoresKnown, RouteKnown, Session
  <2> QED
    BY <1>1, <2>2, <2>3, <2>4 DEF CallsServed
<1> QED
  BY <1>1, <1>2, NextCallServed

(* Calls that are given up go on as they are. *)
LEMMA GivenUpServed ==
    ASSUME JobsTyped, CallsServed(jobs)
    PROVE  /\ GivenUp \in Seq(Job) /\ Silent(GivenUp) /\ CallsServed(GivenUp)
           /\ Cleared(jobs) => Cleared(GivenUp)
<1> DEFINE q == GivenUp
<1>1. q \in Seq(Job) /\ Silent(q)
  BY AllGivenUp DEF JobsTyped, GivenUp
<1>2. /\ Calls(q) = Calls(jobs)
      /\ \A k \in Calls(q) :
            /\ q[k].op = jobs[k].op /\ q[k].at = jobs[k].at /\ q[k].core = jobs[k].core
            /\ q[k].owns = jobs[k].owns
  <2>1. /\ Len(jobs) \in Nat /\ DOMAIN jobs = 1 .. Len(jobs)
        /\ \A k \in 1 .. Len(jobs) : jobs[k] \in Job
    BY LenProperties DEF JobsTyped
  <2>2. DOMAIN q = DOMAIN jobs
    BY DEF GivenUp
  <2>3. Len(q) \in Nat /\ DOMAIN q = 1 .. Len(q)
    BY <1>1, LenProperties
  <2>4. Calls(q) = Calls(jobs)
    BY <2>1, <2>2, <2>3 DEF Calls
  <2>5. ASSUME NEW k \in Calls(jobs)
        PROVE  /\ q[k].op = jobs[k].op /\ q[k].at = jobs[k].at /\ q[k].core = jobs[k].core
               /\ q[k].owns = jobs[k].owns
    BY <2>1 DEF GivenUp, Calls, Job
  <2> QED
    BY <2>4, <2>5
<1>3. \A k \in Calls(q) : ~q[k].open
  BY <1>1 DEF Silent, Calls
<1>4. /\ StagesFit(jobs) /\ Serial(jobs) /\ CoresKnown(jobs) /\ RouteKnown(jobs)
  BY DEF CallsServed
<1> HIDE DEF q
<1>5. StagesFit(q)
  BY <1>2, <1>3, <1>4, SMTT(20) DEF StagesFit
<1>6. Serial(q)
  BY <1>2, <1>4, SMTT(20) DEF Serial
<1>7. Served(q) /\ StartIsSafe(q) /\ StopIsServed(q)
  BY <1>3, SMTT(20) DEF Served, StartIsSafe, StopIsServed
<1>8. CoresKnown(q)
  BY <1>2, <1>4, SMTT(20) DEF CoresKnown
<1>9. RouteKnown(q)
  BY <1>2, <1>4, SMTT(20) DEF RouteKnown
<1>10. Cleared(jobs) => Cleared(q)
  BY <1>2, SMTT(20) DEF Cleared
<1> QED
  BY <1>1, <1>5, <1>6, <1>7, <1>8, <1>9, <1>10 DEF q, CallsServed

Without(i) == SubSeq(jobs, 1, i - 1) \o SubSeq(jobs, i + 1, Len(jobs))

(* So do the others when one returned. *)
LEMMA RestServed ==
    ASSUME JobsTyped, CallsFit, CallsServed(jobs), NEW i \in DOMAIN jobs, jobs[i].at = "reply"
    PROVE  /\ Without(i) \in Seq(Job) /\ CallsServed(Without(i))
           /\ jobs[i].open => Silent(Without(i))
           /\ \A k \in Calls(Without(i)) : \E m \in Calls(jobs) \ {i} : Without(i)[k] = jobs[m]
<1> DEFINE q == Without(i)
           from == [k \in Calls(q) |-> IF k < i THEN k ELSE k + 1]
<1>1. /\ q \in Seq(Job) /\ Len(q) = Len(jobs) - 1
      /\ \A k \in 1 .. Len(q) : q[k] = IF k < i THEN jobs[k] ELSE jobs[k + 1]
  BY OneReturns DEF JobsTyped, Without
<1>2. Len(jobs) \in Nat /\ i \in 1 .. Len(jobs)
  BY LenProperties DEF JobsTyped
<1>3. jobs[i].open => Silent(q)
  BY ReturnSilent DEF Without
<1> HIDE DEF q
<1>4. /\ \A k \in Calls(q) : from[k] \in Calls(jobs) \ {i} /\ q[k] = jobs[from[k]]
      /\ \A k, m \in Calls(q) : k # m => from[k] # from[m]
  BY <1>1, <1>2 DEF Calls
<1>5. ASSUME NEW m \in Calls(jobs) \ {i} PROVE \E k \in Calls(q) : q[k] = jobs[m]
  <2>1. CASE m < i
    BY <1>1, <1>2, <2>1 DEF Calls
  <2>2. CASE m > i
    <3>1. m - 1 \in Calls(q) /\ q[m - 1] = jobs[m]
      BY <1>1, <1>2, <2>2 DEF Calls
    <3> QED
      BY <3>1
  <2> QED
    BY <1>2, <2>1, <2>2 DEF Calls
<1> HIDE DEF from
<1>6. /\ StagesFit(jobs) /\ Serial(jobs) /\ Served(jobs) /\ StartIsSafe(jobs)
      /\ StopIsServed(jobs) /\ CoresKnown(jobs) /\ RouteKnown(jobs)
  BY DEF CallsServed
<1>7. StagesFit(q)
  BY <1>4, <1>6, SMTT(30) DEF StagesFit
<1>8. Serial(q)
  BY <1>4, <1>6, SMTT(30) DEF Serial
<1>9. Served(q)
  BY <1>4, <1>6, SMTT(30) DEF Served
<1>10. StartIsSafe(q)
  BY <1>4, <1>6, SMTT(30) DEF StartIsSafe
<1>11. StopIsServed(q)
  BY <1>4, <1>6, SMTT(30) DEF StopIsServed
<1>12. CoresKnown(q)
  BY <1>5, <1>6, SMTT(30) DEF CoresKnown
<1>13. RouteKnown(q)
  BY <1>5, <1>6, SMTT(30) DEF RouteKnown
<1> QED
  BY <1>1, <1>3, <1>4, <1>7, <1>8, <1>9, <1>10, <1>11, <1>12, <1>13
     DEF q, CallsServed

(* A helper that is gone leaves at most the call that finds the next one. *)
LEMMA FreshServed ==
    ASSUME \A k \in Calls(jobs') : jobs'[k].at = "queued" /\ jobs'[k].core = NoCore,
           active' = NoCore, ~owns',
           \A c \in Cores : core'[c] = "running" => c \in orphans',
           scoped' => leaked'
    PROVE  CallsServed(jobs)' /\ SessionFits'
<1>1. StagesFit(jobs)' /\ Serial(jobs)'
  BY SMTT(20) DEF StagesFit, Serial, OnIt
<1>2. Served(jobs)' /\ StartIsSafe(jobs)' /\ StopIsServed(jobs)'
  BY SMTT(20) DEF Served, StartIsSafe, StopIsServed
<1>3. CoresKnown(jobs)' /\ RouteKnown(jobs)'
  BY SMTT(20) DEF CoresKnown, RouteKnown
<1>4. SessionFits'
  BY DEF SessionFits
<1> QED
  BY <1>1, <1>2, <1>3, <1>4 DEF CallsServed

(* What follows a call is asked of the helper as the place says, and when  *)
(* a stop or a start succeeded it found what it was to find.               *)
LEMMA AfterCallAsks ==
    ASSUME AppTyped, OnIsIdle, pc["caller"] \in InCall, NEW ok \in BOOLEAN,
           NEW q \in Seq(Job), Silent(q), AfterCall(ok, q),
           pc["caller"] = "stop" /\ ok
              => /\ active' = NoCore
                 /\ \A k \in Calls(q) : q[k].at \notin Pending,
           pc["caller"] = "start" /\ ok
              => \A k \in Calls(q) :
                    /\ q[k].at \notin Pending
                    /\ q[k].at = "reap" /\ q[k].core # NoCore => q[k].core # active'
    PROVE  AnswersFit(jobs)' /\ NothingLeft' /\ TunnelIsSafe' /\ OnIsIdle'
<1>1. \A k \in Calls(q) : ~q[k].open
  BY DEF Silent, Calls
<1>2. tun # "on"
  BY DEF OnIsIdle, InCall
<1>3. tun' # "on"
  BY <1>2, AfterCallGoes
<1>4. OnIsIdle'
  BY <1>3 DEF OnIsIdle
<1>5. CASE pc["caller"] = "start" /\ ok
  <2>1. jobs' = q /\ pc' = [pc EXCEPT !["caller"] = "ready"]
    BY <1>5, SMTT(20) DEF AfterCall, GoTo
  <2>2. pc'["caller"] = "ready"
    BY <2>1 DEF AppTyped, Threads
  <2>3. NothingLeft' /\ AnswersFit(jobs)'
    BY <1>1, <2>1, <2>2 DEF NothingLeft, AnswersFit
  <2>4. TunnelIsSafe'
    BY <1>5, <2>1 DEF TunnelIsSafe, Untouched
  <2> QED
    BY <1>4, <2>3, <2>4
<1>6. CASE pc["caller"] = "stop" /\ ok
  <2>1. Call("routes", q) /\ pc' = [pc EXCEPT !["caller"] = "routes"]
    BY <1>6, SMTT(20) DEF AfterCall, GoTo
  <2>2. pc'["caller"] = "routes"
    BY <2>1 DEF AppTyped, Threads
  <2>3. PICK n :
          /\ Calls(jobs') = Calls(q) \cup {n}
          /\ \A k \in Calls(q) : jobs'[k] = q[k]
          /\ jobs'[n].op = "routes" /\ jobs'[n].at = "queued"
    BY <2>1, CallAdds DEF Adds, Ops
  <2>4. NothingLeft'
    BY <1>6, <2>3 DEF NothingLeft, Cleared, OnIt, Pending
  <2>5. AnswersFit(jobs)'
    BY <1>1, <2>2, <2>3 DEF AnswersFit, Asked
  <2>6. TunnelIsSafe'
    BY <1>3, <2>2 DEF TunnelIsSafe, Reapplying
  <2> QED
    BY <1>4, <2>4, <2>5, <2>6
<1>7. CASE pc["caller"] = "purge"
  <2>1. Call("uninstall", q) /\ pc' = [pc EXCEPT !["caller"] = "uninstall"]
    BY <1>7, SMTT(20) DEF AfterCall, GoTo
  <2>2. pc'["caller"] = "uninstall"
    BY <2>1 DEF AppTyped, Threads
  <2>3. PICK n :
          /\ Calls(jobs') = Calls(q) \cup {n}
          /\ \A k \in Calls(q) : jobs'[k] = q[k]
          /\ jobs'[n].op = "uninstall"
    BY <2>1, CallAdds DEF Adds, Ops
  <2>4. AnswersFit(jobs)'
    BY <1>1, <2>2, <2>3 DEF AnswersFit, Asked
  <2>5. NothingLeft' /\ TunnelIsSafe'
    BY <1>3, <2>2 DEF NothingLeft, TunnelIsSafe, Reapplying
  <2> QED
    BY <1>4, <2>4, <2>5
<1>8. CASE /\ ~(pc["caller"] = "start" /\ ok) /\ ~(pc["caller"] = "stop" /\ ok)
           /\ pc["caller"] # "purge"
  <2>1. jobs' = q /\ \E p \in {"shell", "idle"} : pc' = [pc EXCEPT !["caller"] = p]
    BY <1>8, SMTT(20) DEF AfterCall, GoTo
  <2>2. pc'["caller"] \in {"shell", "idle"}
    BY <2>1 DEF AppTyped, Threads
  <2>3. AnswersFit(jobs)'
    BY <1>1, <2>1 DEF AnswersFit
  <2>4. NothingLeft' /\ TunnelIsSafe'
    BY <1>3, <2>2 DEF NothingLeft, TunnelIsSafe, Reapplying
  <2> QED
    BY <1>4, <2>3, <2>4
<1> QED
  BY <1>5, <1>6, <1>7, <1>8

(* A retry asks the same, *)
LEMMA RetryAsks ==
    ASSUME OnIsIdle, Calling, pc["caller"] # "uninstall", UNCHANGED <<pc, tun>>,
           NEW q \in Seq(Job), Silent(q),
           Call(CASE pc["caller"] \in {"abort", "purge"} -> "stop" [] OTHER -> pc["caller"], q),
           pc["caller"] = "routes"
              => /\ active' = NoCore
                 /\ \A k \in Calls(q) :
                       q[k].at \notin OnIt /\ (q[k].at = "queued" => q[k].op = "routes")
    PROVE  /\ \E op \in Ops : Call(op, q)
           /\ AnswersFit(jobs)' /\ NothingLeft' /\ TunnelIsSafe' /\ OnIsIdle'
<1>1. Asked \in Ops /\ Call(Asked, q)
  BY DEF Asked, Calling, Ops
<1>2. PICK n :
        /\ Calls(jobs') = Calls(q) \cup {n}
        /\ \A k \in Calls(q) : jobs'[k] = q[k]
        /\ jobs'[n].op = Asked /\ jobs'[n].at = "queued"
  BY <1>1, CallAdds DEF Adds
<1>3. \A k \in Calls(q) : ~q[k].open
  BY DEF Silent, Calls
<1>4. AnswersFit(jobs)'
  BY <1>2, <1>3 DEF AnswersFit, Asked
<1>5. NothingLeft'
  BY <1>2 DEF NothingLeft, Cleared, Asked, OnIt
<1>6. OnIsIdle' /\ TunnelIsSafe'
  BY DEF OnIsIdle, TunnelIsSafe, Reapplying, Calling
<1> QED
  BY <1>1, <1>4, <1>5, <1>6

(* A helper that has no call but, it may be, a new one. *)
LEMMA EmptyOrNew ==
    ASSUME jobs' = <<>> \/ \E op \in Ops : Call(op, <<>>)
    PROVE  \A k \in Calls(jobs') : jobs'[k].at = "queued" /\ jobs'[k].core = NoCore
<1>1. Calls(<<>>) = {} /\ <<>> \in Seq(Job)
  BY DEF Calls
<1>2. CASE jobs' = <<>>
  BY <1>1, <1>2
<1>3. ASSUME NEW op \in Ops, Call(op, <<>>)
      PROVE  \A k \in Calls(jobs') : jobs'[k].at = "queued" /\ jobs'[k].core = NoCore
  <2>1. Adds(op, <<>>)
    BY <1>1, <1>3, CallAdds
  <2>2. PICK n :
          /\ Calls(jobs') = Calls(<<>>) \cup {n}
          /\ jobs'[n].at = "queued" /\ jobs'[n].core = NoCore
    BY <2>1 DEF Adds
  <2> QED
    BY <1>1, <2>2
<1> QED
  BY <1>2, <1>3

-----------------------------------------------------------------------------
(* The steps of the client. *)

(* A call returns, *)
LEMMA ReturnServed ==
    ASSUME AppTyped, SystemTyped, JobsTyped, CallsFit, SInv, NEW i \in DOMAIN jobs, Return(i)
    PROVE  SInv'
<1> USE DEF app, helper, history
<1>1. /\ CallsServed(jobs) /\ SessionFits /\ AnswersFit(jobs) /\ NothingLeft /\ TunnelIsSafe
      /\ OnIsIdle
  BY DEF SInv
<1>2. Session /\ jobs[i].at = "reply"
  BY DEF Return, Returned, Session
<1>3. /\ Without(i) \in Seq(Job) /\ CallsServed(Without(i))
      /\ jobs[i].open => Silent(Without(i))
      /\ \A k \in Calls(Without(i)) :
            \E m \in Calls(jobs) \ {i} : Without(i)[k] = jobs[m]
  BY <1>1, <1>2, RestServed
<1>4. i \in Calls(jobs) /\ jobs[i].ok \in BOOLEAN
  <2>1. i \in Calls(jobs) /\ jobs[i] \in Job
    BY LenProperties DEF JobsTyped, Calls
  <2> QED
    BY <2>1 DEF Job
<1>5. CASE jobs[i].open
  <2>1. AfterCall(jobs[i].ok, Without(i)) /\ pc["caller"] \in InCall /\ Silent(Without(i))
    <3>1. AfterCall(jobs[i].ok, Without(i))
      BY <1>5 DEF Return, Without
    <3>2. pc["caller"] \in InCall
      BY <1>5, ReturnSilent
    <3> QED
      BY <1>3, <1>5, <3>1, <3>2
  <2>2. jobs' = Without(i) \/ \E op \in Ops : Call(op, Without(i))
    BY <1>4, <2>1, AfterCallGoes DEF Ops
  <2>3. CallsServed(jobs)' /\ SessionFits'
    BY <1>1, <1>2, <1>3, <2>1, <2>2, ClientServed
  <2>4. /\ \A k \in Calls(jobs) \ {i} : jobs[k].at \notin Pending
        /\ jobs[i].op = Asked
        /\ jobs[i].op = "stop" => active' = NoCore
        /\ jobs[i].op = "start"
              => \A k \in Calls(jobs) :
                    jobs[k].at = "reap" /\ jobs[k].core # NoCore => jobs[k].core # active'
    <3>1. Served(jobs) /\ StartIsSafe(jobs) /\ StopIsServed(jobs) /\ active' = active
      BY <1>1, <1>2 DEF CallsServed, Session
    <3>2. \A k \in Calls(jobs) \ {i} : jobs[k].at \notin Pending
      BY <1>2, <1>4, <1>5, <3>1 DEF Served
    <3>3. jobs[i].op = Asked
      BY <1>1, <1>4, <1>5 DEF AnswersFit
    <3>4. jobs[i].op = "stop" => active' = NoCore
      BY <1>2, <1>4, <1>5, <3>1 DEF StopIsServed
    <3>5. ASSUME jobs[i].op = "start"
          PROVE  \A k \in Calls(jobs) :
                    jobs[k].at = "reap" /\ jobs[k].core # NoCore => jobs[k].core # active'
      BY <1>2, <1>4, <1>5, <3>1, <3>5 DEF StartIsSafe
    <3> QED
      BY <3>2, <3>3, <3>4, <3>5
  <2>5. AnswersFit(jobs)' /\ NothingLeft' /\ TunnelIsSafe' /\ OnIsIdle'
    <3>1. \A k \in Calls(Without(i)) : Without(i)[k].at \notin Pending
      BY <1>3, <2>4
    <3>2. ASSUME pc["caller"] = "start"
          PROVE  \A k \in Calls(Without(i)) :
                    Without(i)[k].at = "reap" /\ Without(i)[k].core # NoCore
                       => Without(i)[k].core # active'
      BY <1>3, <2>4, <3>2 DEF Asked
    <3>3. pc["caller"] = "stop" => active' = NoCore
      BY <2>4 DEF Asked
    <3> QED
      BY <1>1, <1>3, <1>4, <2>1, <3>1, <3>2, <3>3, AfterCallAsks
  <2> QED
    BY <2>3, <2>5 DEF SInv
<1>6. CASE ~jobs[i].open
  <2>1. jobs' = Without(i) /\ UNCHANGED <<pc, tun, active>>
    BY <1>2, <1>6 DEF Return, Without, Session
  <2>2. CallsServed(jobs)' /\ SessionFits'
    BY <1>1, <1>2, <1>3, <2>1, ClientServed
  <2>3. AnswersFit(jobs)'
    BY <1>1, <1>3, <2>1 DEF AnswersFit, Asked
  <2>4. NothingLeft'
    BY <1>1, <1>3, <2>1 DEF NothingLeft, Cleared
  <2>5. TunnelIsSafe'
    BY <1>1, <1>3, <2>1 DEF TunnelIsSafe, Untouched
  <2>6. OnIsIdle'
    BY <1>1, <2>1 DEF OnIsIdle
  <2> QED
    BY <2>2, <2>3, <2>4, <2>5, <2>6 DEF SInv
<1> QED
  BY <1>5, <1>6

(* is not answered in time, *)
LEMMA TimeOutServed ==
    ASSUME AppTyped, JobsTyped, SInv, TimeOut PROVE SInv'
<1>1. CallsServed(jobs) /\ SessionFits /\ OnIsIdle
  BY DEF SInv
<1>2. AfterCall(FALSE, GivenUp) /\ pc["caller"] \in InCall /\ Session
  BY DEF TimeOut, Calling, InCall, Session
<1>3. GivenUp \in Seq(Job) /\ Silent(GivenUp) /\ CallsServed(GivenUp)
  BY <1>1, GivenUpServed
<1>4. jobs' = GivenUp \/ \E op \in Ops : Call(op, GivenUp)
  BY <1>2, AfterCallGoes DEF Ops
<1>5. CallsServed(jobs)' /\ SessionFits'
  BY <1>1, <1>2, <1>3, <1>4, ClientServed
<1>6. AnswersFit(jobs)' /\ NothingLeft' /\ TunnelIsSafe' /\ OnIsIdle'
  BY <1>1, <1>2, <1>3, AfterCallAsks
<1> QED
  BY <1>5, <1>6 DEF SInv

(* loses its connection, *)
LEMMA DropServed ==
    ASSUME AppTyped, JobsTyped, SInv, ConnectionDrops PROVE SInv'
<1>1. CallsServed(jobs) /\ SessionFits /\ OnIsIdle /\ NothingLeft
  BY DEF SInv
<1>2. Interrupted(GivenUp) /\ Calling /\ Session
  BY DEF ConnectionDrops, Session
<1>3. /\ GivenUp \in Seq(Job) /\ Silent(GivenUp) /\ CallsServed(GivenUp)
      /\ Cleared(jobs) => Cleared(GivenUp)
  BY <1>1, GivenUpServed
<1>4. CASE ~tried /\ pc["caller"] # "uninstall"
  <2>1. /\ UNCHANGED <<pc, tun>>
        /\ Call(CASE pc["caller"] \in {"abort", "purge"} -> "stop"
                  [] OTHER -> pc["caller"], GivenUp)
    BY <1>2, <1>4 DEF Interrupted
  <2>2. pc["caller"] = "routes"
           => /\ active' = NoCore
              /\ \A k \in Calls(GivenUp) :
                    /\ GivenUp[k].at \notin OnIt
                    /\ GivenUp[k].at = "queued" => GivenUp[k].op = "routes"
    BY <1>1, <1>2, <1>3 DEF NothingLeft, Cleared, Session
  <2>3. /\ \E op \in Ops : Call(op, GivenUp)
        /\ AnswersFit(jobs)' /\ NothingLeft' /\ TunnelIsSafe' /\ OnIsIdle'
    BY <1>1, <1>2, <1>3, <1>4, <2>1, <2>2, RetryAsks
  <2>4. CallsServed(jobs)' /\ SessionFits'
    BY <1>1, <1>2, <1>3, <2>3, ClientServed
  <2> QED
    BY <2>3, <2>4 DEF SInv
<1>5. CASE ~(~tried /\ pc["caller"] # "uninstall")
  <2>1. AfterCall(FALSE, GivenUp) /\ pc["caller"] \in InCall
    BY <1>2, <1>5 DEF Interrupted, Calling, InCall
  <2>2. jobs' = GivenUp \/ \E op \in Ops : Call(op, GivenUp)
    BY <2>1, AfterCallGoes DEF Ops
  <2>3. CallsServed(jobs)' /\ SessionFits'
    BY <1>1, <1>2, <1>3, <2>2, ClientServed
  <2>4. AnswersFit(jobs)' /\ NothingLeft' /\ TunnelIsSafe' /\ OnIsIdle'
    BY <1>1, <1>3, <2>1, AfterCallAsks
  <2> QED
    BY <2>3, <2>4 DEF SInv
<1> QED
  BY <1>4, <1>5

(* finds no helper, *)
LEMMA UnreachableServed ==
    ASSUME AppTyped, JobsTyped, SystemTyped, SwitchesTyped, SInv, Unreachable PROVE SInv'
<1> USE DEF history
<1>1. /\ Facts /\ Serial(jobs) /\ CoresKnown(jobs) /\ RouteKnown(jobs) /\ SessionFits
      /\ OnIsIdle
  BY TypeFacts DEF SInv, CallsServed
<1>2. AfterCall(FALSE, <<>>) /\ pc["caller"] \in InCall /\ Session /\ installed = "no"
  BY DEF Unreachable, Calling, InCall, Session
<1>3. <<>> \in Seq(Job) /\ Silent(<<>>)
  BY DEF Silent
<1>4. active = NoCore /\ ~owns /\ \A i \in Calls(jobs) : jobs[i].at \notin OnIt
  BY <1>1, <1>2 DEF SessionFits, Serial
<1>5. /\ \A c \in Cores : core[c] = "running" => c \in orphans
      /\ scoped => leaked
  <2>1. \A c \in Cores : core[c] = "running" => c \in orphans
    BY <1>1, <1>4 DEF CoresKnown, OnIt, Facts
  <2>2. scoped => leaked
    BY <1>1, <1>4 DEF RouteKnown, OnIt
  <2> QED
    BY <2>1, <2>2
<1>6. \A k \in Calls(jobs') : jobs'[k].at = "queued" /\ jobs'[k].core = NoCore
  <2>1. jobs' = <<>> \/ \E op \in Ops : Call(op, <<>>)
    BY <1>2, AfterCallGoes DEF Ops
  <2> QED
    BY <1>3, <2>1, EmptyOrNew
<1>7. CallsServed(jobs)' /\ SessionFits'
  <2>1. /\ active' = NoCore /\ ~owns'
        /\ \A c \in Cores : core'[c] = "running" => c \in orphans'
        /\ scoped' => leaked'
    BY <1>2, <1>4, <1>5 DEF Session
  <2> QED
    BY <1>6, <2>1, FreshServed
<1>8. AnswersFit(jobs)' /\ NothingLeft' /\ TunnelIsSafe' /\ OnIsIdle'
  BY <1>1, <1>2, <1>3, AfterCallAsks
<1> QED
  BY <1>7, <1>8 DEF SInv

(* or its helper crashes. *)
LEMMA HelperCrashServed ==
    ASSUME AppTyped, JobsTyped, SInv, HelperCrashes PROVE SInv'
<1>1. OnIsIdle
  BY DEF SInv
<1>2. /\ Interrupted(<<>>)
      /\ active' = NoCore /\ ~owns'
      /\ \A c \in Cores : core'[c] = "running" => c \in orphans'
      /\ scoped' => leaked'
  BY DEF HelperCrashes, HelperEnds
<1>3. <<>> \in Seq(Job) /\ Silent(<<>>) /\ Calls(<<>>) = {}
  BY DEF Silent, Calls
<1>4. CASE Calling /\ ~tried /\ pc["caller"] # "uninstall"
  <2>1. /\ UNCHANGED <<pc, tun>>
        /\ Call(CASE pc["caller"] \in {"abort", "purge"} -> "stop"
                  [] OTHER -> pc["caller"], <<>>)
    BY <1>2, <1>4 DEF Interrupted
  <2>2. /\ \E op \in Ops : Call(op, <<>>)
        /\ AnswersFit(jobs)' /\ NothingLeft' /\ TunnelIsSafe' /\ OnIsIdle'
    BY <1>1, <1>2, <1>3, <1>4, <2>1, RetryAsks
  <2>3. CallsServed(jobs)' /\ SessionFits'
    BY <1>2, <2>2, EmptyOrNew, FreshServed
  <2> QED
    BY <2>2, <2>3 DEF SInv
<1>5. CASE Calling /\ ~(~tried /\ pc["caller"] # "uninstall")
  <2>1. AfterCall(FALSE, <<>>) /\ pc["caller"] \in InCall
    BY <1>2, <1>5 DEF Interrupted, Calling, InCall
  <2>2. jobs' = <<>> \/ \E op \in Ops : Call(op, <<>>)
    BY <2>1, AfterCallGoes DEF Ops
  <2>3. CallsServed(jobs)' /\ SessionFits'
    BY <1>2, <2>2, EmptyOrNew, FreshServed
  <2>4. AnswersFit(jobs)' /\ NothingLeft' /\ TunnelIsSafe' /\ OnIsIdle'
    BY <1>1, <1>3, <2>1, AfterCallAsks
  <2> QED
    BY <2>3, <2>4 DEF SInv
<1>6. CASE ~Calling
  <2>1. jobs' = <<>> /\ UNCHANGED <<pc, tun>>
    BY <1>2, <1>6 DEF Interrupted
  <2>2. CallsServed(jobs)' /\ SessionFits'
    BY <1>2, <2>1, EmptyOrNew, FreshServed
  <2>3. AnswersFit(jobs)' /\ NothingLeft' /\ TunnelIsSafe' /\ OnIsIdle'
    BY <1>1, <1>2, <1>3, <2>1
       DEF AnswersFit, NothingLeft, Cleared, TunnelIsSafe, Untouched, OnIsIdle
  <2> QED
    BY <2>2, <2>3 DEF SInv
<1> QED
  BY <1>4, <1>5, <1>6

(* The helper is removed or replaced. *)
LEMMA RemovalServed ==
    ASSUME AppTyped, SInv, UNCHANGED <<core, tun>>, HelperEnds, jobs' = <<>>,
           pc'["caller"] \in {pc["caller"], "idle"}
    PROVE  SInv'
<1>1. /\ active' = NoCore /\ ~owns'
      /\ \A c \in Cores : core'[c] = "running" => c \in orphans'
      /\ scoped' => leaked'
  BY DEF HelperEnds
<1>2. Calls(jobs') = {}
  BY DEF Calls
<1>3. CallsServed(jobs)' /\ SessionFits'
  BY <1>1, <1>2, FreshServed
<1>4. AnswersFit(jobs)' /\ NothingLeft' /\ TunnelIsSafe'
  BY <1>1, <1>2 DEF AnswersFit, NothingLeft, Cleared, TunnelIsSafe, Untouched
<1>5. OnIsIdle'
  BY DEF SInv, OnIsIdle
<1> QED
  BY <1>3, <1>4, <1>5 DEF SInv

(* The caller makes a call that is not the next of another. *)
LEMMA NewCallServed ==
    ASSUME AppTyped, JobsTyped, CallsFit, SInv, Session, pc["caller"] \notin InCall,
           NEW op \in {"start", "stop"}, Call(op, jobs),
           NEW p \in {"start", "abort", "stop", "purge"}, GoTo("caller", p),
           op = "start" <=> p = "start", tun' # "on"
    PROVE  SInv'
<1>1. CallsServed(jobs) /\ SessionFits
  BY DEF SInv
<1>2. jobs \in Seq(Job) /\ Silent(jobs)
  BY NobodyCalls DEF JobsTyped
<1>3. pc'["caller"] = p
  BY DEF GoTo, AppTyped, Threads
<1>4. CallsServed(jobs)' /\ SessionFits'
  BY <1>1, <1>2, ClientServed DEF Ops
<1>5. PICK n :
        /\ Calls(jobs') = Calls(jobs) \cup {n}
        /\ \A k \in Calls(jobs) : jobs'[k] = jobs[k]
        /\ jobs'[n].op = op
  BY <1>2, CallAdds DEF Adds, Ops
<1>6. \A k \in Calls(jobs) : ~jobs[k].open
  BY <1>2 DEF Silent, Calls
<1>7. AnswersFit(jobs)'
  BY <1>3, <1>5, <1>6 DEF AnswersFit, Asked
<1>8. NothingLeft' /\ TunnelIsSafe' /\ OnIsIdle'
  BY <1>3 DEF NothingLeft, TunnelIsSafe, Reapplying, OnIsIdle
<1> QED
  BY <1>4, <1>7, <1>8 DEF SInv

(* A step that leaves the helper alone, and goes where nothing is asked. *)
Safe == pc["caller"] \in {"ready"} \cup Reapplying \/ tun = "on"
LEMMA QuietServed ==
    ASSUME JobsTyped, CallsFit, SInv, Session, UNCHANGED jobs,
           \/ pc'["caller"] = pc["caller"]
           \/ pc["caller"] \notin InCall /\ pc'["caller"] # "routes",
           Safe' => Safe,
           tun' = "on" => pc'["caller"] = "idle"
    PROVE  SInv'
<1>1. /\ CallsServed(jobs) /\ SessionFits /\ AnswersFit(jobs) /\ NothingLeft /\ TunnelIsSafe
  BY DEF SInv
<1>2. CallsServed(jobs)' /\ SessionFits'
  BY <1>1, ClientServed DEF JobsTyped
<1>3. AnswersFit(jobs)'
  <2>1. CASE pc'["caller"] = pc["caller"]
    BY <1>1, <2>1 DEF AnswersFit, Asked
  <2>2. CASE pc["caller"] \notin InCall
    BY <2>2, NobodyCalls DEF AnswersFit, Silent, Calls
  <2> QED
    BY <2>1, <2>2
<1>4. NothingLeft'
  BY <1>1 DEF NothingLeft, Cleared, Session
<1>5. TunnelIsSafe'
  BY <1>1 DEF TunnelIsSafe, Untouched, Session, Safe
<1>6. OnIsIdle'
  BY DEF OnIsIdle
<1> QED
  BY <1>2, <1>3, <1>4, <1>5, <1>6 DEF SInv

(* The steps that call nobody. *)
LEMMA OthersServed ==
    ASSUME AppTyped, JobsTyped, CallsFit, HandsFit, SInv,
           \/ StartTun \/ PrepareFails \/ ApiReady \/ ShellFails \/ SkipStop \/ Wake
           \/ Launch \/ NetworkChanges \/ UNCHANGED vars
    PROVE  SInv'
<1> USE DEF app, helper, history
<1>1. OnIsIdle
  BY DEF SInv
<1>2. UNCHANGED jobs /\ Session
  BY Zenon DEF StartTun, PrepareFails, ApiReady, ShellFails, SkipStop, Wake, Launch,
     NetworkChanges, vars, Session
<1>3. CASE UNCHANGED <<pc, tun>>
  BY <1>1, <1>2, <1>3, QuietServed DEF OnIsIdle, Safe
<1>4. CASE StartTun \/ PrepareFails \/ ApiReady \/ ShellFails
  <2>1. /\ pc["caller"] \in {"idle", "install", "ready", "shell"}
        /\ \E p \in {"install", "idle", "detect"} :
              /\ pc' = [pc EXCEPT !["caller"] = p]
              /\ p = "detect" => pc["caller"] = "ready"
        /\ tun' \in {tun, "unknown"} /\ (pc["caller"] = "idle" => tun' = "unknown")
    BY <1>4, SMTT(20) DEF StartTun, PrepareFails, ApiReady, ShellFails, GoTo
  <2>2. /\ pc'["caller"] \in {"install", "idle", "detect"}
        /\ pc'["caller"] = "detect" => pc["caller"] = "ready"
    BY <2>1 DEF AppTyped, Threads
  <2>3. tun' # "on"
    BY <1>1, <2>1 DEF OnIsIdle
  <2>4. pc["caller"] \notin InCall /\ pc'["caller"] # "routes"
    BY <2>1, <2>2 DEF InCall
  <2>5. Safe' => Safe
    BY <2>2, <2>3 DEF Safe, Reapplying
  <2> QED
    BY <1>2, <2>3, <2>4, <2>5, QuietServed
<1>5. CASE SkipStop
  <2>1. UNCHANGED pc /\ tun' = "off"
    BY <1>5 DEF SkipStop
  <2> QED
    BY <1>2, <2>1, QuietServed DEF Safe
<1>6. CASE Wake
  <2>1. UNCHANGED tun /\ pc'["caller"] = pc["caller"]
    BY <1>6 DEF Wake, GoTo, AppTyped, Threads
  <2> QED
    BY <1>1, <1>2, <2>1, QuietServed DEF Safe, OnIsIdle
<1>7. CASE Launch \/ NetworkChanges \/ UNCHANGED vars
  <2>1. UNCHANGED <<pc, tun>>
    BY <1>7, Zenon DEF Launch, NetworkChanges, vars
  <2> QED
    BY <1>3, <2>1
<1> QED
  BY <1>4, <1>5, <1>6, <1>7

(* A thread that is at the override. *)
LEMMA ReapplyServed ==
    ASSUME AppTyped, JobsTyped, CallsFit, HandsFit, SInv, NEW t \in Threads, Reapply(t)
    PROVE  SInv'
<1> USE DEF helper, history
<1>1. OnIsIdle
  BY DEF SInv
<1>2. UNCHANGED jobs /\ Session /\ pc[t] \in Reapplying
  BY Zenon
     DEF Reapply, Detect, Decide, Restore, Write, WriteFails, Record, Session,
         Reapplying
<1>3. /\ \E p \in Reapplying \cup {"idle"} :
            /\ pc' = [pc EXCEPT ![t] = p]
            /\ p # "idle" => UNCHANGED tun
      /\ t # "caller" => UNCHANGED tun
  BY SMTT(30) DEF Reapply, Detect, Decide, Restore, Write, WriteFails, Record, Done,
     GoTo, Reapplying
<1>4. CASE t = "caller"
  <2>1. /\ pc'["caller"] \in Reapplying \cup {"idle"}
        /\ pc'["caller"] # "idle" => UNCHANGED tun
    BY <1>3, <1>4 DEF AppTyped, Threads
  <2>2. Safe /\ pc["caller"] \notin InCall /\ pc'["caller"] # "routes"
    BY <1>2, <1>4, <2>1 DEF Safe, Reapplying, InCall
  <2>3. tun' = "on" => pc'["caller"] = "idle"
    BY <1>1, <1>2, <1>4, <2>1 DEF OnIsIdle, Reapplying
  <2> QED
    BY <1>2, <2>2, <2>3, QuietServed
<1>5. CASE t # "caller"
  <2>1. pc'["caller"] = pc["caller"] /\ UNCHANGED tun
    BY <1>3, <1>5 DEF AppTyped, Threads
  <2> QED
    BY <1>1, <1>2, <2>1, QuietServed DEF Safe, OnIsIdle
<1> QED
  BY <1>4, <1>5

(* A call that starts, stops or precedes an uninstallation. *)
LEMMA CallerServed ==
    ASSUME AppTyped, JobsTyped, CallsFit, HandsFit, SInv,
           StartCore \/ ApiNotReady \/ StopTun \/ StripGateway \/ UninstallHelper
    PROVE  SInv'
<1> USE DEF history
<1>1. OnIsIdle
  BY DEF SInv
<1>2. Session /\ pc["caller"] \notin InCall /\ (pc["caller"] # "idle" => tun # "on")
  <2>1. Session
    BY Zenon DEF StartCore, ApiNotReady, StopTun, StripGateway, UninstallHelper, Session
  <2>2. pc["caller"] \notin InCall
    BY DEF StartCore, ApiNotReady, StopTun, StripGateway, UninstallHelper, InCall
  <2> QED
    BY <1>1, <2>1, <2>2 DEF OnIsIdle
<1>3. CASE StartCore
  BY <1>2, <1>3, NewCallServed DEF StartCore
<1>4. CASE ApiNotReady
  BY <1>2, <1>4, NewCallServed DEF ApiNotReady
<1>5. CASE StripGateway
  BY <1>2, <1>5, NewCallServed DEF StripGateway
<1>6. CASE UninstallHelper
  BY <1>2, <1>6, NewCallServed DEF UninstallHelper
<1>7. CASE StopTun /\ slot = NoService
  BY <1>2, <1>7, NewCallServed DEF StopTun
<1>8. CASE StopTun /\ slot # NoService
  <2>1. UNCHANGED jobs /\ tun' = "unknown" /\ pc' = [pc EXCEPT !["caller"] = "strip"]
    BY <1>8 DEF StopTun, GoTo
  <2>2. pc'["caller"] = "strip"
    BY <2>1 DEF AppTyped, Threads
  <2>3. Safe' => Safe
    BY <2>1, <2>2 DEF Safe, Reapplying
  <2> QED
    BY <1>2, <2>1, <2>2, <2>3, QuietServed
<1> QED
  BY <1>3, <1>4, <1>5, <1>6, <1>7, <1>8

(* The application is killed: nobody waits for its call. *)
LEMMA AppCrashServed ==
    ASSUME JobsTyped, SInv, AppCrashes PROVE SInv'
<1>1. CallsServed(jobs) /\ SessionFits
  BY DEF SInv
<1>2. /\ jobs' = GivenUp /\ Session /\ tun' = "unknown"
      /\ pc'["caller"] = "idle"
  BY DEF AppCrashes, Session, Threads
<1>3. GivenUp \in Seq(Job) /\ Silent(GivenUp) /\ CallsServed(GivenUp)
  BY <1>1, GivenUpServed
<1>4. CallsServed(jobs)' /\ SessionFits'
  BY <1>1, <1>2, <1>3, ClientServed
<1>5. AnswersFit(jobs)'
  BY <1>2, <1>3 DEF AnswersFit, Silent, Calls
<1>6. NothingLeft' /\ TunnelIsSafe' /\ OnIsIdle'
  BY <1>2 DEF NothingLeft, TunnelIsSafe, OnIsIdle, Reapplying
<1> QED
  BY <1>4, <1>5, <1>6 DEF SInv

(* Every step of the helper, the application and the system preserves the  *)
(* invariant of the calls and the session.                                 *)
LEMMA StopPreserved == IInv /\ SInv /\ [Next]_vars => SInv'
<1> SUFFICES ASSUME IInv, SInv, [Next]_vars PROVE SInv'
  OBVIOUS
<1>1. SwitchesTyped /\ AppTyped /\ SystemTyped /\ JobsTyped /\ CallsFit /\ HandsFit
  BY DEF IInv
<1>2. CASE HelperStep
  <2>1. ASSUME NEW i \in DOMAIN jobs, installed # "no",
               \/ StartKills(i) \/ SpawnFails(i) \/ Spawn(i) \/ RoutesFail(i) \/ RoutesUp(i)
               \/ ReadTarget(i) \/ Reap(i) \/ Clear(i) \/ RemoveRoutes(i)
        PROVE  SInv'
    BY <1>1, <2>1, StartKillsServed, SpawnFailsServed, SpawnServed,
       RoutesFailServed,
       RoutesUpServed, ReadTargetServed, ReapServed, ClearServed, RemoveRoutesServed
  <2>2. ASSUME NEW i \in DOMAIN jobs, UninstallSelf(i) PROVE SInv'
    <3>1. /\ UNCHANGED <<core, tun>> /\ HelperEnds /\ jobs' = <<>>
          /\ UNCHANGED pc \/ GoTo("caller", "idle")
      BY <2>2 DEF UninstallSelf
    <3>2. pc'["caller"] \in {pc["caller"], "idle"}
      BY <1>1, <3>1 DEF GoTo, AppTyped, Threads
    <3> QED
      BY <1>1, <3>1, <3>2, RemovalServed
  <2> QED
    BY <1>1, <1>2, <2>1, <2>2, ExitServed DEF HelperStep
<1>3. CASE Install \/ ShellRemoves \/ OrphanAppCleanup
  <2>1. /\ UNCHANGED <<core, tun>> /\ HelperEnds /\ jobs' = <<>>
        /\ UNCHANGED pc \/ GoTo("caller", "idle")
    BY <1>3 DEF Install, ShellRemoves, OrphanAppCleanup, app
  <2>2. pc'["caller"] \in {pc["caller"], "idle"}
    BY <1>1, <2>1 DEF GoTo, AppTyped, Threads
  <2> QED
    BY <1>1, <2>1, <2>2, RemovalServed
<1>4. ASSUME NEW i \in DOMAIN jobs, Return(i) PROVE SInv'
  BY <1>1, <1>4, ReturnServed
<1>5. CASE TimeOut \/ ConnectionDrops \/ Unreachable \/ HelperCrashes \/ AppCrashes
  BY <1>1, <1>5, TimeOutServed, DropServed, UnreachableServed, HelperCrashServed,
     AppCrashServed
<1>6. CASE StartCore \/ ApiNotReady \/ StopTun \/ StripGateway \/ UninstallHelper
  BY <1>1, <1>6, CallerServed
<1>7. ASSUME NEW t \in Threads, Reapply(t) PROVE SInv'
  BY <1>1, <1>7, ReapplyServed
<1>8. ASSUME NEW c \in Cores, CoreExits(c) PROVE SInv'
  BY <1>1, <1>8, CoreExitsServed
<1>9. CASE \/ StartTun \/ PrepareFails \/ ApiReady \/ ShellFails \/ SkipStop \/ Wake
           \/ Launch \/ NetworkChanges \/ UNCHANGED vars
  BY <1>1, <1>9, OthersServed
<1> QED
  BY <1>2, <1>3, <1>4, <1>5, <1>6, <1>7, <1>8, <1>9 DEF Next, Caller, Environment

(* It holds in every reachable state. *)
LEMMA StopInvariance == Spec => [](IInv /\ SInv)
<1>1. Init => IInv /\ SInv
  BY Initially, NothingIsCalled
<1>2. IInv /\ SInv /\ [Next]_vars => IInv' /\ SInv'
  BY Preservation, StopPreserved
<1> QED
  BY <1>1, <1>2, PTL DEF Spec

-----------------------------------------------------------------------------
(* StopIsExact, step by step. *)

(* stop_tun returns Ok only from the removal of the routes, or when there  *)
(* is no helper,                                                           *)
LEMMA StopReturns ==
    ASSUME AppTyped, JobsTyped, CallsFit, [Next]_vars, Stopped
    PROVE  /\ core' = core /\ UNCHANGED scoped
           /\ \/ pc["caller"] = "routes" \/ installed = "no"
           /\ \/ orphans' = orphans /\ UNCHANGED leaked
              \/ HelperEnds
<1> USE DEF app, helper, history
<1>1. tun # "off" /\ tun' = "off"
  BY DEF Stopped
<1>2. ASSUME NEW i \in DOMAIN jobs, Return(i)
      PROVE  pc["caller"] = "routes" /\ UNCHANGED <<core, scoped, orphans, leaked>>
  <2>1. UNCHANGED <<core, scoped, orphans, leaked>>
    BY <1>2, Zenon DEF Return
  <2>2. jobs[i].open
    BY <1>1, <1>2 DEF Return
  <2>3. AfterCall(jobs[i].ok, Without(i))
    BY <1>2, <2>2 DEF Return, Without
  <2>4. pc["caller"] \in InCall /\ jobs[i].ok \in BOOLEAN
    <3>1. jobs[i] \in Job
      BY LenProperties DEF JobsTyped
    <3> QED
      BY <2>2, <3>1, ReturnSilent DEF Job
  <2> QED
    BY <1>1, <2>1, <2>3, <2>4, AfterCallGoes
<1>3. CASE TimeOut \/ Unreachable
  <2>1. UNCHANGED <<core, scoped, orphans, leaked>>
    BY <1>3, Zenon DEF TimeOut, Unreachable
  <2>2. pc["caller"] \in InCall /\ \E q : AfterCall(FALSE, q)
    BY <1>3 DEF TimeOut, Unreachable, Calling, InCall
  <2> QED
    BY <1>1, <2>1, <2>2, AfterCallGoes
<1>4. CASE ConnectionDrops \/ HelperCrashes
  <2>1. UNCHANGED <<core, scoped>> /\ (UNCHANGED <<orphans, leaked>> \/ HelperEnds)
    BY <1>4, Zenon DEF ConnectionDrops, HelperCrashes
  <2>2. PICK q \in {<<>>, GivenUp} : Interrupted(q)
    BY <1>4 DEF ConnectionDrops, HelperCrashes
  <2>3. AfterCall(FALSE, q) /\ pc["caller"] \in InCall
    BY <1>1, <2>2 DEF Interrupted, Calling, InCall
  <2> QED
    BY <1>1, <2>1, <2>3, AfterCallGoes
<1>5. CASE SkipStop
  BY <1>5, Zenon DEF SkipStop
<1>6. CASE HelperStep
  <2>1. UNCHANGED tun
    BY <1>6, Zenon
       DEF HelperStep, StartKills, SpawnFails, Spawn, RoutesFail, RoutesUp,
       ReadTarget, Reap, Clear, RemoveRoutes, UninstallSelf, ExitHandler
  <2> QED
    BY <1>1, <2>1
<1>7. CASE StartTun \/ PrepareFails \/ Install \/ StartCore \/ ApiReady \/ ApiNotReady
           \/ StopTun \/ StripGateway \/ UninstallHelper \/ ShellRemoves \/ ShellFails
           \/ Wake \/ NetworkChanges \/ AppCrashes \/ Launch \/ OrphanAppCleanup
           \/ UNCHANGED vars \/ \E c \in Cores : CoreExits(c)
  <2>1. UNCHANGED tun \/ tun' = "unknown"
    BY <1>7, Zenon
       DEF StartTun, PrepareFails, Install, StartCore, ApiReady, ApiNotReady,
       StopTun, StripGateway, UninstallHelper, ShellRemoves, ShellFails, Wake,
       NetworkChanges, AppCrashes, Launch, OrphanAppCleanup, CoreExits, vars
  <2> QED
    BY <1>1, <2>1
<1>8. ASSUME NEW t \in Threads, Reapply(t) PROVE FALSE
  <2>1. UNCHANGED tun \/ tun' = "on"
    BY <1>8, Zenon
       DEF Reapply, Detect, Decide, Restore, Write, WriteFails, Record, Done
  <2> QED
    BY <1>1, <2>1
<1> QED
  BY <1>2, <1>3, <1>4, <1>5, <1>6, <1>7, <1>8 DEF Next, Caller, Environment

(* where neither a session nor a start is left. *)
LEMMA StopLeavesNothing ==
    ASSUME IInv, SInv, [Next]_vars, Stopped
    PROVE  /\ \A c \in Cores : core'[c] = "running" => c \in orphans'
           /\ scoped' => leaked'
<1>1. /\ AppTyped /\ JobsTyped /\ CallsFit /\ SystemTyped
      /\ Serial(jobs) /\ CoresKnown(jobs) /\ RouteKnown(jobs) /\ SessionFits /\ NothingLeft
  BY DEF IInv, SInv, CallsServed
<1>2. /\ core' = core /\ UNCHANGED scoped
      /\ pc["caller"] = "routes" \/ installed = "no"
      /\ (orphans' = orphans /\ UNCHANGED leaked) \/ HelperEnds
  BY <1>1, StopReturns
<1>3. active = NoCore /\ ~owns /\ \A i \in Calls(jobs) : jobs[i].at # "install"
  BY <1>1, <1>2 DEF NothingLeft, Cleared, SessionFits, Serial, OnIt
<1>4. \A c \in Cores : core[c] = "running" => c \in orphans
  BY <1>1, <1>3 DEF CoresKnown
<1>5. scoped => leaked
  BY <1>1, <1>3 DEF RouteKnown
<1>6. CASE orphans' = orphans /\ UNCHANGED leaked
  BY <1>2, <1>4, <1>5, <1>6
<1>7. CASE HelperEnds
  BY <1>2, <1>7 DEF HelperEnds
<1> QED
  BY <1>2, <1>6, <1>7

(* While the tunnel is up the helper leaves its core alone. *)
LEMMA TunnelKept ==
    ASSUME IInv, SInv, tun = "on", HelperStep
    PROVE  \A c \in Cores : c = active => core'[c] = core[c]
<1>1. Facts /\ Untouched(jobs) /\ SystemTyped
  BY TypeFacts DEF IInv, SInv, TunnelIsSafe
<1>2. \A i \in DOMAIN jobs : i \in Calls(jobs)
  BY LenProperties DEF IInv, JobsTyped, Calls
<1>3. ASSUME NEW i \in DOMAIN jobs,
             StartKills(i) \/ Spawn(i) \/ RoutesFail(i)
      PROVE  FALSE
  <2>1. jobs[i].at \in Pending
    BY <1>3 DEF StartKills, Spawn, RoutesFail, At, Pending
  <2> QED
    BY <1>1, <1>2, <2>1 DEF Untouched
<1>4. ASSUME NEW i \in DOMAIN jobs, Reap(i), NEW c \in Cores, c = active
      PROVE  core'[c] = core[c]
  <2>1. jobs[i].core \in Cores \cup {NoCore} /\ jobs[i].core # c
    BY <1>1, <1>2, <1>4 DEF Facts, JobFacts, Untouched, Reap, At
  <2>2. CASE jobs[i].core = NoCore
    BY <1>4, <2>2 DEF Reap
  <2>3. CASE jobs[i].core \in Cores
    BY <1>1, <1>4, <2>1, <2>3, OneDies DEF Reap, Facts
  <2> QED
    BY <2>1, <2>2, <2>3
<1>5. ASSUME NEW i \in DOMAIN jobs,
             \/ SpawnFails(i) \/ RoutesUp(i) \/ ReadTarget(i) \/ Clear(i)
             \/ RemoveRoutes(i) \/ UninstallSelf(i)
      PROVE  UNCHANGED core
  BY <1>5, Zenon
     DEF SpawnFails, RoutesUp, ReadTarget, Clear, RemoveRoutes, UninstallSelf
<1>6. CASE ExitHandler
  BY <1>6 DEF ExitHandler
<1> QED
  BY <1>3, <1>4, <1>5, <1>6 DEF HelperStep

(* When stop_tun returns Ok, whatever calls were given up before, no core  *)
(* runs and no scoped route is left but those of a helper that ended; and  *)
(* while the tunnel is up no call that was given up ends its core          *)
(* (macos-helper/Sources/main.m startSingBox, stopSingBox,                 *)
(* macos/mod.rs stop_tun).                                                 *)
THEOREM StopsAreExact == Spec => StopIsExact
<1>1. IInv /\ SInv /\ [Next]_vars
        => [/\ Stopped => /\ \A c \in Cores : core'[c] = "running" => c \in orphans'
                          /\ scoped' => leaked'
            /\ tun = "on" /\ pc["caller"] = "idle" /\ HelperStep
                  => \A c \in Cores : c = active => core'[c] = core[c]]_vars
  BY StopLeavesNothing, TunnelKept
<1> QED
  BY <1>1, StopInvariance, PTL DEF Spec, StopIsExact
=============================================================================
