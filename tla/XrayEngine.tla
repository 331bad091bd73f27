----------------------------- MODULE XrayEngine -----------------------------
(***************************************************************************)
(* `XrayEngine`: the owner of the sidecar process.                         *)
(*                                                                         *)
(* Callers run `start`, `stop` and the `*_external_*` hand-over calls      *)
(* concurrently; every critical section of `Runtime`'s mutex is one        *)
(* action, and every await between two critical sections is a point where  *)
(* the other callers, the process monitors and the sidecars themselves may *)
(* take steps.  A sidecar is named by the generation of the start that     *)
(* spawned it.                                                             *)
(***************************************************************************)
EXTENDS EngineState, Naturals

CONSTANTS
    Callers,    \* the tasks that call the engine
    MaxGen      \* bound on the number of starts (generations) of a behaviour

ASSUME MaxGenAssumption == MaxGen \in Nat \ {0}

Gens   == 1 .. MaxGen
NoGen  == 0             \* no monitor, no sidecar

VARIABLES
    state,        \* Runtime.sm
    generation,   \* Runtime.generation
    monitor,      \* Runtime.monitor: the generation it watches, or NoGen
    lastExit,     \* Runtime.last_exit: the generation it reports, or NoGen
    proc,         \* sidecar of each generation: "none", "alive" or "dead"
    task,         \* monitor task of each generation
    stopped,      \* generations whose stop_rx has resolved (sent or dropped)
    published,    \* generations whose exit event was broadcast
    pc,           \* where each caller is
    held,         \* the generation a call holds (its child or its monitor)
    cancelled,    \* history: generations that were current when a stop came
    stopReturned  \* history: generations whose monitor a finished stop held

runtime == <<state, generation, monitor, lastExit>>
vars == <<state, generation, monitor, lastExit, proc, task, stopped,
          published, pc, held, cancelled, stopReturned>>
history == <<cancelled, stopReturned>>

ProcStates == {"none", "alive", "dead"}
TaskStates == {"none", "watching", "reporting", "publishing", "done"}
StartSteps == {"probe", "wait", "reap", "commit"}
StopSteps  == {"signal", "join", "finish"}
CallSteps  == {"ready", "external"} \cup StartSteps \cup StopSteps

TypeOK ==
    /\ state \in EngineStates
    /\ generation \in 0 .. MaxGen
    /\ monitor \in 0 .. MaxGen
    /\ lastExit \in 0 .. MaxGen
    /\ proc \in [Gens -> ProcStates]
    /\ task \in [Gens -> TaskStates]
    /\ stopped \in SUBSET Gens
    /\ published \in SUBSET Gens
    /\ pc \in [Callers -> CallSteps]
    /\ held \in [Callers -> 0 .. MaxGen]
    /\ cancelled \in SUBSET (0 .. MaxGen)
    /\ stopReturned \in SUBSET Gens

Init ==
    /\ state = "idle"
    /\ generation = 0
    /\ monitor = NoGen
    /\ lastExit = NoGen
    /\ proc = [g \in Gens |-> "none"]
    /\ task = [g \in Gens |-> "none"]
    /\ stopped = {}
    /\ published = {}
    /\ pc = [c \in Callers |-> "ready"]
    /\ held = [c \in Callers |-> NoGen]
    /\ cancelled = {}
    /\ stopReturned = {}

-----------------------------------------------------------------------------
(* Building blocks *)

(* Dropping a `ProcessMonitor` drops its `stop_tx`, which resolves stop_rx. *)
DropDetaches(m) == stopped                  \* mutant: the task is only detached
DropUnchecked(m) == stopped \cup {m}        \* mutant: no monitor is not a case
WithDropped(m) == stopped \cup ({m} \ {NoGen})

(* `start_kill` and `kill`: SIGKILL cannot be refused. *)
ChildKept(g) == UNCHANGED proc              \* mutant: no kill on the way out
Kill(g) == proc' = [proc EXCEPT ![g] = "dead"]

(* The stop branch of the monitor's select is ready. *)
StopIgnored(g) == FALSE                     \* mutant: the select has no stop branch
StopRequested(g) == g \in stopped

(* `monitor.join.await` is over. *)
OnlySignalled(g) == StopRequested(g)        \* mutant: the join is not awaited
MonitorEnded(g) == task[g] = "done"

GoTo(c, step, g) ==
    /\ pc' = [pc EXCEPT ![c] = step]
    /\ held' = [held EXCEPT ![c] = g]

Return(c) == GoTo(c, "ready", NoGen)

-----------------------------------------------------------------------------
(* start(): the sidecar path *)

(* Take the machine to Starting under a new generation; a monitor left over *)
(* from a failed session is dropped.                                        *)
BeginStart(c) ==
    /\ pc[c] = "ready"
    /\ generation < MaxGen
    /\ IsLegal(state, "starting")
    /\ state' = "starting"
    /\ generation' = generation + 1
    /\ stopped' = WithDropped(monitor)
    /\ monitor' = NoGen
    /\ GoTo(c, "probe", generation + 1)
    /\ UNCHANGED <<lastExit, proc, task, published, history>>

(* A local port is already taken, or the process cannot be spawned. *)
StartFailsEarly(c) ==
    /\ pc[c] = "probe"
    /\ state' = Transition(state, "failed")
    /\ Return(c)
    /\ UNCHANGED <<generation, monitor, lastExit, proc, task, stopped, published,
                   history>>

Spawn(c) ==
    /\ pc[c] = "probe"
    /\ proc' = [proc EXCEPT ![held[c]] = "alive"]
    /\ GoTo(c, "wait", held[c])
    /\ UNCHANGED <<runtime, task, stopped, published, history>>

(* wait_until_ready saw a port answer while try_wait still saw the child. *)
BecomesReady(c) ==
    /\ pc[c] = "wait"
    /\ proc[held[c]] = "alive"
    /\ GoTo(c, "commit", held[c])
    /\ UNCHANGED <<runtime, proc, task, stopped, published, history>>

(* The child exited or the deadline passed: collect_child_failure kills it. *)
NotReady(c) ==
    /\ pc[c] = "wait"
    /\ Kill(held[c])
    /\ GoTo(c, "reap", held[c])
    /\ UNCHANGED <<runtime, task, stopped, published, history>>

(* ... and then the machine is failed, whatever start it is now serving. *)
Reap(c) ==
    /\ pc[c] = "reap"
    /\ state' = Transition(state, "failed")
    /\ Return(c)
    /\ UNCHANGED <<generation, monitor, lastExit, proc, task, stopped, published,
                   history>>

(* Only the start of the current generation may become Running, and only   *)
(* if no stop took the machine elsewhere meanwhile.                        *)
Uncancelled(g) == generation = g            \* mutant: the transition is forced
MayRun(g) == generation = g /\ IsLegal(state, "running")

(* A stale or cancelled start kills its child instead. *)
Commit(c) ==
    /\ pc[c] = "commit"
    /\ IF MayRun(held[c])
       THEN /\ state' = "running"
            /\ monitor' = held[c]
            /\ task' = [task EXCEPT ![held[c]] = "watching"]
            /\ UNCHANGED proc
       ELSE /\ Kill(held[c])
            /\ UNCHANGED <<state, monitor, task>>
    /\ Return(c)
    /\ UNCHANGED <<generation, lastExit, stopped, published, history>>

-----------------------------------------------------------------------------
(* stop() *)

(* The state stop() moves to at once; Idle and Stopping return early. *)
StateAfterStopRequest == IF state = "failed" THEN "idle" ELSE "stopping"

BeginStop(c) ==
    /\ pc[c] = "ready"
    /\ state \in {"failed", "starting", "running"}
    /\ state' = StateAfterStopRequest
    /\ monitor' = NoGen
    /\ cancelled' = cancelled \cup {generation}
    /\ GoTo(c, IF monitor = NoGen THEN "finish" ELSE "signal", monitor)
    /\ UNCHANGED <<generation, lastExit, proc, task, stopped, published,
                   stopReturned>>

Signal(c) ==
    /\ pc[c] = "signal"
    /\ stopped' = stopped \cup {held[c]}
    /\ GoTo(c, "join", held[c])
    /\ UNCHANGED <<runtime, proc, task, published, history>>

Join(c) ==
    /\ pc[c] = "join"
    /\ MonitorEnded(held[c])
    /\ GoTo(c, "finish", held[c])
    /\ UNCHANGED <<runtime, proc, task, stopped, published, history>>

FinishStop(c) ==
    /\ pc[c] = "finish"
    /\ state' = IF state = "stopping" THEN "idle" ELSE state
    /\ stopReturned' = stopReturned \cup ({held[c]} \ {NoGen})
    /\ Return(c)
    /\ UNCHANGED <<generation, monitor, lastExit, proc, task, stopped, published,
                   cancelled>>

-----------------------------------------------------------------------------
(* The external hand-over: the elevated helper owns the core *)

BeginExternalStart(c) ==
    /\ pc[c] = "ready"
    /\ generation < MaxGen
    /\ IsLegal(state, "starting")
    /\ state' = "starting"
    /\ generation' = generation + 1
    /\ stopped' = WithDropped(monitor)
    /\ monitor' = NoGen
    /\ GoTo(c, "external", NoGen)
    /\ UNCHANGED <<lastExit, proc, task, published, history>>

FinishExternalStart(c) ==
    /\ pc[c] = "external"
    /\ state' = Transition(state, "running")
    /\ Return(c)
    /\ UNCHANGED <<generation, monitor, lastExit, proc, task, stopped, published,
                   history>>

(* Called by the starter that failed, and by the health poller at any time. *)
FailExternalStart(c) ==
    /\ pc[c] \in {"ready", "external"}
    /\ state' = Transition(state, "failed")
    /\ Return(c)
    /\ UNCHANGED <<generation, monitor, lastExit, proc, task, stopped, published,
                   history>>

(* Stopping is skipped from Idle and Failed; both transitions may be refused. *)
FinishExternalStop(c) ==
    LET stopping == IF state \in {"idle", "failed"} THEN state
                    ELSE Transition(state, "stopping")
    IN  /\ pc[c] = "ready"
        /\ state' = Transition(stopping, "idle")
        /\ stopped' = WithDropped(monitor)
        /\ monitor' = NoGen
        /\ cancelled' = IF state' = "idle" THEN cancelled \cup {generation}
                                          ELSE cancelled
        /\ UNCHANGED <<generation, lastExit, proc, task, published, pc, held,
                       stopReturned>>

-----------------------------------------------------------------------------
(* The monitor task of generation g and the sidecar it watches *)

(* The stop branch of the biased select: kill, wait, end without an event. *)
MonitorStop(g) ==
    /\ task[g] = "watching"
    /\ StopRequested(g)
    /\ Kill(g)
    /\ task' = [task EXCEPT ![g] = "done"]
    /\ UNCHANGED <<runtime, stopped, published, pc, held, history>>

(* The exit branch is taken only when the stop branch is not ready. *)
MonitorExit(g) ==
    /\ task[g] = "watching"
    /\ ~StopRequested(g)
    /\ proc[g] = "dead"
    /\ task' = [task EXCEPT ![g] = "reporting"]
    /\ UNCHANGED <<runtime, proc, stopped, published, pc, held, history>>

(* update_state_after_unexpected_exit *)
Report(g) ==
    /\ task[g] = "reporting"
    /\ IF generation = g /\ state = "running"
       THEN /\ state' = "failed"
            /\ lastExit' = g
            /\ task' = [task EXCEPT ![g] = "publishing"]
       ELSE /\ task' = [task EXCEPT ![g] = "done"]
            /\ UNCHANGED <<state, lastExit>>
    /\ UNCHANGED <<generation, monitor, proc, stopped, published, pc, held,
                   history>>

(* The broadcast happens after the lock is released. *)
Publish(g) ==
    /\ task[g] = "publishing"
    /\ published' = published \cup {g}
    /\ task' = [task EXCEPT ![g] = "done"]
    /\ UNCHANGED <<runtime, proc, stopped, pc, held, history>>

(* The sidecar exits by itself. *)
CoreDies(g) ==
    /\ proc[g] = "alive"
    /\ proc' = [proc EXCEPT ![g] = "dead"]
    /\ UNCHANGED <<runtime, task, stopped, published, pc, held, history>>

-----------------------------------------------------------------------------
(* The steps a call takes once it has begun *)
StartStep(c) == \/ StartFailsEarly(c) \/ Spawn(c) \/ BecomesReady(c)
                \/ NotReady(c) \/ Reap(c) \/ Commit(c)
StopStep(c) == Signal(c) \/ Join(c) \/ FinishStop(c)
ExternalStep(c) == FinishExternalStart(c) \/ FailExternalStart(c)

MonitorStep(g) == MonitorStop(g) \/ MonitorExit(g) \/ Report(g) \/ Publish(g)

Next ==
    \/ \E c \in Callers :
          \/ BeginStart(c) \/ BeginStop(c) \/ BeginExternalStart(c)
          \/ FinishExternalStop(c)
          \/ StartStep(c) \/ StopStep(c) \/ ExternalStep(c)
    \/ \E g \in Gens : MonitorStep(g) \/ CoreDies(g)

(* tokio runs every ready task, the readiness wait has a deadline and a    *)
(* killed process dies: a call that has begun and a monitor task make      *)
(* progress.  Nothing makes a caller call, and nothing makes a core die.   *)
Fairness ==
    /\ \A c \in Callers : WF_vars(StartStep(c)) /\ WF_vars(StopStep(c))
    /\ \A g \in Gens : WF_vars(MonitorStep(g))

Spec == Init /\ [][Next]_vars
FairSpec == Spec /\ Fairness

-----------------------------------------------------------------------------
(* Properties *)

(* A start that still holds its child. *)
StartHolds(g) == \E c \in Callers : held[c] = g /\ pc[c] \in {"wait", "commit"}

(* A stop that has taken the monitor and is about to signal it. *)
StopHolds(g) == \E c \in Callers : held[c] = g /\ pc[c] = "signal"

(* No interleaving of starts and stops leaks a sidecar: a live sidecar is  *)
(* held by the start that spawned it or watched by its monitor task.       *)
NoOrphanCore ==
    \A g \in Gens : proc[g] = "alive" => StartHolds(g) \/ task[g] = "watching"

(* At most one sidecar is meant to live on: a watched one that was not told *)
(* to stop is the monitor of the runtime or of a stop about to signal it.   *)
OneOwnedCore ==
    \A g \in Gens : task[g] = "watching" /\ g \notin stopped
                        => monitor = g \/ StopHolds(g)

(* A stop is not undone by the start it overtook: the generation that was  *)
(* current when the stop came is never Starting or Running again.          *)
CancelledStaysDown ==
    generation \in cancelled => state \notin {"starting", "running"}

(* A stop that took a monitor returns only after that sidecar is dead and  *)
(* its monitor task has ended, so that a restart finds the ports free.     *)
StopReturnsAfterCoreDied ==
    [][\A c \in Callers :
          pc[c] = "finish" /\ pc'[c] = "ready" /\ held[c] # NoGen
              => proc[held[c]] = "dead" /\ task[held[c]] = "done"]_vars

(* An explicit stop that has returned is never followed by an exit event   *)
(* of the session it stopped.                                              *)
NoEventAfterStopReturned ==
    [][(published' \ published) \cap stopReturned = {}]_vars

(* The sidecar of a superseded generation dies, also when its start was    *)
(* still waiting for it to become ready.                                   *)
SupersededCoreDies ==
    \A g \in Gens : (generation > g) ~> (proc[g] # "alive")

(* Every start and stop returns. *)
CallsReturn ==
    \A c \in Callers :
        (pc[c] \in StartSteps \cup StopSteps) ~> (pc[c] = "ready")
=============================================================================
