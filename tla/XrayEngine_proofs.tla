-------------------------- MODULE XrayEngine_proofs --------------------------
(***************************************************************************)
(* The safety properties of XrayEngine, for every set of callers and every *)
(* number of generations.                                                  *)
(***************************************************************************)
EXTENDS XrayEngine, TLAPS

(* A start that is under way holds a generation of its own whose monitor   *)
(* task does not exist yet.                                                *)
StartsAreFresh ==
    /\ \A c \in Callers : pc[c] \in StartSteps =>
          /\ held[c] \in Gens
          /\ held[c] <= generation
          /\ task[held[c]] = "none"
    /\ \A c, d \in Callers :
          pc[c] \in StartSteps /\ pc[d] \in StartSteps /\ held[c] = held[d] => c = d

(* A stop between its critical sections holds a monitor, if it holds any,  *)
(* that exists, and past the join one that has ended.                      *)
StopsHoldMonitors ==
    \A c \in Callers :
        /\ pc[c] \in {"signal", "join"} => held[c] \in Gens
        /\ pc[c] = "finish" /\ held[c] # NoGen => task[held[c]] = "done"

(* The runtime's monitor is the one of the current generation. *)
MonitorIsCurrent == monitor # NoGen => monitor = generation

(* Generations to come have no task, and a task past watching has a dead   *)
(* sidecar.                                                                *)
TasksFollowCores ==
    \A g \in Gens :
        /\ g > generation => task[g] = "none"
        /\ task[g] \in {"reporting", "publishing", "done"} => proc[g] = "dead"

HistoryIsPast ==
    /\ \A g \in stopReturned : task[g] = "done"
    /\ \A g \in cancelled : g <= generation

(* The inductive invariant. *)
IInv ==
    /\ TypeOK
    /\ StartsAreFresh
    /\ StopsHoldMonitors
    /\ MonitorIsCurrent
    /\ TasksFollowCores
    /\ HistoryIsPast
    /\ NoOrphanCore
    /\ OneOwnedCore
    /\ CancelledStaysDown

(* Types are preserved. *)
LEMMA Typing ==
    ASSUME TypeOK, StartsAreFresh, StopsHoldMonitors, [Next]_vars
    PROVE  TypeOK'
<1> USE MaxGenAssumption DEF TypeOK, Gens, NoGen, CallSteps, StartSteps, StopSteps,
        EngineStates, ProcStates, TaskStates
<1>1. ASSUME NEW c \in Callers, BeginStart(c) PROVE TypeOK'
    BY <1>1 DEF BeginStart, WithDropped, GoTo, history
<1>2. ASSUME NEW c \in Callers, BeginStop(c) PROVE TypeOK'
    BY <1>2 DEF BeginStop, StateAfterStopRequest, GoTo
<1>3. ASSUME NEW c \in Callers, BeginExternalStart(c) PROVE TypeOK'
    BY <1>3 DEF BeginExternalStart, WithDropped, GoTo, history
<1>4. ASSUME NEW c \in Callers, FinishExternalStop(c) PROVE TypeOK'
    BY <1>4 DEF FinishExternalStop, Transition, WithDropped
<1>5. ASSUME NEW c \in Callers, StartFailsEarly(c) PROVE TypeOK'
    BY <1>5 DEF StartFailsEarly, Transition, Return, GoTo, history
<1>6. ASSUME NEW c \in Callers, Spawn(c) PROVE TypeOK'
    BY <1>6 DEF Spawn, GoTo, runtime, history, StartsAreFresh
<1>7. ASSUME NEW c \in Callers, BecomesReady(c) PROVE TypeOK'
    BY <1>7 DEF BecomesReady, GoTo, runtime, history
<1>8. ASSUME NEW c \in Callers, NotReady(c) PROVE TypeOK'
    BY <1>8 DEF NotReady, Kill, GoTo, runtime, history, StartsAreFresh
<1>9. ASSUME NEW c \in Callers, Reap(c) PROVE TypeOK'
    BY <1>9 DEF Reap, Transition, Return, GoTo, history
<1>10. ASSUME NEW c \in Callers, Commit(c) PROVE TypeOK'
  <2>1. held[c] \in Gens BY <1>10 DEF Commit, StartsAreFresh
  <2>2. CASE MayRun(held[c])
    <3>1. monitor' \in 0 .. MaxGen BY <1>10, <2>1, <2>2 DEF Commit
    <3>2. task' \in [Gens -> TaskStates] BY <1>10, <2>1, <2>2 DEF Commit
    <3>3. pc' \in [Callers -> CallSteps] /\ held' \in [Callers -> 0 .. MaxGen]
      BY <1>10 DEF Commit, Return, GoTo
    <3> QED BY <1>10, <2>2, <3>1, <3>2, <3>3 DEF Commit, MayRun, history
  <2>3. CASE ~MayRun(held[c])
    BY <1>10, <2>1, <2>3 DEF Commit, MayRun, Kill, Return, GoTo, history
  <2> QED BY <2>2, <2>3
<1>11. ASSUME NEW c \in Callers, Signal(c) PROVE TypeOK'
    BY <1>11 DEF Signal, GoTo, runtime, history, StopsHoldMonitors
<1>12. ASSUME NEW c \in Callers, Join(c) PROVE TypeOK'
    BY <1>12 DEF Join, GoTo, runtime, history, StopsHoldMonitors
<1>13. ASSUME NEW c \in Callers, FinishStop(c) PROVE TypeOK'
  <2>1. stopReturned' \in SUBSET Gens
    <3>1. held[c] \in 0 .. MaxGen BY DEF TypeOK
    <3>2. {held[c]} \ {0} \in SUBSET (1 .. MaxGen) BY <3>1
    <3>3. stopReturned' = stopReturned \cup ({held[c]} \ {0}) BY <1>13 DEF FinishStop
    <3> QED BY <3>2, <3>3
  <2>2. pc' \in [Callers -> CallSteps] /\ held' \in [Callers -> 0 .. MaxGen]
    BY <1>13 DEF FinishStop, Return, GoTo
  <2> QED BY <1>13, <2>1, <2>2 DEF FinishStop
<1>14. ASSUME NEW c \in Callers, FinishExternalStart(c) PROVE TypeOK'
    BY <1>14 DEF FinishExternalStart, Transition, Return, GoTo, history
<1>15. ASSUME NEW c \in Callers, FailExternalStart(c) PROVE TypeOK'
    BY <1>15 DEF FailExternalStart, Transition, Return, GoTo, history
<1>16. ASSUME NEW g \in Gens, MonitorStop(g) PROVE TypeOK'
    BY <1>16 DEF MonitorStop, Kill, runtime, history
<1>17. ASSUME NEW g \in Gens, MonitorExit(g) PROVE TypeOK'
    BY <1>17 DEF MonitorExit, runtime, history
<1>18. ASSUME NEW g \in Gens, Report(g) PROVE TypeOK'
    BY <1>18 DEF Report, history
<1>19. ASSUME NEW g \in Gens, Publish(g) PROVE TypeOK'
    BY <1>19 DEF Publish, runtime, history
<1>20. ASSUME NEW g \in Gens, CoreDies(g) PROVE TypeOK'
    BY <1>20 DEF CoreDies, runtime, history
<1>21. CASE UNCHANGED vars BY <1>21 DEF vars
<1> QED BY <1>1, <1>2, <1>3, <1>4, <1>5, <1>6, <1>7, <1>8, <1>9, <1>10, <1>11,
        <1>12, <1>13, <1>14, <1>15, <1>16, <1>17, <1>18, <1>19, <1>20, <1>21
        DEF Next, StartStep, StopStep, ExternalStep, MonitorStep

(* Every step preserves the inductive invariant. *)
THEOREM Preservation == IInv /\ [Next]_vars => IInv'
<1> SUFFICES ASSUME IInv, [Next]_vars PROVE IInv' OBVIOUS
<1>ty. TypeOK /\ TypeOK' BY Typing DEF IInv
<1> USE <1>ty, MaxGenAssumption DEF IInv, Gens, NoGen
<1>1. ASSUME NEW c \in Callers, BeginStart(c) PROVE IInv'
  <2>1. StartsAreFresh'
    BY <1>1 DEF BeginStart, IsLegal, LegalEdges, WithDropped, GoTo, TypeOK,
        StartsAreFresh, StartSteps, TasksFollowCores
  <2>2. StopsHoldMonitors'
    BY <1>1 DEF BeginStart, IsLegal, LegalEdges, WithDropped, GoTo, TypeOK,
        StopsHoldMonitors, StartsAreFresh, StartSteps
  <2>3. MonitorIsCurrent'
    BY <1>1 DEF BeginStart, IsLegal, LegalEdges, WithDropped, GoTo, TypeOK,
        MonitorIsCurrent, StartsAreFresh, StartSteps
  <2>4. TasksFollowCores'
    BY <1>1 DEF BeginStart, IsLegal, LegalEdges, WithDropped, GoTo, TypeOK,
        TasksFollowCores, StartsAreFresh, StartSteps
  <2>5. HistoryIsPast'
    BY <1>1 DEF BeginStart, IsLegal, LegalEdges, WithDropped, GoTo, history,
        TypeOK, HistoryIsPast, StartsAreFresh, StartSteps
  <2>6. NoOrphanCore'
    BY <1>1 DEF BeginStart, IsLegal, LegalEdges, WithDropped, GoTo, TypeOK,
        NoOrphanCore, StartHolds, StartsAreFresh, StartSteps,
        TasksFollowCores, StopsHoldMonitors
  <2>7. OneOwnedCore'
    BY <1>1 DEF BeginStart, IsLegal, LegalEdges, WithDropped, GoTo, TypeOK,
        OneOwnedCore, StopHolds, MonitorIsCurrent, StartsAreFresh, StartSteps,
        StopsHoldMonitors
  <2>8. CancelledStaysDown'
    BY <1>1 DEF BeginStart, IsLegal, LegalEdges, WithDropped, GoTo, history,
        TypeOK, CancelledStaysDown, HistoryIsPast
  <2> QED BY <2>1, <2>2, <2>3, <2>4, <2>5, <2>6, <2>7, <2>8
<1>2. ASSUME NEW c \in Callers, BeginStop(c) PROVE IInv'
  <2>1. StartsAreFresh'
    BY <1>2 DEF BeginStop, StateAfterStopRequest, GoTo, TypeOK,
        StartsAreFresh, StartSteps, TasksFollowCores
  <2>2. StopsHoldMonitors'
    BY <1>2 DEF BeginStop, StateAfterStopRequest, GoTo, TypeOK,
        StopsHoldMonitors, StartsAreFresh, StartSteps
  <2>3. MonitorIsCurrent'
    BY <1>2 DEF BeginStop, StateAfterStopRequest, GoTo, TypeOK,
        MonitorIsCurrent, StartsAreFresh, StartSteps
  <2>4. HistoryIsPast'
    BY <1>2 DEF BeginStop, StateAfterStopRequest, GoTo, TypeOK, HistoryIsPast,
        StartsAreFresh, StartSteps
  <2>5. NoOrphanCore'
    BY <1>2 DEF BeginStop, StateAfterStopRequest, GoTo, TypeOK, NoOrphanCore,
        StartHolds, StartsAreFresh, StartSteps, TasksFollowCores,
        StopsHoldMonitors
  <2>6. OneOwnedCore'
    BY <1>2 DEF BeginStop, StateAfterStopRequest, GoTo, TypeOK, OneOwnedCore,
        StopHolds, MonitorIsCurrent, StartsAreFresh, StartSteps,
        StopsHoldMonitors
  <2>7. CancelledStaysDown'
    BY <1>2 DEF BeginStop, StateAfterStopRequest, GoTo, TypeOK,
        CancelledStaysDown, HistoryIsPast
  <2>8. TasksFollowCores'
    BY <1>2 DEF BeginStop, TasksFollowCores
  <2> QED BY <2>1, <2>2, <2>3, <2>4, <2>5, <2>6, <2>7, <2>8
<1>3. ASSUME NEW c \in Callers, BeginExternalStart(c) PROVE IInv'
  <2>1. StartsAreFresh'
    BY <1>3 DEF BeginExternalStart, IsLegal, LegalEdges, WithDropped, GoTo,
        TypeOK, StartsAreFresh, StartSteps, TasksFollowCores
  <2>2. StopsHoldMonitors'
    BY <1>3 DEF BeginExternalStart, IsLegal, LegalEdges, WithDropped, GoTo,
        TypeOK, StopsHoldMonitors, StartsAreFresh, StartSteps
  <2>3. MonitorIsCurrent'
    BY <1>3 DEF BeginExternalStart, IsLegal, LegalEdges, WithDropped, GoTo,
        TypeOK, MonitorIsCurrent, StartsAreFresh, StartSteps
  <2>4. TasksFollowCores'
    BY <1>3 DEF BeginExternalStart, IsLegal, LegalEdges, WithDropped, GoTo,
        TypeOK, TasksFollowCores, StartsAreFresh, StartSteps
  <2>5. HistoryIsPast'
    BY <1>3 DEF BeginExternalStart, IsLegal, LegalEdges, WithDropped, GoTo,
        history, TypeOK, HistoryIsPast, StartsAreFresh, StartSteps
  <2>6. NoOrphanCore'
    BY <1>3 DEF BeginExternalStart, IsLegal, LegalEdges, WithDropped, GoTo,
        TypeOK, NoOrphanCore, StartHolds, StartsAreFresh, StartSteps,
        TasksFollowCores, StopsHoldMonitors
  <2>7. OneOwnedCore'
    BY <1>3 DEF BeginExternalStart, IsLegal, LegalEdges, WithDropped, GoTo,
        TypeOK, OneOwnedCore, StopHolds, MonitorIsCurrent, StartsAreFresh,
        StartSteps, StopsHoldMonitors
  <2>8. CancelledStaysDown'
    BY <1>3 DEF BeginExternalStart, IsLegal, LegalEdges, WithDropped, GoTo,
        history, TypeOK, CancelledStaysDown, HistoryIsPast
  <2> QED BY <2>1, <2>2, <2>3, <2>4, <2>5, <2>6, <2>7, <2>8
<1>4. ASSUME NEW c \in Callers, FinishExternalStop(c) PROVE IInv'
  <2>1. MonitorIsCurrent'
    BY <1>4 DEF FinishExternalStop, Transition, IsLegal, LegalEdges,
        WithDropped, TypeOK, MonitorIsCurrent, StartsAreFresh, StartSteps
  <2>2. HistoryIsPast'
    BY <1>4 DEF FinishExternalStop, Transition, IsLegal, LegalEdges,
        WithDropped, TypeOK, HistoryIsPast, StartsAreFresh, StartSteps
  <2>3. OneOwnedCore'
    BY <1>4 DEF FinishExternalStop, Transition, IsLegal, LegalEdges,
        WithDropped, TypeOK, OneOwnedCore, StopHolds, MonitorIsCurrent,
        StartsAreFresh, StartSteps, StopsHoldMonitors
  <2>4. CancelledStaysDown'
    BY <1>4 DEF FinishExternalStop, Transition, IsLegal, LegalEdges,
        WithDropped, TypeOK, CancelledStaysDown, HistoryIsPast
  <2>5. StartsAreFresh' /\ StopsHoldMonitors' /\ TasksFollowCores' /\ NoOrphanCore'
    BY <1>4 DEF FinishExternalStop, StartsAreFresh, StopsHoldMonitors,
        TasksFollowCores, NoOrphanCore, StartSteps, StartHolds
  <2> QED BY <2>1, <2>2, <2>3, <2>4, <2>5
<1>5. ASSUME NEW c \in Callers, StartFailsEarly(c) PROVE IInv'
  <2>1. StartsAreFresh'
    BY <1>5 DEF StartFailsEarly, Transition, Return, GoTo, TypeOK,
        StartsAreFresh, StartSteps, TasksFollowCores
  <2>2. StopsHoldMonitors'
    BY <1>5 DEF StartFailsEarly, Transition, Return, GoTo, TypeOK,
        StopsHoldMonitors, StartsAreFresh, StartSteps
  <2>3. NoOrphanCore'
    BY <1>5 DEF StartFailsEarly, Transition, Return, GoTo, TypeOK,
        NoOrphanCore, StartHolds, StartsAreFresh, StartSteps,
        TasksFollowCores, StopsHoldMonitors
  <2>4. OneOwnedCore'
    BY <1>5 DEF StartFailsEarly, Transition, Return, GoTo, TypeOK,
        OneOwnedCore, StopHolds, MonitorIsCurrent, StartsAreFresh, StartSteps,
        StopsHoldMonitors
  <2>5. CancelledStaysDown'
    BY <1>5 DEF StartFailsEarly, Transition, Return, GoTo, history, TypeOK,
        CancelledStaysDown, HistoryIsPast
  <2>6. MonitorIsCurrent' /\ TasksFollowCores' /\ HistoryIsPast'
    BY <1>5 DEF StartFailsEarly, history, MonitorIsCurrent, TasksFollowCores,
        HistoryIsPast
  <2> QED BY <2>1, <2>2, <2>3, <2>4, <2>5, <2>6
<1>6. ASSUME NEW c \in Callers, Spawn(c) PROVE IInv'
  <2>1. StartsAreFresh'
    BY <1>6 DEF Spawn, GoTo, runtime, TypeOK, StartsAreFresh, StartSteps,
        TasksFollowCores
  <2>2. StopsHoldMonitors'
    BY <1>6 DEF Spawn, GoTo, runtime, TypeOK, StopsHoldMonitors,
        StartsAreFresh, StartSteps
  <2>3. TasksFollowCores'
    BY <1>6 DEF Spawn, GoTo, runtime, TypeOK, TasksFollowCores,
        StartsAreFresh, StartSteps
  <2>4. NoOrphanCore'
    BY <1>6 DEF Spawn, GoTo, runtime, TypeOK, NoOrphanCore, StartHolds,
        StartsAreFresh, StartSteps, TasksFollowCores, StopsHoldMonitors
  <2>5. OneOwnedCore'
    BY <1>6 DEF Spawn, GoTo, runtime, TypeOK, OneOwnedCore, StopHolds,
        MonitorIsCurrent, StartsAreFresh, StartSteps, StopsHoldMonitors
  <2>6. MonitorIsCurrent' /\ HistoryIsPast' /\ CancelledStaysDown'
    BY <1>6 DEF Spawn, runtime, history, MonitorIsCurrent, HistoryIsPast,
        CancelledStaysDown
  <2> QED BY <2>1, <2>2, <2>3, <2>4, <2>5, <2>6
<1>7. ASSUME NEW c \in Callers, BecomesReady(c) PROVE IInv'
  <2>1. StartsAreFresh'
    BY <1>7 DEF BecomesReady, GoTo, runtime, TypeOK, StartsAreFresh,
        StartSteps, TasksFollowCores
  <2>2. StopsHoldMonitors'
    BY <1>7 DEF BecomesReady, GoTo, runtime, TypeOK, StopsHoldMonitors,
        StartsAreFresh, StartSteps
  <2>3. NoOrphanCore'
    BY <1>7 DEF BecomesReady, GoTo, runtime, TypeOK, NoOrphanCore, StartHolds,
        StartsAreFresh, StartSteps, TasksFollowCores, StopsHoldMonitors
  <2>4. OneOwnedCore'
    BY <1>7 DEF BecomesReady, GoTo, runtime, TypeOK, OneOwnedCore, StopHolds,
        MonitorIsCurrent, StartsAreFresh, StartSteps, StopsHoldMonitors
  <2>5. MonitorIsCurrent' /\ TasksFollowCores' /\ HistoryIsPast' /\ CancelledStaysDown'
    BY <1>7 DEF BecomesReady, runtime, history, MonitorIsCurrent,
        TasksFollowCores, HistoryIsPast, CancelledStaysDown
  <2> QED BY <2>1, <2>2, <2>3, <2>4, <2>5
<1>8. ASSUME NEW c \in Callers, NotReady(c) PROVE IInv'
  <2>1. StartsAreFresh'
    BY <1>8 DEF NotReady, Kill, GoTo, runtime, TypeOK, StartsAreFresh,
        StartSteps, TasksFollowCores
  <2>2. StopsHoldMonitors'
    BY <1>8 DEF NotReady, Kill, GoTo, runtime, TypeOK, StopsHoldMonitors,
        StartsAreFresh, StartSteps
  <2>3. TasksFollowCores'
    BY <1>8 DEF NotReady, Kill, GoTo, runtime, TypeOK, TasksFollowCores,
        StartsAreFresh, StartSteps
  <2>4. NoOrphanCore'
    BY <1>8 DEF NotReady, Kill, GoTo, runtime, TypeOK, NoOrphanCore,
        StartHolds, StartsAreFresh, StartSteps, TasksFollowCores,
        StopsHoldMonitors
  <2>5. OneOwnedCore'
    BY <1>8 DEF NotReady, Kill, GoTo, runtime, TypeOK, OneOwnedCore,
        StopHolds, MonitorIsCurrent, StartsAreFresh, StartSteps,
        StopsHoldMonitors
  <2>6. MonitorIsCurrent' /\ HistoryIsPast' /\ CancelledStaysDown'
    BY <1>8 DEF NotReady, runtime, history, MonitorIsCurrent, HistoryIsPast,
        CancelledStaysDown
  <2> QED BY <2>1, <2>2, <2>3, <2>4, <2>5, <2>6
<1>9. ASSUME NEW c \in Callers, Reap(c) PROVE IInv'
  <2>1. StartsAreFresh'
    BY <1>9 DEF Reap, Transition, Return, GoTo, TypeOK, StartsAreFresh,
        StartSteps, TasksFollowCores
  <2>2. StopsHoldMonitors'
    BY <1>9 DEF Reap, Transition, Return, GoTo, TypeOK, StopsHoldMonitors,
        StartsAreFresh, StartSteps
  <2>3. NoOrphanCore'
    BY <1>9 DEF Reap, Transition, Return, GoTo, TypeOK, NoOrphanCore,
        StartHolds, StartsAreFresh, StartSteps, TasksFollowCores,
        StopsHoldMonitors
  <2>4. OneOwnedCore'
    BY <1>9 DEF Reap, Transition, Return, GoTo, TypeOK, OneOwnedCore,
        StopHolds, MonitorIsCurrent, StartsAreFresh, StartSteps,
        StopsHoldMonitors
  <2>5. CancelledStaysDown'
    BY <1>9 DEF Reap, Transition, Return, GoTo, history, TypeOK,
        CancelledStaysDown, HistoryIsPast
  <2>6. MonitorIsCurrent' /\ TasksFollowCores' /\ HistoryIsPast'
    BY <1>9 DEF Reap, history, MonitorIsCurrent, TasksFollowCores,
        HistoryIsPast
  <2> QED BY <2>1, <2>2, <2>3, <2>4, <2>5, <2>6
<1>10. ASSUME NEW c \in Callers, Commit(c) PROVE IInv'
  <2>1. StartsAreFresh'
    BY <1>10 DEF Commit, MayRun, IsLegal, LegalEdges, Kill, Return, GoTo,
        TypeOK, StartsAreFresh, StartSteps, TasksFollowCores
  <2>2. StopsHoldMonitors'
    BY <1>10 DEF Commit, MayRun, IsLegal, LegalEdges, Kill, Return, GoTo,
        TypeOK, StopsHoldMonitors, StartsAreFresh, StartSteps
  <2>3. MonitorIsCurrent'
    BY <1>10 DEF Commit, MayRun, IsLegal, LegalEdges, Kill, Return, GoTo,
        TypeOK, MonitorIsCurrent, StartsAreFresh, StartSteps
  <2>4. TasksFollowCores'
    BY <1>10 DEF Commit, MayRun, IsLegal, LegalEdges, Kill, Return, GoTo,
        TypeOK, TasksFollowCores, StartsAreFresh, StartSteps
  <2>5. HistoryIsPast'
    BY <1>10 DEF Commit, MayRun, IsLegal, LegalEdges, Kill, Return, GoTo,
        history, TypeOK, HistoryIsPast, StartsAreFresh, StartSteps
  <2>6. held[c] \in Gens /\ pc[c] = "commit"
    BY <1>10 DEF Commit, StartsAreFresh, StartSteps
  <2>7. \A d \in Callers \ {c} : pc'[d] = pc[d] /\ held'[d] = held[d]
    BY <1>10 DEF Commit, Return, GoTo, TypeOK
  <2>8. \A g \in Gens \ {held[c]} : proc'[g] = proc[g] /\ task'[g] = task[g]
    BY <1>10 DEF Commit, Kill, TypeOK
  <2>9. NoOrphanCore'
    <3>1. proc'[held[c]] = "dead" \/ task'[held[c]] = "watching"
      BY <1>10, <2>6 DEF Commit, Kill, TypeOK
    <3>2. ASSUME NEW g \in Gens \ {held[c]}, StartHolds(g) PROVE StartHolds(g)'
      <4>1. PICK d \in Callers : held[d] = g /\ pc[d] \in {"wait", "commit"}
        BY <3>2 DEF StartHolds
      <4>2. d # c
        BY <3>2, <4>1
      <4> QED BY <2>7, <4>1, <4>2 DEF StartHolds
    <3> QED BY <2>8, <3>1, <3>2 DEF NoOrphanCore
  <2>10. OneOwnedCore'
    <3>1. ASSUME NEW g \in Gens, StopHolds(g) PROVE StopHolds(g)'
      <4>1. PICK d \in Callers : held[d] = g /\ pc[d] = "signal"
        BY <3>1 DEF StopHolds
      <4>2. d # c
        BY <2>6, <4>1
      <4> QED BY <2>7, <4>1, <4>2 DEF StopHolds
    <3>2. stopped' = stopped
      BY <1>10 DEF Commit
    <3>3. CASE MayRun(held[c])
      <4>1. monitor' = held[c] /\ generation = held[c]
        BY <1>10, <3>3 DEF Commit, MayRun
      <4>2. ASSUME NEW g \in Gens \ {held[c]} PROVE monitor # g
        BY <4>1 DEF MonitorIsCurrent, Gens, NoGen
      <4> QED BY <2>8, <3>1, <3>2, <4>1, <4>2 DEF OneOwnedCore
    <3>4. CASE ~MayRun(held[c])
      <4>1. monitor' = monitor /\ task' = task
        BY <1>10, <3>4 DEF Commit
      <4> QED BY <3>1, <3>2, <4>1 DEF OneOwnedCore
    <3> QED BY <3>3, <3>4
  <2>11. CancelledStaysDown'
    BY <1>10 DEF Commit, MayRun, IsLegal, LegalEdges, Kill, Return, GoTo,
        history, TypeOK, CancelledStaysDown, HistoryIsPast
  <2> QED BY <2>1, <2>2, <2>3, <2>4, <2>5, <2>9, <2>10, <2>11
<1>11. ASSUME NEW c \in Callers, Signal(c) PROVE IInv'
  <2>1. StartsAreFresh'
    BY <1>11 DEF Signal, GoTo, runtime, TypeOK, StartsAreFresh, StartSteps,
        TasksFollowCores
  <2>2. StopsHoldMonitors'
    BY <1>11 DEF Signal, GoTo, runtime, TypeOK, StopsHoldMonitors,
        StartsAreFresh, StartSteps
  <2>3. NoOrphanCore'
    BY <1>11 DEF Signal, GoTo, runtime, TypeOK, NoOrphanCore, StartHolds,
        StartsAreFresh, StartSteps, TasksFollowCores, StopsHoldMonitors
  <2>4. OneOwnedCore'
    BY <1>11 DEF Signal, GoTo, runtime, TypeOK, OneOwnedCore, StopHolds,
        MonitorIsCurrent, StartsAreFresh, StartSteps, StopsHoldMonitors
  <2>5. MonitorIsCurrent' /\ TasksFollowCores' /\ HistoryIsPast' /\ CancelledStaysDown'
    BY <1>11 DEF Signal, runtime, history, MonitorIsCurrent, TasksFollowCores,
        HistoryIsPast, CancelledStaysDown
  <2> QED BY <2>1, <2>2, <2>3, <2>4, <2>5
<1>12. ASSUME NEW c \in Callers, Join(c) PROVE IInv'
  <2>1. StartsAreFresh'
    BY <1>12 DEF Join, MonitorEnded, GoTo, runtime, TypeOK, StartsAreFresh,
        StartSteps, TasksFollowCores
  <2>2. StopsHoldMonitors'
    BY <1>12 DEF Join, MonitorEnded, GoTo, runtime, TypeOK, StopsHoldMonitors,
        StartsAreFresh, StartSteps
  <2>3. NoOrphanCore'
    BY <1>12 DEF Join, MonitorEnded, GoTo, runtime, TypeOK, NoOrphanCore,
        StartHolds, StartsAreFresh, StartSteps, TasksFollowCores,
        StopsHoldMonitors
  <2>4. OneOwnedCore'
    BY <1>12 DEF Join, MonitorEnded, GoTo, runtime, TypeOK, OneOwnedCore,
        StopHolds, MonitorIsCurrent, StartsAreFresh, StartSteps,
        StopsHoldMonitors
  <2>5. MonitorIsCurrent' /\ TasksFollowCores' /\ HistoryIsPast' /\ CancelledStaysDown'
    BY <1>12 DEF Join, runtime, history, MonitorIsCurrent, TasksFollowCores,
        HistoryIsPast, CancelledStaysDown
  <2> QED BY <2>1, <2>2, <2>3, <2>4, <2>5
<1>13. ASSUME NEW c \in Callers, FinishStop(c) PROVE IInv'
  <2>1. StartsAreFresh'
    BY <1>13 DEF FinishStop, Return, GoTo, TypeOK, StartsAreFresh, StartSteps,
        TasksFollowCores
  <2>2. StopsHoldMonitors'
    BY <1>13 DEF FinishStop, Return, GoTo, TypeOK, StopsHoldMonitors,
        StartsAreFresh, StartSteps
  <2>3. HistoryIsPast'
    BY <1>13 DEF FinishStop, Return, GoTo, StopsHoldMonitors, TypeOK,
        HistoryIsPast, StartsAreFresh, StartSteps
  <2>4. NoOrphanCore'
    BY <1>13 DEF FinishStop, Return, GoTo, TypeOK, NoOrphanCore, StartHolds,
        StartsAreFresh, StartSteps, TasksFollowCores, StopsHoldMonitors
  <2>5. OneOwnedCore'
    BY <1>13 DEF FinishStop, Return, GoTo, TypeOK, OneOwnedCore, StopHolds,
        MonitorIsCurrent, StartsAreFresh, StartSteps, StopsHoldMonitors
  <2>6. CancelledStaysDown'
    BY <1>13 DEF FinishStop, Return, GoTo, TypeOK, CancelledStaysDown,
        HistoryIsPast
  <2>7. MonitorIsCurrent' /\ TasksFollowCores'
    BY <1>13 DEF FinishStop, MonitorIsCurrent, TasksFollowCores
  <2> QED BY <2>1, <2>2, <2>3, <2>4, <2>5, <2>6, <2>7
<1>14. ASSUME NEW c \in Callers, FinishExternalStart(c) PROVE IInv'
  <2>1. StartsAreFresh'
    BY <1>14 DEF FinishExternalStart, Transition, IsLegal, LegalEdges, Return,
        GoTo, TypeOK, StartsAreFresh, StartSteps, TasksFollowCores
  <2>2. StopsHoldMonitors'
    BY <1>14 DEF FinishExternalStart, Transition, IsLegal, LegalEdges, Return,
        GoTo, TypeOK, StopsHoldMonitors, StartsAreFresh, StartSteps
  <2>3. NoOrphanCore'
    BY <1>14 DEF FinishExternalStart, Transition, IsLegal, LegalEdges, Return,
        GoTo, TypeOK, NoOrphanCore, StartHolds, StartsAreFresh, StartSteps,
        TasksFollowCores, StopsHoldMonitors
  <2>4. OneOwnedCore'
    BY <1>14 DEF FinishExternalStart, Transition, IsLegal, LegalEdges, Return,
        GoTo, TypeOK, OneOwnedCore, StopHolds, MonitorIsCurrent,
        StartsAreFresh, StartSteps, StopsHoldMonitors
  <2>5. CancelledStaysDown'
    BY <1>14 DEF FinishExternalStart, Transition, IsLegal, LegalEdges, Return,
        GoTo, history, TypeOK, CancelledStaysDown, HistoryIsPast
  <2>6. MonitorIsCurrent' /\ TasksFollowCores' /\ HistoryIsPast'
    BY <1>14 DEF FinishExternalStart, history, MonitorIsCurrent,
        TasksFollowCores, HistoryIsPast
  <2> QED BY <2>1, <2>2, <2>3, <2>4, <2>5, <2>6
<1>15. ASSUME NEW c \in Callers, FailExternalStart(c) PROVE IInv'
  <2>1. StartsAreFresh'
    BY <1>15 DEF FailExternalStart, Transition, Return, GoTo, TypeOK,
        StartsAreFresh, StartSteps, TasksFollowCores
  <2>2. StopsHoldMonitors'
    BY <1>15 DEF FailExternalStart, Transition, Return, GoTo, TypeOK,
        StopsHoldMonitors, StartsAreFresh, StartSteps
  <2>3. NoOrphanCore'
    BY <1>15 DEF FailExternalStart, Transition, Return, GoTo, TypeOK,
        NoOrphanCore, StartHolds, StartsAreFresh, StartSteps,
        TasksFollowCores, StopsHoldMonitors
  <2>4. OneOwnedCore'
    BY <1>15 DEF FailExternalStart, Transition, Return, GoTo, TypeOK,
        OneOwnedCore, StopHolds, MonitorIsCurrent, StartsAreFresh, StartSteps,
        StopsHoldMonitors
  <2>5. CancelledStaysDown'
    BY <1>15 DEF FailExternalStart, Transition, Return, GoTo, history, TypeOK,
        CancelledStaysDown, HistoryIsPast
  <2>6. MonitorIsCurrent' /\ TasksFollowCores' /\ HistoryIsPast'
    BY <1>15 DEF FailExternalStart, history, MonitorIsCurrent,
        TasksFollowCores, HistoryIsPast
  <2> QED BY <2>1, <2>2, <2>3, <2>4, <2>5, <2>6
<1>16. ASSUME NEW g \in Gens, MonitorStop(g) PROVE IInv'
  <2>1. StartsAreFresh'
    BY <1>16 DEF MonitorStop, StopRequested, Kill, runtime, TypeOK,
        StartsAreFresh, StartSteps, TasksFollowCores
  <2>2. StopsHoldMonitors'
    BY <1>16 DEF MonitorStop, StopRequested, Kill, runtime, TypeOK,
        StopsHoldMonitors, StartsAreFresh, StartSteps
  <2>3. TasksFollowCores'
    BY <1>16 DEF MonitorStop, StopRequested, Kill, runtime, TypeOK,
        TasksFollowCores, StartsAreFresh, StartSteps
  <2>4. HistoryIsPast'
    BY <1>16 DEF MonitorStop, StopRequested, Kill, runtime, history, TypeOK,
        HistoryIsPast, StartsAreFresh, StartSteps
  <2>5. NoOrphanCore'
    BY <1>16 DEF MonitorStop, StopRequested, Kill, runtime, TypeOK,
        NoOrphanCore, StartHolds, StartsAreFresh, StartSteps,
        TasksFollowCores, StopsHoldMonitors
  <2>6. OneOwnedCore'
    BY <1>16 DEF MonitorStop, StopRequested, Kill, runtime, TypeOK,
        OneOwnedCore, StopHolds, MonitorIsCurrent, StartsAreFresh, StartSteps,
        StopsHoldMonitors
  <2>7. MonitorIsCurrent' /\ CancelledStaysDown'
    BY <1>16 DEF MonitorStop, runtime, history, MonitorIsCurrent,
        CancelledStaysDown
  <2> QED BY <2>1, <2>2, <2>3, <2>4, <2>5, <2>6, <2>7
<1>17. ASSUME NEW g \in Gens, MonitorExit(g) PROVE IInv'
  <2>1. StartsAreFresh'
    BY <1>17 DEF MonitorExit, StopRequested, runtime, TypeOK, StartsAreFresh,
        StartSteps, TasksFollowCores
  <2>2. StopsHoldMonitors'
    BY <1>17 DEF MonitorExit, StopRequested, runtime, TypeOK,
        StopsHoldMonitors, StartsAreFresh, StartSteps
  <2>3. TasksFollowCores'
    BY <1>17 DEF MonitorExit, StopRequested, runtime, TypeOK,
        TasksFollowCores, StartsAreFresh, StartSteps
  <2>4. HistoryIsPast'
    BY <1>17 DEF MonitorExit, StopRequested, runtime, history, TypeOK,
        HistoryIsPast, StartsAreFresh, StartSteps
  <2>5. NoOrphanCore'
    BY <1>17 DEF MonitorExit, StopRequested, runtime, TypeOK, NoOrphanCore,
        StartHolds, StartsAreFresh, StartSteps, TasksFollowCores,
        StopsHoldMonitors
  <2>6. OneOwnedCore'
    BY <1>17 DEF MonitorExit, StopRequested, runtime, TypeOK, OneOwnedCore,
        StopHolds, MonitorIsCurrent, StartsAreFresh, StartSteps,
        StopsHoldMonitors
  <2>7. MonitorIsCurrent' /\ CancelledStaysDown'
    BY <1>17 DEF MonitorExit, runtime, history, MonitorIsCurrent,
        CancelledStaysDown
  <2> QED BY <2>1, <2>2, <2>3, <2>4, <2>5, <2>6, <2>7
<1>18. ASSUME NEW g \in Gens, Report(g) PROVE IInv'
  <2>1. StartsAreFresh'
    BY <1>18 DEF Report, TypeOK, StartsAreFresh, StartSteps, TasksFollowCores
  <2>2. StopsHoldMonitors'
    BY <1>18 DEF Report, TypeOK, StopsHoldMonitors, StartsAreFresh, StartSteps
  <2>3. TasksFollowCores'
    BY <1>18 DEF Report, TypeOK, TasksFollowCores, StartsAreFresh, StartSteps
  <2>4. HistoryIsPast'
    BY <1>18 DEF Report, history, TypeOK, HistoryIsPast, StartsAreFresh,
        StartSteps
  <2>5. NoOrphanCore'
    BY <1>18 DEF Report, TypeOK, NoOrphanCore, StartHolds, StartsAreFresh,
        StartSteps, TasksFollowCores, StopsHoldMonitors
  <2>6. OneOwnedCore'
    BY <1>18 DEF Report, TypeOK, OneOwnedCore, StopHolds, MonitorIsCurrent,
        StartsAreFresh, StartSteps, StopsHoldMonitors
  <2>7. CancelledStaysDown'
    BY <1>18 DEF Report, history, TypeOK, CancelledStaysDown, HistoryIsPast
  <2>8. MonitorIsCurrent'
    BY <1>18 DEF Report, history, MonitorIsCurrent
  <2> QED BY <2>1, <2>2, <2>3, <2>4, <2>5, <2>6, <2>7, <2>8
<1>19. ASSUME NEW g \in Gens, Publish(g) PROVE IInv'
  <2>1. StartsAreFresh'
    BY <1>19 DEF Publish, runtime, TypeOK, StartsAreFresh, StartSteps,
        TasksFollowCores
  <2>2. StopsHoldMonitors'
    BY <1>19 DEF Publish, runtime, TypeOK, StopsHoldMonitors, StartsAreFresh,
        StartSteps
  <2>3. TasksFollowCores'
    BY <1>19 DEF Publish, runtime, TypeOK, TasksFollowCores, StartsAreFresh,
        StartSteps
  <2>4. HistoryIsPast'
    BY <1>19 DEF Publish, runtime, history, TypeOK, HistoryIsPast,
        StartsAreFresh, StartSteps
  <2>5. NoOrphanCore'
    BY <1>19 DEF Publish, runtime, TypeOK, NoOrphanCore, StartHolds,
        StartsAreFresh, StartSteps, TasksFollowCores, StopsHoldMonitors
  <2>6. OneOwnedCore'
    BY <1>19 DEF Publish, runtime, TypeOK, OneOwnedCore, StopHolds,
        MonitorIsCurrent, StartsAreFresh, StartSteps, StopsHoldMonitors
  <2>7. MonitorIsCurrent' /\ CancelledStaysDown'
    BY <1>19 DEF Publish, runtime, history, MonitorIsCurrent,
        CancelledStaysDown
  <2> QED BY <2>1, <2>2, <2>3, <2>4, <2>5, <2>6, <2>7
<1>20. ASSUME NEW g \in Gens, CoreDies(g) PROVE IInv'
  <2>1. TasksFollowCores'
    BY <1>20 DEF CoreDies, runtime, TypeOK, TasksFollowCores, StartsAreFresh,
        StartSteps
  <2>2. NoOrphanCore'
    BY <1>20 DEF CoreDies, runtime, TypeOK, NoOrphanCore, StartHolds,
        StartsAreFresh, StartSteps, TasksFollowCores, StopsHoldMonitors
  <2>3. StartsAreFresh' /\ StopsHoldMonitors' /\ MonitorIsCurrent' /\ HistoryIsPast' /\ OneOwnedCore' /\ CancelledStaysDown'
    BY <1>20 DEF CoreDies, runtime, history, StartsAreFresh,
        StopsHoldMonitors, MonitorIsCurrent, HistoryIsPast, OneOwnedCore,
        CancelledStaysDown, StartSteps, StopHolds
  <2> QED BY <2>1, <2>2, <2>3
<1>21. CASE UNCHANGED vars
    BY <1>21 DEF vars, StartsAreFresh, StartSteps, StopsHoldMonitors,
        MonitorIsCurrent, TasksFollowCores, HistoryIsPast, NoOrphanCore,
        StartHolds, OneOwnedCore, StopHolds, CancelledStaysDown
<1> QED BY <1>1, <1>2, <1>3, <1>4, <1>5, <1>6, <1>7, <1>8, <1>9, <1>10, <1>11,
        <1>12, <1>13, <1>14, <1>15, <1>16, <1>17, <1>18, <1>19, <1>20, <1>21
        DEF Next, StartStep, StopStep, ExternalStep, MonitorStep

(* The initial state satisfies the inductive invariant. *)
LEMMA Initially == Init => IInv
<1> SUFFICES ASSUME Init PROVE IInv OBVIOUS
<1> USE MaxGenAssumption DEF Init, Gens, NoGen
<1>1. TypeOK
    BY DEF TypeOK, EngineStates, ProcStates, TaskStates, CallSteps
<1>2. StartsAreFresh /\ StopsHoldMonitors
    BY DEF StartsAreFresh, StartSteps, StopsHoldMonitors
<1>3. MonitorIsCurrent /\ TasksFollowCores /\ HistoryIsPast
    BY DEF MonitorIsCurrent, TasksFollowCores, HistoryIsPast
<1>4. NoOrphanCore /\ OneOwnedCore /\ CancelledStaysDown
    BY DEF NoOrphanCore, OneOwnedCore, CancelledStaysDown
<1> QED BY <1>1, <1>2, <1>3, <1>4 DEF IInv

(* The inductive invariant holds throughout every behaviour. *)
THEOREM Invariance == Spec => []IInv
<1>1. Init => IInv BY Initially
<1>2. IInv /\ [Next]_vars => IInv' BY Preservation
<1> QED BY <1>1, <1>2, PTL DEF Spec

(* Type correctness of the engine's runtime, its callers and its monitors. *)
THEOREM TypeCorrect == Spec => []TypeOK
<1>1. IInv => TypeOK BY DEF IInv
<1> QED BY <1>1, Invariance, PTL

(* No interleaving of any number of starts and stops leaves a live sidecar  *)
(* that nobody holds or watches (start's early returns, Commit's kill).     *)
THEOREM NoOrphans == Spec => []NoOrphanCore
<1>1. IInv => NoOrphanCore BY DEF IInv
<1> QED BY <1>1, Invariance, PTL

(* At most one sidecar is watched without having been told to stop: the one *)
(* of Runtime.monitor or of the stop that has just taken it.                *)
THEOREM OneOwner == Spec => []OneOwnedCore
<1>1. IInv => OneOwnedCore BY DEF IInv
<1> QED BY <1>1, Invariance, PTL

(* A start that a stop overtook never makes its generation Running.         *)
THEOREM StopCancels == Spec => []CancelledStaysDown
<1>1. IInv => CancelledStaysDown BY DEF IInv
<1> QED BY <1>1, Invariance, PTL

(* stop() returns only when the sidecar it took is dead and its monitor     *)
(* task has ended.                                                          *)
THEOREM StopWaits == Spec => StopReturnsAfterCoreDied
<1>1. ASSUME IInv, [Next]_vars
      PROVE  [\A c \in Callers :
                 pc[c] = "finish" /\ pc'[c] = "ready" /\ held[c] # NoGen
                     => proc[held[c]] = "dead" /\ task[held[c]] = "done"]_vars
  <2> SUFFICES ASSUME NEW c \in Callers, pc[c] = "finish", held[c] # NoGen
               PROVE  proc[held[c]] = "dead" /\ task[held[c]] = "done"
    OBVIOUS
  <2>1. held[c] \in Gens BY <1>1 DEF IInv, TypeOK, Gens, NoGen
  <2>2. task[held[c]] = "done" BY <1>1 DEF IInv, StopsHoldMonitors
  <2> QED BY <1>1, <2>1, <2>2 DEF IInv, TasksFollowCores
<1> QED BY <1>1, Invariance, PTL DEF Spec, StopReturnsAfterCoreDied

(* No exit event of a session is broadcast after the stop that took its     *)
(* monitor has returned.                                                    *)
THEOREM NoLateEvent == Spec => NoEventAfterStopReturned
<1>1. ASSUME IInv, [Next]_vars
      PROVE  [(published' \ published) \cap stopReturned = {}]_vars
  <2>1. ASSUME NEW g \in published' \ published PROVE task[g] = "publishing"
    BY <1>1, <2>1 DEF Next, vars, runtime, history, StartStep, StopStep, ExternalStep,
        MonitorStep, BeginStart, BeginStop, BeginExternalStart, FinishExternalStop,
        StartFailsEarly, Spawn, BecomesReady, NotReady, Reap, Commit, Signal, Join,
        FinishStop, FinishExternalStart, FailExternalStart, MonitorStop, MonitorExit,
        Report, Publish, CoreDies
  <2>2. \A g \in stopReturned : task[g] = "done"
    BY <1>1 DEF IInv, HistoryIsPast
  <2> QED BY <2>1, <2>2
<1> QED BY <1>1, Invariance, PTL DEF Spec, NoEventAfterStopReturned
====
