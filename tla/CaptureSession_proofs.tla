----------------------- MODULE CaptureSession_proofs ------------------------
(***************************************************************************)
(* Proofs about `CaptureSession` for every platform and behaviours of any  *)
(* length.  The inductive invariant says, for each place of the gate's     *)
(* holder, what is still captured there and what the marker says: a start  *)
(* arms only over a clean slate, and a cleanup without errors has let go   *)
(* of everything it could have found.                                      *)
(***************************************************************************)
EXTENDS CaptureSession, TLAPS

(* The operation, its target and its cleanup mode fit the place it is at. *)
OperationFits ==
    /\ pc \in StartPcs => op = "start"
    /\ op = "start" => target # "off"
    /\ pc \in {"cStop", "cJoin"} => cmode # "tun"
    /\ pc = "down" \/ op = "boot" => announced = "idle"
    /\ pc = "uninstall" /\ op = "remove" => announced # "running"

(* From the arming on, memory and disk name the mode that is being started. *)
StartIsArmed ==
    /\ pc \in {"announce", "prepare", "arm"} => mode # "off"
    /\ pc \in {"sidecar", "spawn", "await", "setProxy"}
          => mode = "system" /\ marker = "system"
    /\ pc \in {"external", "prompt", "submit", "tunWait", "adopt"}
          => mode = "tun" /\ marker = "tun"
    /\ pc = "live" => mode # "off" /\ marker = mode /\ (mode = "system" => proxy)
    /\ pc \in {"setProxy", "live"} => engine \in {"running", "failed"}

(* The system proxy is off where a start has not armed yet, and once a     *)
(* cleanup has cleared it without an error.                                *)
ProxyIsCleared ==
    /\ pc \in {"begin", "announce", "prepare", "arm"} => ~proxy
    /\ pc \in CleanPcs \ {"cProxy"} /\ ~cerr => ~proxy
    /\ pc = "uninstall" => ~proxy

(* The same for the helper's session, on Linux: its client reports a stop   *)
(* only when the session is gone.                                           *)
TunIsCleared ==
    /\ mode = "system" => tun = "down"
    /\ ~installed => tun = "down"
    /\ pc \in {"begin", "announce", "prepare", "arm", "sidecar", "spawn", "await",
               "setProxy", "uninstall"} => tun = "down"
    /\ pc \in CleanPcs /\ cmode # "tun" => tun = "down"
    /\ pc \in {"cExternal", "cDone", "after"} /\ ~cerr => tun = "down"
    /\ pc \in {"prompt", "submit", "tunWait", "adopt"} => core = "none"
    /\ MarkerCoversTun
    /\ NoSidecarBesideTun

(* Where the sidecar is gone: the engine is Idle over a live sidecar only   *)
(* while its stop is waiting for the monitor.                               *)
CoreIsStopped ==
    /\ core = "alive" => engine # "idle" \/ pc = "cJoin"
    /\ engine = "stopping" => pc = "cJoin"
    /\ pc = "spawn" => engine \in {"starting", "failed"}
    /\ pc = "down" \/ op = "boot" => core = "none"
    /\ pc \in {"cDone", "after", "uninstall"} => core # "alive"

(* The type invariant in two halves: Boolean variables and the others. *)
SwitchesTyped ==
    /\ proxy \in BOOLEAN
    /\ installed \in BOOLEAN
    /\ orphan \in BOOLEAN
    /\ cerr \in BOOLEAN
    /\ exitEvent \in BOOLEAN

ValuesTyped ==
    /\ marker \in {"none", "system", "tun"}
    /\ tun \in {"down", "pending", "up"}
    /\ engine \in EngineStates
    /\ why \in Reasons
    /\ core \in {"none", "alive", "dead"}
    /\ mode \in Modes
    /\ payload \in EngineStates
    /\ announced \in EngineStates
    /\ clone \in EngineStates \cup {"none"}
    /\ op \in Ops
    /\ pc \in Pcs
    /\ target \in Modes
    /\ cmode \in Modes
    /\ poll \in PollSteps
    /\ pollWhy \in Reasons

IInv ==
    /\ SwitchesTyped
    /\ ValuesTyped
    /\ OperationFits
    /\ StartIsArmed
    /\ ProxyIsCleared
    /\ CoreIsStopped
    /\ MarkerCoversProxy
    /\ ConnectedIsBacked
    /\ Platform = "linux" => TunIsCleared

-----------------------------------------------------------------------------
(* cleanup_mode yields a capture mode whatever memory and disk say. *)
LEMMA CleanupModeTyped == ValuesTyped => CleanupMode \in Modes
  BY DEF ValuesTyped, CleanupMode, Modes

(* The initial states satisfy the inductive invariant. *)
LEMMA Initially == Init => IInv
<1> SUFFICES ASSUME Init PROVE IInv
  OBVIOUS
<1>1. SwitchesTyped
  BY Zenon DEF Init, FreshMemory, SwitchesTyped
<1>2. ValuesTyped
  BY DEF Init, FreshMemory, ValuesTyped, EngineStates, Reasons, Modes, Ops, Pcs,
     PollSteps
<1>3. OperationFits /\ StartIsArmed /\ ProxyIsCleared
  BY DEF Init, FreshMemory, OperationFits, StartIsArmed, ProxyIsCleared, StartPcs
<1>4. MarkerCoversProxy /\ ConnectedIsBacked /\ TunIsCleared
  BY DEF Init, MarkerCoversProxy, ConnectedIsBacked, TunIsCleared, MarkerCoversTun,
     NoSidecarBesideTun
<1>5. CoreIsStopped
  BY DEF Init, FreshMemory, CoreIsStopped
<1> QED
  BY <1>1, <1>2, <1>3, <1>4, <1>5 DEF IInv

(* Every step of the gate's holder, of the tasks beside it, of the helper   *)
(* and of a crash preserves it.                                             *)
THEOREM Preservation == IInv /\ [Next]_vars => IInv'
<1> SUFFICES ASSUME IInv, [Next]_vars PROVE IInv'
  OBVIOUS
<1> USE DEF os, eng, ui, flow, watch, Announce
<1>1. ASSUME NEW m \in {"system", "tun"}, RequestStart(m) PROVE IInv'
  <2>1. SwitchesTyped'
    BY <1>1, Zenon DEF IInv, SwitchesTyped, RequestStart, StartWith
  <2>2. ValuesTyped'
    BY <1>1, CleanupModeTyped, SMTT(20)
       DEF IInv, ValuesTyped, RequestStart, StartWith, Modes, Ops, Pcs, StartPcs,
           CleanPcs
  <2>3. (OperationFits /\ StartIsArmed)'
    BY <1>1, SMTT(20) DEF OperationFits, StartIsArmed, RequestStart, StartWith
  <2>4. (ProxyIsCleared /\ MarkerCoversProxy /\ ConnectedIsBacked)'
    BY <1>1, SMTT(20)
       DEF IInv, ProxyIsCleared, MarkerCoversProxy, ConnectedIsBacked, RequestStart,
           StartWith, CleanupMode, HasPreviousRuntime
  <2>5. (Platform = "linux" => TunIsCleared)'
    BY <1>1, SMTT(20)
       DEF IInv, ValuesTyped, TunIsCleared, MarkerCoversTun, NoSidecarBesideTun,
           RequestStart, StartWith, CleanupMode, HasPreviousRuntime, Modes
  <2>6. CoreIsStopped'
    BY <1>1, SMTT(20)
       DEF IInv, CoreIsStopped, RequestStart, StartWith, HasPreviousRuntime
  <2> QED
    BY <2>1, <2>2, <2>3, <2>4, <2>5, <2>6 DEF IInv
<1>2. ASSUME RequestStop PROVE IInv'
  <2>1. SwitchesTyped'
    BY <1>2, Zenon DEF IInv, SwitchesTyped, RequestStop, Cleanup
  <2>2. ValuesTyped'
    BY <1>2, CleanupModeTyped, SMTT(20)
       DEF IInv, ValuesTyped, RequestStop, Cleanup, Ops, Pcs, CleanPcs, EngineStates
  <2>3. (OperationFits /\ StartIsArmed)'
    BY <1>2, SMTT(20) DEF OperationFits, StartIsArmed, RequestStop, Cleanup, StartPcs
  <2>4. (ProxyIsCleared /\ MarkerCoversProxy /\ ConnectedIsBacked)'
    BY <1>2, SMTT(20)
       DEF IInv, ProxyIsCleared, MarkerCoversProxy, ConnectedIsBacked, RequestStop,
           Cleanup
  <2>5. (Platform = "linux" => TunIsCleared)'
    BY <1>2, SMTT(20)
       DEF IInv, ValuesTyped, TunIsCleared, MarkerCoversTun, NoSidecarBesideTun,
           RequestStop, CleanupMode, Cleanup, Modes
  <2>6. CoreIsStopped'
    BY <1>2, SMTT(20) DEF IInv, CoreIsStopped, RequestStop, Cleanup
  <2> QED
    BY <2>1, <2>2, <2>3, <2>4, <2>5, <2>6 DEF IInv
<1>3. ASSUME RequestUninstall PROVE IInv'
  <2>1. SwitchesTyped'
    BY <1>3, Zenon DEF IInv, SwitchesTyped, RequestUninstall, Cleanup
  <2>2. ValuesTyped'
    BY <1>3, CleanupModeTyped, SMTT(20)
       DEF IInv, ValuesTyped, RequestUninstall, Cleanup, Ops, Pcs, CleanPcs,
           EngineStates
  <2>3. (OperationFits /\ StartIsArmed)'
    BY <1>3, SMTT(20)
       DEF IInv, ConnectedIsBacked, OperationFits, StartIsArmed, RequestUninstall,
           Cleanup, HasPreviousRuntime, StartPcs
  <2>4. (ProxyIsCleared /\ MarkerCoversProxy /\ ConnectedIsBacked)'
    BY <1>3, SMTT(20)
       DEF IInv, ProxyIsCleared, MarkerCoversProxy, ConnectedIsBacked,
           RequestUninstall, CleanupMode, Cleanup, HasPreviousRuntime
  <2>5. (Platform = "linux" => TunIsCleared)'
    BY <1>3, SMTT(20)
       DEF IInv, ValuesTyped, TunIsCleared, MarkerCoversTun, NoSidecarBesideTun,
           RequestUninstall, CleanupMode, Cleanup, HasPreviousRuntime, Modes
  <2>6. CoreIsStopped'
    BY <1>3, SMTT(20)
       DEF IInv, CoreIsStopped, RequestUninstall, Cleanup, HasPreviousRuntime
  <2> QED
    BY <2>1, <2>2, <2>3, <2>4, <2>5, <2>6 DEF IInv
<1>4. ASSUME RequestExit PROVE IInv'
  <2>1. SwitchesTyped'
    BY <1>4, Zenon DEF IInv, SwitchesTyped, RequestExit, Cleanup
  <2>2. ValuesTyped'
    BY <1>4, CleanupModeTyped, SMTT(20)
       DEF IInv, ValuesTyped, RequestExit, Cleanup, Ops, Pcs, CleanPcs
  <2>3. (OperationFits /\ StartIsArmed)'
    BY <1>4, SMTT(20) DEF OperationFits, StartIsArmed, RequestExit, Cleanup, StartPcs
  <2>4. (ProxyIsCleared /\ MarkerCoversProxy /\ ConnectedIsBacked)'
    BY <1>4, SMTT(20)
       DEF IInv, ProxyIsCleared, MarkerCoversProxy, ConnectedIsBacked, RequestExit,
           Cleanup
  <2>5. (Platform = "linux" => TunIsCleared)'
    BY <1>4, SMTT(20)
       DEF IInv, ValuesTyped, TunIsCleared, MarkerCoversTun, NoSidecarBesideTun,
           RequestExit, CleanupMode, Cleanup, Modes
  <2>6. CoreIsStopped'
    BY <1>4, SMTT(20) DEF IInv, CoreIsStopped, RequestExit, Cleanup
  <2> QED
    BY <2>1, <2>2, <2>3, <2>4, <2>5, <2>6 DEF IInv
<1>5. ASSUME BeginCapture PROVE IInv'
  BY <1>5, SMTT(30)
     DEF IInv, CoreIsStopped, SwitchesTyped, ValuesTyped, OperationFits,
         StartIsArmed, ProxyIsCleared, MarkerCoversProxy, ConnectedIsBacked,
         TunIsCleared, MarkerCoversTun, NoSidecarBesideTun, BeginCapture, GoTo, Pcs,
         StartPcs
<1>6. ASSUME AnnounceStarting PROVE IInv'
  BY <1>6, SMTT(30)
     DEF IInv, CoreIsStopped, SwitchesTyped, ValuesTyped, OperationFits,
         StartIsArmed, ProxyIsCleared, MarkerCoversProxy, ConnectedIsBacked,
         TunIsCleared, MarkerCoversTun, NoSidecarBesideTun, AnnounceStarting, GoTo,
         Pcs, StartPcs, EngineStates
<1>7. ASSUME Prepare PROVE IInv'
  <2>1. SwitchesTyped'
    BY <1>7, Zenon DEF IInv, SwitchesTyped, Prepare, GoTo, Undo, Cleanup
  <2>2. ValuesTyped'
    BY <1>7, CleanupModeTyped, SMTT(20)
       DEF IInv, ValuesTyped, Prepare, GoTo, Undo, Cleanup, Ops, Pcs, StartPcs,
           CleanPcs
  <2>3. (OperationFits /\ StartIsArmed)'
    BY <1>7, SMTT(20)
       DEF IInv, OperationFits, StartIsArmed, Prepare, GoTo, Undo, Cleanup, StartPcs
  <2>4. (ProxyIsCleared /\ MarkerCoversProxy /\ ConnectedIsBacked)'
    BY <1>7, SMTT(20)
       DEF IInv, ProxyIsCleared, MarkerCoversProxy, ConnectedIsBacked, Prepare, GoTo,
           Undo, Cleanup
  <2>5. (Platform = "linux" => TunIsCleared)'
    BY <1>7, SMTT(20)
       DEF IInv, TunIsCleared, MarkerCoversTun, NoSidecarBesideTun, Prepare, GoTo,
           Undo, Cleanup
  <2>6. CoreIsStopped'
    BY <1>7, SMTT(20) DEF IInv, CoreIsStopped, Prepare, GoTo, Undo, Cleanup
  <2> QED
    BY <2>1, <2>2, <2>3, <2>4, <2>5, <2>6 DEF IInv
<1>8. ASSUME Arm PROVE IInv'
  <2>1. SwitchesTyped'
    BY <1>8, Zenon DEF IInv, SwitchesTyped, Arm, GoTo, Undo, Cleanup
  <2>2. ValuesTyped'
    BY <1>8, CleanupModeTyped, SMTT(20)
       DEF IInv, ValuesTyped, StartIsArmed, Arm, WriteMarker, GoTo, Undo, Cleanup,
           Modes, Ops, Pcs, StartPcs, CleanPcs
  <2>3. (OperationFits /\ StartIsArmed)'
    BY <1>8, SMTT(20)
       DEF IInv, ValuesTyped, OperationFits, StartIsArmed, Arm, WriteMarker, GoTo,
           Undo, Cleanup, Modes, StartPcs
  <2>4. (ProxyIsCleared /\ MarkerCoversProxy /\ ConnectedIsBacked)'
    BY <1>8, SMTT(20)
       DEF IInv, ProxyIsCleared, MarkerCoversProxy, ConnectedIsBacked, Arm, GoTo,
           Undo, Cleanup
  <2>5. (Platform = "linux" => TunIsCleared)'
    BY <1>8, SMTT(20)
       DEF IInv, TunIsCleared, MarkerCoversTun, NoSidecarBesideTun, Arm, GoTo, Undo,
           Cleanup
  <2>6. CoreIsStopped'
    BY <1>8, SMTT(20) DEF IInv, CoreIsStopped, Arm, WriteMarker, GoTo, Undo, Cleanup
  <2> QED
    BY <2>1, <2>2, <2>3, <2>4, <2>5, <2>6 DEF IInv
<1>9. ASSUME BeginSidecar PROVE IInv'
  <2>1. SwitchesTyped'
    BY <1>9, Zenon DEF IInv, SwitchesTyped, BeginSidecar, GoTo, Undo, Cleanup
  <2>2. ValuesTyped'
    BY <1>9, CleanupModeTyped, SMTT(20)
       DEF IInv, ValuesTyped, BeginSidecar, EngineTo, GoTo, Undo, Cleanup, Reasons,
           Ops, Pcs, StartPcs, CleanPcs, EngineStates
  <2>3. (OperationFits /\ StartIsArmed)'
    BY <1>9, SMTT(20)
       DEF IInv, OperationFits, StartIsArmed, BeginSidecar, GoTo, Undo, Cleanup,
           StartPcs
  <2>4. (ProxyIsCleared /\ MarkerCoversProxy /\ ConnectedIsBacked)'
    BY <1>9, SMTT(20)
       DEF IInv, ProxyIsCleared, MarkerCoversProxy, ConnectedIsBacked, BeginSidecar,
           GoTo, Undo, Cleanup, CleanPcs
  <2>5. (Platform = "linux" => TunIsCleared)'
    BY <1>9, SMTT(20)
       DEF IInv, TunIsCleared, MarkerCoversTun, NoSidecarBesideTun, BeginSidecar,
           Undo, Cleanup
  <2>6. CoreIsStopped'
    BY <1>9, SMTT(20)
       DEF IInv, CoreIsStopped, BeginSidecar, EngineTo, GoTo, Undo, Cleanup
  <2> QED
    BY <2>1, <2>2, <2>3, <2>4, <2>5, <2>6 DEF IInv
<1>10. ASSUME SpawnSidecar PROVE IInv'
  <2>1. SwitchesTyped'
    BY <1>10, Zenon DEF IInv, SwitchesTyped, SpawnSidecar, GoTo, Undo, Cleanup
  <2>2. ValuesTyped'
    BY <1>10, CleanupModeTyped, SMTT(20)
       DEF IInv, ValuesTyped, SpawnSidecar, FailEngine, Transition, GoTo, Undo,
           Cleanup, Reasons, Ops, Pcs, StartPcs, CleanPcs, EngineStates
  <2>3. (OperationFits /\ StartIsArmed)'
    BY <1>10, SMTT(20)
       DEF IInv, OperationFits, StartIsArmed, SpawnSidecar, GoTo, Undo, Cleanup,
           StartPcs
  <2>4. (ProxyIsCleared /\ MarkerCoversProxy /\ ConnectedIsBacked)'
    BY <1>10, SMTT(20)
       DEF IInv, ProxyIsCleared, MarkerCoversProxy, ConnectedIsBacked, SpawnSidecar,
           GoTo, Undo, Cleanup, CleanPcs
  <2>5. (Platform = "linux" => TunIsCleared)'
    BY <1>10, SMTT(20)
       DEF IInv, TunIsCleared, MarkerCoversTun, NoSidecarBesideTun, SpawnSidecar,
           GoTo, Undo, Cleanup
  <2>6. CoreIsStopped'
    <3>1. CASE FailEngine("start") /\ Undo /\ UNCHANGED core
      BY <1>10, <3>1, SMTT(20)
         DEF IInv, CoreIsStopped, SpawnSidecar, FailEngine, Transition, IsLegal,
             LegalEdges, Undo, Cleanup, OperationFits, StartPcs
    <3>2. CASE core' = "alive" /\ GoTo("await") /\ UNCHANGED <<engine, why>>
      BY <1>10, <3>2, SMTT(20)
         DEF IInv, CoreIsStopped, SpawnSidecar, GoTo, OperationFits, StartPcs
    <3> QED
      BY <1>10, <3>1, <3>2 DEF SpawnSidecar
  <2> QED
    BY <2>1, <2>2, <2>3, <2>4, <2>5, <2>6 DEF IInv
<1>11. ASSUME AwaitSidecar PROVE IInv'
  <2>1. SwitchesTyped'
    BY <1>11, Zenon DEF IInv, SwitchesTyped, AwaitSidecar, GoTo, Undo, Cleanup
  <2>2. ValuesTyped'
    BY <1>11, CleanupModeTyped, SMTT(20)
       DEF IInv, ValuesTyped, AwaitSidecar, FailEngine, Transition, EngineTo, GoTo,
           Undo, Cleanup, Reasons, Ops, Pcs, StartPcs, CleanPcs, EngineStates
  <2>3. (OperationFits /\ StartIsArmed)'
    BY <1>11, SMTT(20)
       DEF IInv, OperationFits, StartIsArmed, AwaitSidecar, EngineTo, GoTo, Undo,
           Cleanup, StartPcs
  <2>4. (ProxyIsCleared /\ MarkerCoversProxy /\ ConnectedIsBacked)'
    BY <1>11, SMTT(20)
       DEF IInv, ProxyIsCleared, MarkerCoversProxy, ConnectedIsBacked, AwaitSidecar,
           GoTo, Undo, Cleanup, CleanPcs
  <2>5. (Platform = "linux" => TunIsCleared)'
    BY <1>11, SMTT(20)
       DEF IInv, TunIsCleared, MarkerCoversTun, NoSidecarBesideTun, AwaitSidecar,
           GoTo
  <2>6. CoreIsStopped'
    BY <1>11, SMTT(20)
       DEF IInv, CoreIsStopped, AwaitSidecar, FailEngine, Transition, EngineTo, GoTo,
           Undo, Cleanup, IsLegal, LegalEdges
  <2> QED
    BY <2>1, <2>2, <2>3, <2>4, <2>5, <2>6 DEF IInv
<1>12. ASSUME SetSystemProxy PROVE IInv'
  <2>1. SwitchesTyped'
    BY <1>12, Zenon DEF IInv, SwitchesTyped, SetSystemProxy, GoTo, Undo, Cleanup
  <2>2. ValuesTyped'
    BY <1>12, CleanupModeTyped, SMTT(20)
       DEF IInv, ValuesTyped, SetSystemProxy, GoTo, Undo, Cleanup, Ops, Pcs,
           StartPcs, CleanPcs
  <2>3. (OperationFits /\ StartIsArmed)'
    BY <1>12, SMTT(20)
       DEF IInv, OperationFits, StartIsArmed, SetSystemProxy, GoTo, Undo, Cleanup,
           StartPcs
  <2>4. (ProxyIsCleared /\ MarkerCoversProxy /\ ConnectedIsBacked)'
    BY <1>12, SMTT(20)
       DEF IInv, StartIsArmed, ProxyIsCleared, MarkerCoversProxy, ConnectedIsBacked,
           SetSystemProxy, GoTo, Undo, Cleanup, CleanPcs
  <2>5. (Platform = "linux" => TunIsCleared)'
    BY <1>12, SMTT(20)
       DEF IInv, TunIsCleared, MarkerCoversTun, NoSidecarBesideTun, SetSystemProxy,
           GoTo, Undo, Cleanup
  <2>6. CoreIsStopped'
    BY <1>12, SMTT(20) DEF IInv, CoreIsStopped, SetSystemProxy, GoTo, Undo, Cleanup
  <2> QED
    BY <2>1, <2>2, <2>3, <2>4, <2>5, <2>6 DEF IInv
<1>13. ASSUME BeginExternalStart PROVE IInv'
  <2>1. SwitchesTyped'
    BY <1>13, Zenon
       DEF IInv, SwitchesTyped, BeginExternalStart, HelperSteps, GoTo, Undo, Cleanup
  <2>2. ValuesTyped'
    BY <1>13, CleanupModeTyped, SMTT(20)
       DEF IInv, ValuesTyped, BeginExternalStart, HelperSteps, EngineTo, GoTo, Undo,
           Cleanup,
           Reasons, Ops, Pcs, StartPcs, CleanPcs, EngineStates
  <2>3. (OperationFits /\ StartIsArmed)'
    BY <1>13, SMTT(20)
       DEF IInv, OperationFits, StartIsArmed, BeginExternalStart, HelperSteps, GoTo,
           Undo,
           Cleanup, StartPcs
  <2>4. (ProxyIsCleared /\ MarkerCoversProxy /\ ConnectedIsBacked)'
    BY <1>13, SMTT(20)
       DEF IInv, StartIsArmed, ProxyIsCleared, MarkerCoversProxy, ConnectedIsBacked,
           BeginExternalStart, HelperSteps, GoTo, Undo, Cleanup
  <2>5. (Platform = "linux" => TunIsCleared)'
    BY <1>13, SMTT(20)
       DEF IInv, StartIsArmed, TunIsCleared, MarkerCoversTun, NoSidecarBesideTun,
           BeginExternalStart, HelperSteps, GoTo, Undo, Cleanup, CleanupMode, CleanPcs
  <2>6. CoreIsStopped'
    BY <1>13, SMTT(20)
       DEF IInv, CoreIsStopped, BeginExternalStart, HelperSteps, EngineTo, GoTo,
           Undo, Cleanup
  <2> QED
    BY <2>1, <2>2, <2>3, <2>4, <2>5, <2>6 DEF IInv
<1>14. ASSUME SubmitTun PROVE IInv'
  <2>1. SwitchesTyped'
    BY <1>14, Zenon DEF IInv, SwitchesTyped, SubmitTun, GoTo, Undo, Cleanup
  <2>2. ValuesTyped'
    BY <1>14, CleanupModeTyped, SMTT(20)
       DEF IInv, ValuesTyped, SubmitTun, FailEngine, Transition, GoTo, Undo, Cleanup,
           Reasons, Ops, Pcs, StartPcs, CleanPcs, EngineStates
  <2>3. (OperationFits /\ StartIsArmed)'
    BY <1>14, SMTT(20)
       DEF IInv, OperationFits, StartIsArmed, SubmitTun, GoTo, Undo, Cleanup,
           StartPcs
  <2>4. (ProxyIsCleared /\ MarkerCoversProxy /\ ConnectedIsBacked)'
    BY <1>14, SMTT(20)
       DEF IInv, StartIsArmed, ProxyIsCleared, MarkerCoversProxy, ConnectedIsBacked,
           SubmitTun, GoTo, Undo, Cleanup
  <2>5. (Platform = "linux" => TunIsCleared)'
    BY <1>14, SMTT(20)
       DEF IInv, StartIsArmed, TunIsCleared, MarkerCoversTun, NoSidecarBesideTun,
           SubmitTun, GoTo, Undo, Cleanup, CleanupMode, CleanPcs
  <2>6. CoreIsStopped'
    BY <1>14, SMTT(20)
       DEF IInv, CoreIsStopped, SubmitTun, FailEngine, Transition, GoTo, Undo,
           Cleanup, IsLegal, LegalEdges
  <2> QED
    BY <2>1, <2>2, <2>3, <2>4, <2>5, <2>6 DEF IInv
<1>15. ASSUME AwaitTun PROVE IInv'
  <2>1. SwitchesTyped'
    BY <1>15, Zenon DEF IInv, SwitchesTyped, AwaitTun, GoTo, Undo, Cleanup
  <2>2. ValuesTyped'
    BY <1>15, CleanupModeTyped, SMTT(20)
       DEF IInv, ValuesTyped, AwaitTun, FailEngine, Transition, GoTo, Undo, Cleanup,
           Reasons, Ops, Pcs, StartPcs, CleanPcs, EngineStates
  <2>3. (OperationFits /\ StartIsArmed)'
    BY <1>15, SMTT(20)
       DEF IInv, OperationFits, StartIsArmed, AwaitTun, GoTo, Undo, Cleanup, StartPcs
  <2>4. (ProxyIsCleared /\ MarkerCoversProxy /\ ConnectedIsBacked)'
    BY <1>15, SMTT(20)
       DEF IInv, StartIsArmed, ProxyIsCleared, MarkerCoversProxy, ConnectedIsBacked,
           AwaitTun, GoTo, Undo, Cleanup
  <2>5. (Platform = "linux" => TunIsCleared)'
    BY <1>15, SMTT(20)
       DEF IInv, StartIsArmed, TunIsCleared, MarkerCoversTun, NoSidecarBesideTun,
           AwaitTun, GoTo, Undo, Cleanup, CleanupMode, CleanPcs
  <2>6. CoreIsStopped'
    BY <1>15, SMTT(20)
       DEF IInv, CoreIsStopped, AwaitTun, HelperFailsOrIsLate, FailEngine,
           Transition, GoTo, Undo, Cleanup, IsLegal, LegalEdges
  <2> QED
    BY <2>1, <2>2, <2>3, <2>4, <2>5, <2>6 DEF IInv
<1>16. ASSUME AdoptTun PROVE IInv'
  <2>1. SwitchesTyped'
    BY <1>16, Zenon DEF IInv, SwitchesTyped, AdoptTun, GoTo, Undo, Cleanup
  <2>2. ValuesTyped'
    BY <1>16, CleanupModeTyped, SMTT(20)
       DEF IInv, ValuesTyped, AdoptTun, EngineTo, GoTo, Undo, Cleanup, Reasons, Ops,
           Pcs, StartPcs, CleanPcs, EngineStates
  <2>3. (OperationFits /\ StartIsArmed)'
    BY <1>16, SMTT(20)
       DEF IInv, OperationFits, StartIsArmed, AdoptTun, EngineTo, GoTo, Undo,
           Cleanup, StartPcs
  <2>4. (ProxyIsCleared /\ MarkerCoversProxy /\ ConnectedIsBacked)'
    BY <1>16, SMTT(20)
       DEF IInv, StartIsArmed, ProxyIsCleared, MarkerCoversProxy, ConnectedIsBacked,
           AdoptTun, EngineTo, Undo, Cleanup
  <2>5. (Platform = "linux" => TunIsCleared)'
    BY <1>16, SMTT(20)
       DEF IInv, StartIsArmed, TunIsCleared, MarkerCoversTun, NoSidecarBesideTun,
           AdoptTun, GoTo, Undo, Cleanup, CleanupMode, CleanPcs
  <2>6. CoreIsStopped'
    BY <1>16, SMTT(20) DEF IInv, CoreIsStopped, AdoptTun, EngineTo, GoTo, Undo, Cleanup
  <2> QED
    BY <2>1, <2>2, <2>3, <2>4, <2>5, <2>6 DEF IInv
<1>17. ASSUME AnnounceRunning PROVE IInv'
  <2>1. SwitchesTyped'
    BY <1>17, Zenon DEF IInv, SwitchesTyped, AnnounceRunning, Release
  <2>2. ValuesTyped'
    BY <1>17, SMTT(20)
       DEF IInv, ValuesTyped, AnnounceRunning, Release, Modes, Ops, Pcs, EngineStates
  <2>3. (OperationFits /\ StartIsArmed)'
    BY <1>17, SMTT(20)
       DEF OperationFits, StartIsArmed, AnnounceRunning, Release, StartPcs
  <2>4. (ProxyIsCleared /\ MarkerCoversProxy /\ ConnectedIsBacked)'
    BY <1>17, SMTT(20)
       DEF IInv, StartIsArmed, ProxyIsCleared, MarkerCoversProxy, ConnectedIsBacked,
           AnnounceRunning, Release, CleanPcs
  <2>5. (Platform = "linux" => TunIsCleared)'
    BY <1>17, SMTT(20)
       DEF IInv, TunIsCleared, MarkerCoversTun, NoSidecarBesideTun, AnnounceRunning,
           Release, CleanPcs
  <2>6. CoreIsStopped'
    BY <1>17, SMTT(20) DEF IInv, CoreIsStopped, AnnounceRunning, Release
  <2> QED
    BY <2>1, <2>2, <2>3, <2>4, <2>5, <2>6 DEF IInv
<1>18. ASSUME CleanupProxy PROVE IInv'
  <2>1. SwitchesTyped'
    BY <1>18, Zenon DEF IInv, SwitchesTyped, CleanupProxy
  <2>2. ValuesTyped'
    BY <1>18, SMTT(20) DEF IInv, ValuesTyped, CleanupProxy, Pcs, CleanPcs
  <2>3. (OperationFits /\ StartIsArmed)'
    BY <1>18, SMTT(20) DEF IInv, OperationFits, StartIsArmed, CleanupProxy, StartPcs
  <2>4. (ProxyIsCleared /\ MarkerCoversProxy /\ ConnectedIsBacked)'
    BY <1>18, SMTT(20)
       DEF IInv, ProxyIsCleared, MarkerCoversProxy, ConnectedIsBacked, CleanupProxy
  <2>5. (Platform = "linux" => TunIsCleared)'
    BY <1>18, SMTT(20)
       DEF IInv, ValuesTyped, TunIsCleared, MarkerCoversTun, NoSidecarBesideTun,
           CleanupProxy, Pcs, StartPcs
  <2>6. CoreIsStopped'
    BY <1>18, SMTT(20) DEF IInv, CoreIsStopped, CleanupProxy
  <2> QED
    BY <2>1, <2>2, <2>3, <2>4, <2>5, <2>6 DEF IInv
<1>19. ASSUME CleanupTun PROVE IInv'
  <2>1. SwitchesTyped'
    BY <1>19, Zenon DEF IInv, SwitchesTyped, CleanupTun
  <2>2. ValuesTyped'
    BY <1>19, SMTT(20) DEF IInv, ValuesTyped, CleanupTun, StopTunOk, Pcs, CleanPcs
  <2>3. (OperationFits /\ StartIsArmed)'
    BY <1>19, SMTT(20) DEF IInv, OperationFits, StartIsArmed, CleanupTun, StartPcs
  <2>4. (ProxyIsCleared /\ MarkerCoversProxy /\ ConnectedIsBacked)'
    BY <1>19, SMTT(20)
       DEF IInv, ValuesTyped, ProxyIsCleared, MarkerCoversProxy, ConnectedIsBacked,
           CleanupTun, Pcs, StartPcs
  <2>5. (Platform = "linux" => TunIsCleared)'
    BY <1>19, SMTT(20)
       DEF IInv, ValuesTyped, TunIsCleared, MarkerCoversTun, NoSidecarBesideTun,
           CleanupTun, StopTunOk, Pcs, StartPcs
  <2>6. CoreIsStopped'
    BY <1>19, SMTT(20) DEF IInv, CoreIsStopped, CleanupTun, StopTunOk
  <2> QED
    BY <2>1, <2>2, <2>3, <2>4, <2>5, <2>6 DEF IInv
<1>20. ASSUME CleanupExternal PROVE IInv'
  <2>1. (SwitchesTyped /\ OperationFits /\ StartIsArmed)'
    BY <1>20, SMTT(20)
       DEF IInv, SwitchesTyped, OperationFits, StartIsArmed, CleanupExternal, GoTo,
           StartPcs
  <2>2. ValuesTyped'
    BY <1>20, SMTT(20)
       DEF IInv, ValuesTyped, CleanupExternal, EngineTo, Transition, GoTo, Pcs,
           CleanPcs, Reasons, EngineStates
  <2>3. (ProxyIsCleared /\ MarkerCoversProxy /\ ConnectedIsBacked)'
    BY <1>20, SMTT(20)
       DEF IInv, ProxyIsCleared, MarkerCoversProxy, ConnectedIsBacked,
           CleanupExternal, GoTo, CleanPcs
  <2>4. (Platform = "linux" => TunIsCleared)'
    BY <1>20, SMTT(20)
       DEF IInv, TunIsCleared, MarkerCoversTun, NoSidecarBesideTun, CleanupExternal,
           GoTo, CleanPcs
  <2>5. CoreIsStopped'
    <3>1. engine' # "stopping"
      BY <1>20, SMTT(20)
         DEF IInv, ValuesTyped, EngineStates, CleanupExternal, EngineTo, Transition,
             IsLegal, LegalEdges
    <3> QED
      BY <1>20, <3>1, SMTT(20)
         DEF IInv, CoreIsStopped, OperationFits, CleanupExternal, GoTo
  <2> QED
    BY <2>1, <2>2, <2>3, <2>4, <2>5 DEF IInv
<1>21. ASSUME CleanupStop PROVE IInv'
  <2>1. SwitchesTyped'
    BY <1>21, Zenon DEF IInv, SwitchesTyped, CleanupStop
  <2>2. ValuesTyped'
    BY <1>21, SMTT(20)
       DEF IInv, ValuesTyped, CleanupStop, EngineTo, Reasons, Pcs, CleanPcs,
           EngineStates
  <2>3. (OperationFits /\ StartIsArmed)'
    BY <1>21, SMTT(20) DEF IInv, OperationFits, StartIsArmed, CleanupStop, StartPcs
  <2>4. (ProxyIsCleared /\ MarkerCoversProxy /\ ConnectedIsBacked)'
    BY <1>21, SMTT(20)
       DEF IInv, ValuesTyped, ProxyIsCleared, MarkerCoversProxy, ConnectedIsBacked,
           CleanupStop, Pcs, StartPcs
  <2>5. (Platform = "linux" => TunIsCleared)'
    BY <1>21, SMTT(20)
       DEF IInv, ValuesTyped, OperationFits, TunIsCleared, MarkerCoversTun,
           NoSidecarBesideTun, CleanupStop, Pcs, StartPcs
  <2>6. CoreIsStopped'
    BY <1>21, SMTT(20) DEF IInv, CoreIsStopped, CleanupStop, EngineTo
  <2> QED
    BY <2>1, <2>2, <2>3, <2>4, <2>5, <2>6 DEF IInv
<1>22. ASSUME CleanupJoin PROVE IInv'
  BY <1>22, SMTT(30)
     DEF IInv, CoreIsStopped, SwitchesTyped, ValuesTyped, OperationFits,
         StartIsArmed, ProxyIsCleared, MarkerCoversProxy, ConnectedIsBacked,
         TunIsCleared, MarkerCoversTun, NoSidecarBesideTun, CleanupJoin, EngineTo,
         GoTo, Reasons, Pcs, StartPcs, CleanPcs, EngineStates
<1>23. ASSUME FinishCleanup PROVE IInv'
  BY <1>23, SMTT(30)
     DEF IInv, CoreIsStopped, SwitchesTyped, ValuesTyped, OperationFits,
         StartIsArmed, ProxyIsCleared, MarkerCoversProxy, ConnectedIsBacked,
         TunIsCleared, MarkerCoversTun, NoSidecarBesideTun, FinishCleanup,
         MarkersAfterCleanup, StartGoesOn, GoTo, Modes, Pcs, StartPcs, CleanPcs
<1>24. ASSUME AfterCleanup PROVE IInv'
  <2>1. SwitchesTyped'
    BY <1>24, Zenon DEF IInv, SwitchesTyped, AfterCleanup, GoTo, Release
  <2>2. ValuesTyped'
    BY <1>24, SMTT(20)
       DEF IInv, ValuesTyped, AfterCleanup, Outcome, Silent, GoTo, Release,
           Modes, Ops, Pcs, PollSteps, EngineStates
  <2>3. (OperationFits /\ StartIsArmed)'
    BY <1>24, SMTT(20)
       DEF OperationFits, StartIsArmed, AfterCleanup, GoTo, Release, StartPcs
  <2>4. (ProxyIsCleared /\ MarkerCoversProxy /\ ConnectedIsBacked)'
    BY <1>24, SMTT(20)
       DEF IInv, OperationFits, ProxyIsCleared, MarkerCoversProxy, ConnectedIsBacked,
           AfterCleanup, Outcome, Silent, GoTo, Release, CleanPcs
  <2>5. (Platform = "linux" => TunIsCleared)'
    BY <1>24, SMTT(20)
       DEF IInv, TunIsCleared, MarkerCoversTun, NoSidecarBesideTun, AfterCleanup,
           GoTo, Release, CleanPcs
  <2>6. CoreIsStopped'
    BY <1>24, SMTT(20)
       DEF IInv, CoreIsStopped, AfterCleanup, Outcome, Silent, GoTo, Release
  <2> QED
    BY <2>1, <2>2, <2>3, <2>4, <2>5, <2>6 DEF IInv
<1>25. ASSUME Terminate PROVE IInv'
  <2>1. SwitchesTyped'
    BY <1>25, Zenon DEF IInv, SwitchesTyped, Terminate, ForgetMemory
  <2>2. ValuesTyped'
    BY <1>25, SMTT(20)
       DEF IInv, ValuesTyped, Terminate, ForgetMemory, Modes, Reasons, Ops, Pcs,
           PollSteps, EngineStates
  <2>3. (OperationFits /\ StartIsArmed)'
    BY <1>25, SMTT(20)
       DEF OperationFits, StartIsArmed, Terminate, ForgetMemory, StartPcs
  <2>4. (ProxyIsCleared /\ MarkerCoversProxy /\ ConnectedIsBacked)'
    BY <1>25, SMTT(20)
       DEF IInv, ProxyIsCleared, MarkerCoversProxy, ConnectedIsBacked, Terminate,
           CleanPcs
  <2>5. (Platform = "linux" => TunIsCleared)'
    BY <1>25, SMTT(20)
       DEF IInv, TunIsCleared, MarkerCoversTun, NoSidecarBesideTun, Terminate,
           ForgetMemory, CleanPcs
  <2>6. CoreIsStopped'
    BY <1>25, SMTT(20) DEF IInv, CoreIsStopped, Terminate, ForgetMemory
  <2> QED
    BY <2>1, <2>2, <2>3, <2>4, <2>5, <2>6 DEF IInv
<1>26. ASSUME Uninstall PROVE IInv'
  <2>1. SwitchesTyped'
    BY <1>26, Zenon DEF IInv, SwitchesTyped, Uninstall, Release
  <2>2. ValuesTyped'
    BY <1>26, SMTT(20)
       DEF IInv, ValuesTyped, Uninstall, Release, Modes, Ops, Pcs, EngineStates
  <2>3. (OperationFits /\ StartIsArmed)'
    BY <1>26, SMTT(20) DEF OperationFits, StartIsArmed, Uninstall, Release, StartPcs
  <2>4. (ProxyIsCleared /\ MarkerCoversProxy /\ ConnectedIsBacked)'
    BY <1>26, SMTT(20)
       DEF IInv, OperationFits, ProxyIsCleared, MarkerCoversProxy, ConnectedIsBacked,
           Uninstall, Release, CleanPcs
  <2>5. (Platform = "linux" => TunIsCleared)'
    BY <1>26, SMTT(20)
       DEF IInv, TunIsCleared, MarkerCoversTun, NoSidecarBesideTun, Uninstall,
           Release
  <2>6. CoreIsStopped'
    BY <1>26, SMTT(20) DEF IInv, CoreIsStopped, Uninstall, Release
  <2> QED
    BY <2>1, <2>2, <2>3, <2>4, <2>5, <2>6 DEF IInv
<1>27. ASSUME MonitorReports PROVE IInv'
  BY <1>27, SMTT(30)
     DEF IInv, CoreIsStopped, SwitchesTyped, ValuesTyped, OperationFits,
         StartIsArmed, ProxyIsCleared, MarkerCoversProxy, ConnectedIsBacked,
         TunIsCleared, MarkerCoversTun, NoSidecarBesideTun, MonitorReports,
         FailEngine, Transition, Reasons, EngineStates
<1>28. ASSUME ListenerHandles PROVE IInv'
  <2>1. SwitchesTyped'
    BY <1>28, Zenon DEF IInv, SwitchesTyped, ListenerHandles, HandleFailure, Cleanup
  <2>2. ValuesTyped'
    BY <1>28, CleanupModeTyped, SMTT(20)
       DEF IInv, ValuesTyped, ListenerHandles, HandleFailure, Cleanup, Ops, Pcs,
           CleanPcs
  <2>3. (OperationFits /\ StartIsArmed)'
    BY <1>28, SMTT(20)
       DEF IInv, OperationFits, StartIsArmed, ListenerHandles, HandleFailure,
           Cleanup, StartPcs
  <2>4. (ProxyIsCleared /\ MarkerCoversProxy /\ ConnectedIsBacked)'
    BY <1>28, SMTT(20)
       DEF IInv, ProxyIsCleared, MarkerCoversProxy, ConnectedIsBacked,
           ListenerHandles, HandleFailure, Cleanup
  <2>5. (Platform = "linux" => TunIsCleared)'
    BY <1>28, SMTT(20)
       DEF IInv, ValuesTyped, TunIsCleared, MarkerCoversTun, NoSidecarBesideTun,
           ListenerHandles, HandleFailure, Cleanup, CleanupMode, Modes
  <2>6. CoreIsStopped'
    BY <1>28, SMTT(20)
       DEF IInv, CoreIsStopped, ListenerHandles, HandleFailure, StillFailed, Cleanup
  <2> QED
    BY <2>1, <2>2, <2>3, <2>4, <2>5, <2>6 DEF IInv
<1>29. ASSUME PollPayload PROVE IInv'
  BY <1>29, SMTT(30)
     DEF IInv, CoreIsStopped, SwitchesTyped, ValuesTyped, OperationFits,
         StartIsArmed, ProxyIsCleared, MarkerCoversProxy, ConnectedIsBacked,
         TunIsCleared, MarkerCoversTun, NoSidecarBesideTun, PollPayload, PollSteps
<1>30. ASSUME PollMode PROVE IInv'
  BY <1>30, SMTT(30)
     DEF IInv, CoreIsStopped, SwitchesTyped, ValuesTyped, OperationFits,
         StartIsArmed, ProxyIsCleared, MarkerCoversProxy, ConnectedIsBacked,
         TunIsCleared, MarkerCoversTun, NoSidecarBesideTun, PollMode, PollSteps
<1>31. ASSUME PollProbe PROVE IInv'
  BY <1>31, SMTT(30)
     DEF IInv, CoreIsStopped, SwitchesTyped, ValuesTyped, OperationFits,
         StartIsArmed, ProxyIsCleared, MarkerCoversProxy, ConnectedIsBacked,
         TunIsCleared, MarkerCoversTun, NoSidecarBesideTun, PollProbe, PollSteps
<1>32. ASSUME PollFails PROVE IInv'
  BY <1>32, SMTT(30)
     DEF IInv, CoreIsStopped, SwitchesTyped, ValuesTyped, OperationFits,
         StartIsArmed, ProxyIsCleared, MarkerCoversProxy, ConnectedIsBacked,
         TunIsCleared, MarkerCoversTun, NoSidecarBesideTun, PollFails, FailEngine,
         Transition, Reasons, PollSteps, EngineStates
<1>33. ASSUME PollRaw PROVE IInv'
  BY <1>33, SMTT(30)
     DEF IInv, CoreIsStopped, SwitchesTyped, ValuesTyped, OperationFits,
         StartIsArmed, ProxyIsCleared, MarkerCoversProxy, ConnectedIsBacked,
         TunIsCleared, MarkerCoversTun, NoSidecarBesideTun, PollRaw, PollSteps
<1>34. ASSUME PollHandles PROVE IInv'
  <2>1. SwitchesTyped'
    BY <1>34, Zenon DEF IInv, SwitchesTyped, PollHandles, HandleFailure, Cleanup
  <2>2. ValuesTyped'
    BY <1>34, CleanupModeTyped, SMTT(20)
       DEF IInv, ValuesTyped, PollHandles, HandleFailure, Cleanup, Reasons, Ops, Pcs,
           CleanPcs, PollSteps
  <2>3. (OperationFits /\ StartIsArmed)'
    BY <1>34, SMTT(20)
       DEF IInv, OperationFits, StartIsArmed, PollHandles, HandleFailure, Cleanup,
           StartPcs
  <2>4. (ProxyIsCleared /\ MarkerCoversProxy /\ ConnectedIsBacked)'
    BY <1>34, SMTT(20)
       DEF IInv, ProxyIsCleared, MarkerCoversProxy, ConnectedIsBacked, PollHandles,
           HandleFailure, Cleanup
  <2>5. (Platform = "linux" => TunIsCleared)'
    BY <1>34, SMTT(20)
       DEF IInv, ValuesTyped, TunIsCleared, MarkerCoversTun, NoSidecarBesideTun,
           PollHandles, HandleFailure, Cleanup, CleanupMode, Modes
  <2>6. CoreIsStopped'
    BY <1>34, SMTT(20)
       DEF IInv, CoreIsStopped, PollHandles, HandleFailure, StillFailed, Cleanup
  <2> QED
    BY <2>1, <2>2, <2>3, <2>4, <2>5, <2>6 DEF IInv
<1>35. ASSUME CoreDies PROVE IInv'
  BY <1>35, SMTT(30)
     DEF IInv, CoreIsStopped, SwitchesTyped, ValuesTyped, OperationFits,
         StartIsArmed, ProxyIsCleared, MarkerCoversProxy, ConnectedIsBacked,
         TunIsCleared, MarkerCoversTun, NoSidecarBesideTun, CoreDies
<1>36. ASSUME TunComesUp PROVE IInv'
  BY <1>36, SMTT(30)
     DEF IInv, CoreIsStopped, SwitchesTyped, ValuesTyped, OperationFits,
         StartIsArmed, ProxyIsCleared, MarkerCoversProxy, ConnectedIsBacked,
         TunIsCleared, MarkerCoversTun, NoSidecarBesideTun, TunComesUp
<1>37. ASSUME TunEnds PROVE IInv'
  BY <1>37, SMTT(30)
     DEF IInv, CoreIsStopped, SwitchesTyped, ValuesTyped, OperationFits,
         StartIsArmed, ProxyIsCleared, MarkerCoversProxy, ConnectedIsBacked,
         TunIsCleared, MarkerCoversTun, NoSidecarBesideTun, TunEnds
<1>38. ASSUME OrphanExits PROVE IInv'
  <2>1. SwitchesTyped'
    BY <1>38, Zenon DEF IInv, SwitchesTyped, OrphanExits
  <2>2. ValuesTyped'
    BY <1>38, SMTT(20) DEF IInv, ValuesTyped, OrphanExits
  <2>3. (OperationFits /\ StartIsArmed)'
    BY <1>38, SMTT(20) DEF IInv, OperationFits, StartIsArmed, OrphanExits
  <2>4. (ProxyIsCleared /\ MarkerCoversProxy /\ ConnectedIsBacked)'
    BY <1>38, SMTT(20)
       DEF IInv, ProxyIsCleared, MarkerCoversProxy, ConnectedIsBacked, OrphanExits
  <2>5. (Platform = "linux" => TunIsCleared)'
    BY <1>38, SMTT(20)
       DEF IInv, TunIsCleared, MarkerCoversTun, NoSidecarBesideTun, OrphanExits
  <2>6. CoreIsStopped'
    BY <1>38, SMTT(20) DEF IInv, CoreIsStopped, OrphanExits
  <2> QED
    BY <2>1, <2>2, <2>3, <2>4, <2>5, <2>6 DEF IInv
<1>39. ASSUME Crash PROVE IInv'
  <2>1. SwitchesTyped'
    BY <1>39, Zenon DEF IInv, SwitchesTyped, Crash, ForgetMemory
  <2>2. ValuesTyped'
    BY <1>39, SMTT(20)
       DEF IInv, ValuesTyped, Crash, ForgetMemory, Modes, Reasons, Ops, Pcs,
           PollSteps, EngineStates
  <2>3. (OperationFits /\ StartIsArmed)'
    BY <1>39, SMTT(20) DEF OperationFits, StartIsArmed, Crash, ForgetMemory, StartPcs
  <2>4. (ProxyIsCleared /\ MarkerCoversProxy /\ ConnectedIsBacked)'
    BY <1>39, SMTT(20)
       DEF IInv, ProxyIsCleared, MarkerCoversProxy, ConnectedIsBacked, Crash,
           CleanPcs
  <2>5. (Platform = "linux" => TunIsCleared)'
    BY <1>39, SMTT(20)
       DEF IInv, TunIsCleared, MarkerCoversTun, NoSidecarBesideTun, Crash,
           ForgetMemory, CleanPcs
  <2>6. CoreIsStopped'
    BY <1>39, SMTT(20) DEF IInv, CoreIsStopped, Crash, ForgetMemory
  <2> QED
    BY <2>1, <2>2, <2>3, <2>4, <2>5, <2>6 DEF IInv
<1>40. ASSUME Launch PROVE IInv'
  BY <1>40, SMTT(30)
     DEF IInv, CoreIsStopped, SwitchesTyped, ValuesTyped, OperationFits,
         StartIsArmed, ProxyIsCleared, MarkerCoversProxy, ConnectedIsBacked,
         TunIsCleared, MarkerCoversTun, NoSidecarBesideTun, Launch, Modes, Ops, Pcs,
         StartPcs, CleanPcs
<1>41. ASSUME RequestSwitch PROVE IInv'
  <2>1. SwitchesTyped'
    BY <1>41, Zenon DEF IInv, SwitchesTyped, RequestSwitch, StartWith
  <2>2. ValuesTyped'
    BY <1>41, CleanupModeTyped, SMTT(20)
       DEF IInv, ValuesTyped, RequestSwitch, StartWith, Modes, Ops, Pcs, StartPcs,
           CleanPcs
  <2>3. (OperationFits /\ StartIsArmed)'
    BY <1>41, SMTT(20) DEF OperationFits, StartIsArmed, RequestSwitch, StartWith
  <2>4. (ProxyIsCleared /\ MarkerCoversProxy /\ ConnectedIsBacked)'
    BY <1>41, SMTT(20)
       DEF IInv, ProxyIsCleared, MarkerCoversProxy, ConnectedIsBacked, RequestSwitch,
           StartWith, CleanupMode, HasPreviousRuntime
  <2>5. (Platform = "linux" => TunIsCleared)'
    BY <1>41, SMTT(20)
       DEF IInv, ValuesTyped, TunIsCleared, MarkerCoversTun, NoSidecarBesideTun,
           RequestSwitch, StartWith, CleanupMode, HasPreviousRuntime, Modes
  <2>6. CoreIsStopped'
    BY <1>41, SMTT(20)
       DEF IInv, CoreIsStopped, RequestSwitch, StartWith, HasPreviousRuntime
  <2> QED
    BY <2>1, <2>2, <2>3, <2>4, <2>5, <2>6 DEF IInv
<1>43. ASSUME Elevate PROVE IInv'
  <2>1. SwitchesTyped'
    BY <1>43, Zenon DEF IInv, SwitchesTyped, Elevate, GoTo, Undo, Cleanup
  <2>2. ValuesTyped'
    BY <1>43, CleanupModeTyped, SMTT(20)
       DEF IInv, ValuesTyped, Elevate, FailEngine, Transition, GoTo, Undo, Cleanup,
           Reasons, Ops, Pcs, StartPcs, CleanPcs, EngineStates
  <2>3. (OperationFits /\ StartIsArmed)'
    BY <1>43, SMTT(20)
       DEF IInv, OperationFits, StartIsArmed, Elevate, GoTo, Undo, Cleanup, StartPcs
  <2>4. (ProxyIsCleared /\ MarkerCoversProxy /\ ConnectedIsBacked)'
    BY <1>43, SMTT(20)
       DEF IInv, ProxyIsCleared, MarkerCoversProxy, ConnectedIsBacked, Elevate, GoTo,
           Undo, Cleanup, CleanPcs
  <2>5. (Platform = "linux" => TunIsCleared)'
    BY <1>43, SMTT(20)
       DEF IInv, StartIsArmed, TunIsCleared, MarkerCoversTun, NoSidecarBesideTun,
           Elevate, GoTo, Undo, Cleanup, CleanupMode, CleanPcs
  <2>6. CoreIsStopped'
    BY <1>43, SMTT(20)
       DEF IInv, CoreIsStopped, Elevate, FailEngine, Transition, IsLegal, LegalEdges,
           GoTo, Undo, Cleanup, OperationFits, StartPcs
  <2> QED
    BY <2>1, <2>2, <2>3, <2>4, <2>5, <2>6 DEF IInv
<1>44. ASSUME EventLost PROVE IInv'
  <2>1. SwitchesTyped'
    BY <1>44, Zenon DEF IInv, SwitchesTyped, EventLost
  <2>2. (ValuesTyped /\ OperationFits /\ StartIsArmed)'
    BY <1>44, SMTT(20) DEF IInv, ValuesTyped, OperationFits, StartIsArmed, EventLost
  <2>3. (ProxyIsCleared /\ MarkerCoversProxy /\ ConnectedIsBacked)'
    BY <1>44, SMTT(20)
       DEF IInv, ProxyIsCleared, MarkerCoversProxy, ConnectedIsBacked, EventLost
  <2>4. (Platform = "linux" => TunIsCleared)'
    BY <1>44, SMTT(20)
       DEF IInv, TunIsCleared, MarkerCoversTun, NoSidecarBesideTun, EventLost
  <2>5. CoreIsStopped'
    BY <1>44, SMTT(20) DEF IInv, CoreIsStopped, EventLost
  <2> QED
    BY <2>1, <2>2, <2>3, <2>4, <2>5 DEF IInv
<1>45. ASSUME SyncReads PROVE IInv'
  BY <1>45, SMTT(30)
     DEF IInv, CoreIsStopped, SwitchesTyped, ValuesTyped, OperationFits,
         StartIsArmed, ProxyIsCleared, MarkerCoversProxy, ConnectedIsBacked,
         TunIsCleared, MarkerCoversTun, NoSidecarBesideTun, SyncReads
<1>46. ASSUME SyncRecords PROVE IInv'
  BY <1>46, SMTT(30)
     DEF IInv, CoreIsStopped, SwitchesTyped, ValuesTyped, OperationFits,
         StartIsArmed, ProxyIsCleared, MarkerCoversProxy, ConnectedIsBacked,
         TunIsCleared, MarkerCoversTun, NoSidecarBesideTun, SyncRecords
<1>42. CASE UNCHANGED vars
  BY <1>42
     DEF IInv, CoreIsStopped, SwitchesTyped, ValuesTyped, OperationFits,
         StartIsArmed, ProxyIsCleared, MarkerCoversProxy, ConnectedIsBacked,
         TunIsCleared, MarkerCoversTun, NoSidecarBesideTun, vars
<1> QED
  BY <1>1, <1>2, <1>3, <1>4, <1>5, <1>6, <1>7, <1>8, <1>9, <1>10, <1>11, <1>12,
     <1>13, <1>14, <1>15, <1>16, <1>17, <1>18, <1>19, <1>20, <1>21, <1>22, <1>23, <1>24,
     <1>25, <1>26, <1>27, <1>28, <1>29, <1>30, <1>31, <1>32, <1>33, <1>34, <1>35, <1>36,
     <1>37, <1>38, <1>39, <1>40, <1>41, <1>42, <1>43, <1>44, <1>45, <1>46
  DEF Next, Request, GateStep, StartStep, CleanupStep, SubsSync, PollReads, Environment

(* The inductive invariant holds in every reachable state. *)
THEOREM Invariance == Spec => []IInv
  BY Initially, Preservation, PTL DEF Spec

-----------------------------------------------------------------------------
(* Every variable stays in its type, on every platform. *)
THEOREM TypeCorrect == Spec => []TypeOK
<1>1. IInv => TypeOK
  BY DEF IInv, SwitchesTyped, ValuesTyped, TypeOK
<1> QED
  BY <1>1, Invariance, PTL

(* The system proxy is only ever on under a marker that tells the next      *)
(* launch to clear it, whatever fails or crashes on the way.                *)
THEOREM ProxyIsCovered == Spec => []MarkerCoversProxy
<1>1. IInv => MarkerCoversProxy
  BY DEF IInv
<1> QED
  BY <1>1, Invariance, PTL

(* What was announced as connected is armed on disk, has an engine that     *)
(* runs or has just failed and, for a system session, has the proxy set.    *)
THEOREM ConnectedIsReal == Spec => []ConnectedIsBacked
<1>1. IInv => ConnectedIsBacked
  BY DEF IInv
<1> QED
  BY <1>1, Invariance, PTL

(* On Linux, whose helper client reports a stop only when the session is    *)
(* gone, the helper never captures without a marker that says so.           *)
THEOREM TunIsCovered == ASSUME Platform = "linux" PROVE Spec => []MarkerCoversTun
<1>1. IInv => MarkerCoversTun
  BY DEF IInv, TunIsCleared
<1> QED
  BY <1>1, Invariance, PTL

(* On Linux, no sidecar of this application lives beside the helper's      *)
(* session: CleanupTun has ended it before a start spawns one.              *)
THEOREM OneCoreOwner == ASSUME Platform = "linux" PROVE Spec => []NoSidecarBesideTun
<1>1. IInv => NoSidecarBesideTun
  BY DEF IInv, TunIsCleared
<1> QED
  BY <1>1, Invariance, PTL

(* On Linux, an operation that announces Idle leaves nothing captured and   *)
(* no sidecar.                                                              *)
THEOREM IdleMeansClean == ASSUME Platform = "linux" PROVE Spec => IdleIsClean
<1>1. IInv /\ [Next]_vars =>
        (announced' = "idle" /\ announced # "idle" /\ pc' = "free"
            => ~proxy' /\ tun' = "down" /\ core' # "alive")
  <2> SUFFICES ASSUME IInv, [Next]_vars, announced' = "idle", announced # "idle", pc' = "free"
               PROVE ~proxy' /\ tun' = "down" /\ core' # "alive"
    OBVIOUS
  <2>1. AfterCleanup \/ Uninstall
    <3>1. ~Crash /\ ~Terminate
      BY DEF Crash, Terminate
    <3>2. ~Request /\ ~Launch
      BY DEF Request, RequestStart, RequestSwitch, RequestStop, RequestUninstall,
         RequestExit, Announce, Cleanup, Launch, ui
    <3>3. ~StartStep
      BY
         DEF StartStep, Announce, Elevate, BeginCapture, AnnounceStarting, Prepare,
             Arm, BeginSidecar,
         SpawnSidecar, AwaitSidecar, SetSystemProxy, BeginExternalStart, HelperSteps, SubmitTun,
         AwaitTun, AdoptTun, AnnounceRunning, ui
    <3>4. /\ ~CleanupProxy /\ ~CleanupTun /\ ~CleanupExternal /\ ~CleanupStop
             /\ ~CleanupJoin /\ ~FinishCleanup
      BY DEF CleanupProxy, CleanupTun, CleanupExternal, CleanupStop, CleanupJoin,
         FinishCleanup, ui
    <3>5. /\ ~MonitorReports /\ ~ListenerHandles /\ ~EventLost /\ ~PollReads
             /\ ~PollHandles /\ ~SubsSync
      BY
         DEF SubsSync, SyncReads, SyncRecords, EventLost, MonitorReports,
             ListenerHandles, PollReads, PollPayload, PollMode,
         PollProbe, PollFails, PollRaw, PollHandles, ui
    <3>6. ~CoreDies /\ ~TunComesUp /\ ~TunEnds /\ ~OrphanExits
      BY DEF CoreDies, TunComesUp, TunEnds, OrphanExits, ui
    <3> QED
      BY <3>1, <3>2, <3>3, <3>4, <3>5, <3>6
         DEF Next, GateStep, CleanupStep, Environment, vars
  <2>2. CASE AfterCleanup
    BY <2>2
       DEF AfterCleanup, Announce, Outcome, Silent, GoTo, IInv, OperationFits,
           ProxyIsCleared, TunIsCleared, CoreIsStopped, CleanPcs, os, eng, ui
  <2>3. CASE Uninstall
    BY <2>3 DEF Uninstall, IInv, ProxyIsCleared, TunIsCleared, CoreIsStopped, eng
  <2> QED
    BY <2>1, <2>2, <2>3
<1> QED
  BY <1>1, Invariance, PTL DEF Spec, IdleIsClean

(* On Linux, the session implements the marker's contract: it captures only *)
(* under a marker that names the capture, and it changes or removes the     *)
(* marker only when nothing is captured.                                    *)
THEOREM IntentIsImplemented == ASSUME Platform = "linux" PROVE Spec => ImplementsIntent
<1>1. Init => Intent!Init
  BY DEF Init, Captured, Intent!Init
<1>2. IInv /\ [Next]_vars => [Intent!Next]_Intent!intent
  <2> SUFFICES ASSUME IInv, [Next]_vars PROVE [Intent!Next]_Intent!intent
    OBVIOUS
  <2> USE DEF IInv, TunIsCleared, Captured, Intent!Next, Intent!intent, Intent!Kinds
  <2> DEFINE Still == UNCHANGED <<marker, proxy, tun>>
  <2>1. CASE Arm
    BY <2>1
       DEF Arm, WriteMarker, StartIsArmed, ProxyIsCleared, ValuesTyped, Modes, os,
           Intent!Arm
  <2>2. CASE SetSystemProxy
    BY <2>2 DEF SetSystemProxy, StartIsArmed, Intent!Capture
  <2>3. CASE SubmitTun
    BY <2>3 DEF SubmitTun, StartIsArmed, Intent!Capture, Intent!LetGo
  <2>4. CASE TunComesUp
    BY <2>4 DEF TunComesUp, MarkerCoversTun, Intent!Capture
  <2>5. CASE FinishCleanup
    BY <2>5
       DEF FinishCleanup, MarkersAfterCleanup, ProxyIsCleared, CleanPcs, os,
           Intent!Disarm
  <2>6. CASE Prepare \/ AdoptTun \/ CleanupProxy
    BY <2>6 DEF Prepare, AdoptTun, CleanupProxy, Intent!LetGo
  <2>7. CASE Elevate \/ AwaitTun \/ CleanupTun \/ Uninstall \/ TunEnds
    BY <2>7
       DEF Elevate, AwaitTun, CleanupTun, StopTunOk, Uninstall, TunEnds,
           Intent!LetGo
  <2>8. CASE \/ Request \/ SubsSync \/ MonitorReports \/ ListenerHandles
             \/ EventLost \/ PollReads \/ PollHandles
    <3>1. Still
      BY <2>8
         DEF Request, RequestStart, RequestSwitch, RequestStop, RequestUninstall,
             RequestExit, SubsSync, SyncReads, SyncRecords, MonitorReports,
             ListenerHandles, EventLost, PollReads, PollPayload, PollMode, PollProbe, PollFails, PollRaw, PollHandles, os
    <3> QED
      BY <3>1
  <2>9. CASE \/ BeginCapture \/ AnnounceStarting \/ BeginSidecar \/ SpawnSidecar
             \/ AwaitSidecar \/ BeginExternalStart \/ AnnounceRunning
    <3>1. Still
      BY <2>9
         DEF BeginCapture, AnnounceStarting, BeginSidecar, SpawnSidecar,
             AwaitSidecar, BeginExternalStart, HelperSteps, AnnounceRunning, os
    <3> QED
      BY <3>1
  <2>10. CASE CleanupExternal \/ CleanupStop \/ CleanupJoin \/ AfterCleanup \/ Terminate
    <3>1. Still
      BY <2>10
         DEF CleanupExternal, CleanupStop, CleanupJoin, AfterCleanup, Terminate, os
    <3> QED
      BY <3>1
  <2>11. CASE CoreDies \/ OrphanExits \/ Crash \/ Launch \/ UNCHANGED vars
    <3>1. Still
      BY <2>11 DEF CoreDies, OrphanExits, Crash, Launch, vars, os
    <3> QED
      BY <3>1
  <2> QED
    BY <2>1, <2>2, <2>3, <2>4, <2>5, <2>6, <2>7, <2>8, <2>9, <2>10, <2>11
       DEF Next, GateStep, StartStep, CleanupStep, Environment
<1> QED
  BY <1>1, <1>2, Invariance, PTL DEF Spec, ImplementsIntent, Intent!Spec

-----------------------------------------------------------------------------
(* Where the engine is while the gate's holder is at each of its places, on *)
(* the platforms whose poller never fails it: an engine that has failed with*)
(* nobody at work belongs to a session that was announced as connected.     *)
EngineFits ==
    /\ poll # "fail"
    /\ pc = "down" \/ op = "boot" => engine = "idle"
    /\ pc \in {"begin", "announce", "prepare", "arm", "sidecar", "external", "cDone",
               "after", "uninstall"} => engine = "idle"
    /\ pc \in {"spawn", "await", "prompt", "submit", "tunWait", "adopt"}
          => engine = "starting"
    /\ pc \in {"setProxy", "live"} => engine \in {"running", "failed"}
    /\ pc \in {"cProxy", "cTun", "cExternal", "cStop"}
          => engine \in {"idle", "running", "failed"}
    /\ pc = "cJoin" => engine \in {"idle", "stopping"}
    /\ pc = "free" => \/ engine = "idle"
                      \/ engine \in {"running", "failed"} /\ announced = "running"

(* Every step keeps the engine where the gate's holder expects it. *)
LEMMA EngineFitsInductive ==
    ASSUME Platform # "windows", IInv, EngineFits, [Next]_vars
    PROVE  EngineFits'
<1> USE DEF os, eng, ui, flow, watch, Announce, EngineFits
<1>1. ASSUME NEW m \in {"system", "tun"}, RequestStart(m) PROVE EngineFits'
  BY <1>1, SMTT(20) DEF RequestStart, StartWith, HasPreviousRuntime
<1>2. CASE RequestSwitch
  BY <1>2, SMTT(20) DEF RequestSwitch, StartWith, HasPreviousRuntime
<1>3. CASE RequestStop
  BY <1>3, SMTT(20) DEF RequestStop, Cleanup
<1>4. CASE RequestUninstall
  BY <1>4, SMTT(20) DEF RequestUninstall, Cleanup, HasPreviousRuntime
<1>5. CASE RequestExit
  BY <1>5, SMTT(20) DEF RequestExit, Cleanup
<1>6. CASE BeginCapture
  BY <1>6, SMTT(20) DEF BeginCapture, GoTo
<1>7. CASE AnnounceStarting
  BY <1>7, SMTT(20) DEF AnnounceStarting, GoTo
<1>8. CASE Prepare
  BY <1>8, SMTT(20) DEF Prepare, GoTo, Undo, Cleanup
<1>9. CASE Arm
  BY <1>9, SMTT(20) DEF Arm, GoTo, Undo, Cleanup
<1>10. CASE BeginSidecar
  BY <1>10, SMTT(20)
     DEF BeginSidecar, GoTo, Undo, Cleanup, EngineTo, IsLegal, LegalEdges, IInv,
         OperationFits, StartPcs
<1>11. CASE SpawnSidecar
  BY <1>11, SMTT(20)
     DEF SpawnSidecar, GoTo, Undo, Cleanup, FailEngine, Transition, IsLegal,
         LegalEdges
<1>12. CASE AwaitSidecar
  BY <1>12, SMTT(20)
     DEF AwaitSidecar, GoTo, Undo, Cleanup, FailEngine, EngineTo, Transition,
         IsLegal, LegalEdges
<1>13. CASE SetSystemProxy
  BY <1>13, SMTT(20) DEF SetSystemProxy, GoTo, Undo, Cleanup
<1>14. CASE BeginExternalStart
  BY <1>14, SMTT(20)
     DEF BeginExternalStart, HelperSteps, GoTo, Undo, Cleanup, EngineTo, IsLegal,
         LegalEdges,
         IInv, OperationFits, StartPcs
<1>15. CASE SubmitTun
  BY <1>15, SMTT(20)
     DEF SubmitTun, GoTo, Undo, Cleanup, FailEngine, Transition, IsLegal, LegalEdges
<1>16. CASE AwaitTun
  BY <1>16, SMTT(20)
     DEF AwaitTun, GoTo, Undo, Cleanup, FailEngine, Transition, IsLegal, LegalEdges
<1>17. CASE AdoptTun
  BY <1>17, SMTT(20)
     DEF AdoptTun, GoTo, Undo, Cleanup, EngineTo, IsLegal, LegalEdges, IInv,
         OperationFits, StartPcs
<1>18. CASE AnnounceRunning
  BY <1>18, SMTT(20) DEF AnnounceRunning, Release
<1>19. CASE CleanupProxy
  BY <1>19, SMTT(20) DEF CleanupProxy, IInv, ValuesTyped
<1>20. CASE CleanupTun
  BY <1>20, SMTT(20) DEF CleanupTun
<1>21. CASE CleanupExternal
  BY <1>21, SMTT(20)
     DEF CleanupExternal, GoTo, EngineTo, Transition, IsLegal, LegalEdges
<1>22. CASE CleanupStop
  BY <1>22, SMTT(20) DEF CleanupStop, EngineTo
<1>23. CASE CleanupJoin
  BY <1>23, SMTT(20) DEF CleanupJoin, GoTo, EngineTo
<1>24. CASE FinishCleanup
  BY <1>24, SMTT(20) DEF FinishCleanup, GoTo, StartGoesOn
<1>25. CASE AfterCleanup
  BY <1>25, SMTT(20)
     DEF AfterCleanup, GoTo, Release, Outcome, Silent, IInv, ValuesTyped,
         OperationFits
<1>26. CASE Terminate
  BY <1>26, SMTT(20) DEF Terminate, ForgetMemory
<1>27. CASE Uninstall
  BY <1>27, SMTT(20) DEF Uninstall, Release
<1>28. CASE CoreDies
  BY <1>28, SMTT(20) DEF CoreDies
<1>29. CASE MonitorReports
  BY <1>29, SMTT(20)
     DEF MonitorReports, FailEngine, Transition, IsLegal, LegalEdges, IInv,
         CoreIsStopped
<1>30. CASE TunComesUp
  BY <1>30, SMTT(20) DEF TunComesUp
<1>31. CASE TunEnds
  BY <1>31, SMTT(20) DEF TunEnds
<1>32. CASE OrphanExits
  BY <1>32, SMTT(20) DEF OrphanExits
<1>33. CASE ListenerHandles
  BY <1>33, SMTT(20) DEF ListenerHandles, HandleFailure, StillFailed, Cleanup
<1>34. CASE PollPayload
  BY <1>34, SMTT(20) DEF PollPayload
<1>35. CASE PollMode
  BY <1>35, SMTT(20) DEF PollMode
<1>36. CASE PollProbe
  BY <1>36, SMTT(20) DEF PollProbe, TunIsMissing
<1>37. CASE PollFails
  BY <1>37, SMTT(20) DEF PollFails
<1>38. CASE PollRaw
  BY <1>38, SMTT(20) DEF PollRaw
<1>39. CASE PollHandles
  BY <1>39, SMTT(20) DEF PollHandles, HandleFailure, StillFailed, Cleanup
<1>40. CASE Crash
  BY <1>40, SMTT(20) DEF Crash, ForgetMemory
<1>41. CASE Launch
  BY <1>41, SMTT(20) DEF Launch
<1>42. CASE UNCHANGED vars
  BY <1>42, SMTT(20) DEF vars
<1>43. CASE Elevate
  BY <1>43, SMTT(20)
     DEF Elevate, GoTo, Undo, Cleanup, FailEngine, Transition, IsLegal, LegalEdges
<1>44. CASE EventLost
  BY <1>44, SMTT(20) DEF EventLost
<1>45. CASE SubsSync
  BY <1>45, SMTT(20) DEF SubsSync, SyncReads, SyncRecords
<1> QED
  BY <1>1, <1>2, <1>3, <1>4, <1>5, <1>6, <1>7, <1>8, <1>9, <1>10, <1>11, <1>12, <1>13, <1>14, <1>15, <1>16, <1>17, <1>18, <1>19, <1>20, <1>21, <1>22, <1>23, <1>24, <1>25, <1>26, <1>27, <1>28, <1>29, <1>30, <1>31, <1>32, <1>33, <1>34, <1>35, <1>36, <1>37, <1>38, <1>39, <1>40, <1>41, <1>42, <1>43, <1>44, <1>45
     DEF Next, Request, GateStep, StartStep, CleanupStep, PollReads, Environment

(* FailureOnlyOfConnected: handle_runtime_failure takes up a session only  *)
(* that was announced as connected, never one that a stop or a failed start *)
(* has left, whatever payload a subscription sync has put back.             *)
THEOREM FailuresAreOfConnected ==
    ASSUME Platform # "windows" PROVE Spec => FailureOnlyOfConnected
<1>1. Init => EngineFits
  BY DEF Init, FreshMemory, EngineFits
<1>2. IInv /\ EngineFits /\ [Next]_vars => EngineFits'
  BY EngineFitsInductive
<1>3. IInv /\ EngineFits /\ [Next]_vars
         => [op' = "failure" /\ op # "failure" => announced = "running"]_vars
  <2> SUFFICES ASSUME IInv, EngineFits, Next, op' = "failure", op # "failure"
               PROVE  announced = "running"
    BY DEF vars
  <2>1. PICK reason : pc = "free" /\ StillFailed(reason)
    <3> USE DEF os, eng, ui, flow, watch, Announce
    <3>1. CASE Request
      BY <3>1 DEF Request, RequestStart, RequestSwitch, RequestStop, RequestUninstall,
         RequestExit, StartWith, Cleanup
    <3>2. CASE StartStep
      BY <3>2 DEF StartStep, BeginCapture, AnnounceStarting, Prepare, Arm, BeginSidecar,
         SpawnSidecar, AwaitSidecar, SetSystemProxy, BeginExternalStart, HelperSteps, SubmitTun,
         Elevate, AwaitTun, AdoptTun, AnnounceRunning, GoTo, Undo, Cleanup, Release
    <3>3. CASE CleanupStep
      BY <3>3 DEF CleanupStep, CleanupProxy, CleanupTun, CleanupExternal, CleanupStop,
         CleanupJoin, FinishCleanup, AfterCleanup, Terminate, Uninstall, GoTo, Release,
         ForgetMemory
    <3>4. CASE ListenerHandles
      BY <3>4 DEF ListenerHandles, HandleFailure
    <3>5. CASE PollHandles
      BY <3>5 DEF PollHandles, HandleFailure
    <3>6. CASE MonitorReports \/ EventLost \/ SubsSync \/ PollReads \/ Environment
      BY <3>6
         DEF EventLost, SubsSync, SyncReads, SyncRecords, MonitorReports, PollReads,
             PollPayload, PollMode, PollProbe, PollFails,
         PollRaw, Environment, CoreDies, TunComesUp, TunEnds, OrphanExits, Crash, Launch,
         ForgetMemory
    <3> QED
      BY <3>1, <3>2, <3>3, <3>4, <3>5, <3>6 DEF Next, GateStep
  <2> QED
    BY <2>1 DEF EngineFits, StillFailed
<1> QED
  BY <1>1, <1>2, <1>3, Invariance, PTL DEF Spec, FailureOnlyOfConnected
=============================================================================
