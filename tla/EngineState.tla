---------------------------- MODULE EngineState ----------------------------
(***************************************************************************)
(* The engine's lifecycle: the states of `EngineState` and the guarded     *)
(* transition of `StateMachine` (aurestream-engine/src/state.rs).          *)
(* The reason carried by `Failed` is abstracted here; modules that need to *)
(* tell reasons apart keep it in a variable of their own.                  *)
(***************************************************************************)

EngineStates == {"idle", "starting", "running", "stopping", "failed"}

(* The legal edges, as a set of pairs <<from, to>>. *)
LegalEdges ==
    {<<"idle", "starting">>, <<"failed", "starting">>,
     <<"starting", "running">>,
     <<"running", "stopping">>,
     <<"stopping", "idle">>,
     <<"starting", "failed">>, <<"running", "failed">>, <<"stopping", "failed">>,
     <<"failed", "idle">>}

IsLegal(from, to) == <<from, to>> \in LegalEdges

(* `transition`: an illegal request is refused and leaves the state alone. *)
Transition(from, to) == IF IsLegal(from, to) THEN to ELSE from
=============================================================================
