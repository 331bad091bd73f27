---------------------------- MODULE CaptureIntent ----------------------------
(***************************************************************************)
(* What the runtime marker (`engine-runtime.json`) promises: the traffic   *)
(* of the machine is captured only while a marker on disk names the kind   *)
(* of capture, so that whoever finds the disk after a crash knows what to  *)
(* undo; and a marker goes away, or changes, only when nothing is captured.*)
(***************************************************************************)
VARIABLES
    marker,   \* what the file on disk names: "none", "system" or "tun"
    captured  \* the kinds of capture that are, or may come, in force

intent == <<marker, captured>>

Kinds == {"system", "tun"}

Init == marker = "none" /\ captured = {}

(* Record what is about to be captured. *)
Arm ==
    /\ captured = {}
    /\ marker' \in Kinds
    /\ UNCHANGED captured

(* What is captured is what the marker names. *)
Capture ==
    /\ marker # "none"
    /\ captured' = captured \cup {marker}
    /\ UNCHANGED marker

(* Capture may end at any time: it is stopped, or it dies. *)
LetGo ==
    /\ captured' \in SUBSET captured
    /\ UNCHANGED marker

Disarm ==
    /\ captured = {}
    /\ marker' = "none"
    /\ UNCHANGED captured

Next == Arm \/ Capture \/ LetGo \/ Disarm

Spec == Init /\ [][Next]_intent
=============================================================================
