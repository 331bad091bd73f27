--------------------------- MODULE MC_SubsTraffic ---------------------------
(* The instance TLC checks: a subscription that is used for some time and   *)
(* one that is used for a moment.                                            *)
EXTENDS SubsTraffic

MCSubs  == {"long", "short"}
MCBytes == [s \in MCSubs |-> IF s = "long" THEN 2 ELSE 1]
=============================================================================
