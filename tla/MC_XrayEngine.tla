--------------------------- MODULE MC_XrayEngine ---------------------------
(* Two concurrent callers; the generations of sidecars are bounded in the   *)
(* configuration.                                                           *)
EXTENDS XrayEngine
=============================================================================
