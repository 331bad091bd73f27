------------------------ MODULE MC_WindowsTunService ------------------------
(* A wireless interface with a server of the user's, and a cable with      *)
(* automatic ones.                                                         *)
EXTENDS WindowsTunService

CONSTANTS wifi, lan

MCIfaces == {wifi, lan}
MCOwn    == [i \in MCIfaces |-> IF i = wifi THEN {"isp"} ELSE {}]
=============================================================================
