--------------------------- MODULE MCPumpSchedule ---------------------------
(***************************************************************************)
(* The pump's schedule for TLC.  Its constants are numbers, which the      *)
(* configurations give: a second of two ticks, boundaries up to one and a  *)
(* half seconds ahead, seven row ids (no reachable state needs more).      *)
(***************************************************************************)
EXTENDS PumpSchedule
=============================================================================
