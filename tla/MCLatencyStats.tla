--------------------------- MODULE MCLatencyStats ---------------------------
(* Model-checking instance of LatencyStats.                                *)
EXTENDS LatencyStats

CONSTANTS echo, flow_mod, main, aux   \* model values

MCTypes == {echo, flow_mod}
MCReplyTypes == {echo}
NoFaults == {}
AllFaults == {"reorder", "lose", "close", "unasked"}
=============================================================================
