--------------------------- MODULE MCPohRecorder ---------------------------
(* Two consecutive leader slots, or two with a slot of another between.    *)
EXTENDS PohBlock

TwoLeaderSlots == {2, 3}
SeparateLeaderSlots == {1, 3}
============================================================================
