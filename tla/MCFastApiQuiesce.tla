--------------------------- MODULE MCFastApiQuiesce -------------------------
(* Instances of FastApiQuiesce for TLC: two operators, as in a retry beside   *)
(* a script that is still waiting, and three request threads.                 *)
EXTENDS FastApiQuiesce

CONSTANTS i1, i2, i3, o1, o2
=============================================================================
