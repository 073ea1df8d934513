---------------------------- MODULE MCFreezeGroup ---------------------------
(* Instances of FreezeGroup for TLC: two edo processes and up to three PIDs, *)
(* enough for groups that share a member without being equal.                *)
EXTENDS FreezeGroup, TLC

CONSTANTS e1, e2, d1, d2

Chained  == e1 :> <<1, 2>> @@ e2 :> <<2, 3>>
Same     == e1 :> <<1, 2>> @@ e2 :> <<1, 2>>
Disjoint == e1 :> <<1, 2>> @@ e2 :> <<3>>

OneDir  == e1 :> d1 @@ e2 :> d1
TwoDirs == e1 :> d1 @@ e2 :> d2

AllFaults == Fault
\* The operations on the way to a snapshot; those of the recovery work.
ForwardFaults == {"lock", "checkpoint", "pollRunning", "pollLocked", "pollCheckpointed",
                  "load", "mkdir", "dump", "write", "chmod"}
NoFaults == {}
=============================================================================
