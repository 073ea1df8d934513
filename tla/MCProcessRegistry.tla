--------------------------- MODULE MCProcessRegistry ------------------------
(* Instances of ProcessRegistry for TLC: a service run twice under one name,  *)
(* the second time by a wrapper, and other processes that take its PID.       *)
EXTENDS ProcessRegistry, TLC

CONSTANTS p1, p2, e1, e2, n1, r1, env, app

OneName  == e1 :> n1 @@ e2 :> n1
Wrappers == e1 :> app @@ e2 :> env
Apps     == e1 :> app @@ e2 :> app
PidSymmetry == Permutations({p1, p2})
=============================================================================
