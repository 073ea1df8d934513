------------------------------- MODULE MCFreeze -----------------------------
(* Instances of Freeze for TLC: two freezes of one target, into directories  *)
(* of their own or into one as in a retry, and a third command on the same   *)
(* target. All the paths end in `snapshot', as in the repository's examples. *)
EXTENDS Freeze, TLC

CONSTANTS e1, e2, e3, p1, d1, d2

WithRoundtrip == e1 :> "freeze" @@ e2 :> "freeze" @@ e3 :> "roundtrip"
WithCpuDump   == e1 :> "freeze" @@ e2 :> "freeze" @@ e3 :> "cpuDump"

OneTarget == [e \in Edo |-> p1]
\* The freezes share their journal file only.
OwnDirs   == e1 :> d1 @@ e2 :> d2 @@ e3 :> d2
\* They share the directory, too.
TwoDirs   == e1 :> d1 @@ e2 :> d1 @@ e3 :> d2
OneName   == [e \in Edo |-> "snapshot"]
OneCwd    == [e \in Edo |-> "cwd"]
OneDir    == [e \in Edo |-> d1]

\* A process that goes into FAILED by itself is a different question: freeze
\* does not look at its target again between the checkpoint and the dump.
SteadyDriver == Fault \ {"driver"}
\* The operations of the way down and of the dump, but for the journal's; the
\* target may die, too. The poll for RUNNING fails by its deadline.
ForwardFaults == {"lock", "checkpoint", "pollLocked", "pollCheckpointed",
                  "load", "mkdir", "dump", "write", "chmod", "die"}
NoFaults == {}
=============================================================================
