---------------------------- MODULE MCSnapshotAgent -------------------------
(* Instances of SnapshotAgent for TLC: a snapshot and its retry, a restore    *)
(* through the agent, a command given by hand and, as a bound, one            *)
(* snapshot-clean; or, with commands of host_manifest that fail, without the  *)
(* restore.                                                                  *)
EXTENDS SnapshotAgent, TLC

CONSTANTS s1, s2, r1, e1, c1

Full == [arch |-> "x86_64", kernel |-> "6.8",
         criu |-> [p \in {"criu", "/opt/edo/bin/criu"} |-> "4.1"],
         driver |-> "550", gpu |-> "a10", memory |-> 2]

(* A smaller GPU, whose driver nvidia-smi does not report: a snapshot of Full  *)
(* is refused on it, and one of its own is accepted by Full. The CRIU in the   *)
(* PATH is not the agent's.                                                   *)
Small == [Full EXCEPT !.driver = None, !.memory = 1, !.criu["criu"] = "4.0"]

MCHost == {Full, Small}
MCCommand == [r \in Reader |-> IF r = r1 THEN "summon-group" ELSE "snapshot-check"]
MCCriu == [r \in Reader |-> IF r = r1 THEN "/opt/edo/bin/criu" ELSE "criu"]
SnapshotSymmetry == Permutations(Snapshots)
=============================================================================
