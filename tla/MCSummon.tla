------------------------------ MODULE MCSummon ------------------------------
(* Instances of Summon for TLC: a summon-group of two workers that have the  *)
(* same executable and command line, beside a summon of another snapshot and *)
(* a process of the node with the same executable.                           *)
EXTENDS Summon, TLC

Python(c) == [executable |-> "python", cmdline |-> c]

GroupAndSingle == [e1 |-> "group", e2 |-> "single"]
GroupAndCpu    == [e1 |-> "group", e2 |-> "cpu"]

\* A summon-group of a group's snapshot, and a summon, or a cpu-restore, of
\* one that `edo freeze' has taken.
CudaSnapshots == [e1 |-> "cuda-criu-group", e2 |-> "cuda-criu"]

TwoSnapshots == [e1 |-> <<Python("worker"), Python("worker")>>, e2 |-> <<Python("model")>>]

\* Between the PIDs that are free.
Stranger == 3 :> Python("trainer")
\* A process of the kind that is in the snapshot: the source, or a replica.
Replica == 3 :> Python("worker")

\* A process that goes into FAILED by itself is, to these commands, one more
\* that refuses its calls, as one that has died.
SteadyDriver == Fault \ {"driver"}
NoFaults == {}
=============================================================================
