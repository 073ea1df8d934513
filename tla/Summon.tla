------------------------------- MODULE Summon -------------------------------
(* The commands that bring a snapshot back (main.rs): `edo summon-group' for *)
(* a group of CUDA processes, `edo summon' for one, `edo cpu-restore'. Each  *)
(* has CRIU create the processes anew. The two CUDA commands then restore    *)
(* and unlock them: summon one after the other with polls, summon-group with *)
(* a thread for every PID and no poll, after it has looked for the PIDs in   *)
(* the process table of the node.                                            *)
(*                                                                           *)
(* The process table is what the code compares of it: which PIDs are there,  *)
(* what each one's executable and command line are, and where it comes from. *)
(* A PID is not given out twice.                                             *)
EXTENDS CudaDriver, Sequences, FiniteSets

CONSTANTS
  Edo,           \* edo processes, one command each
  Command,       \* what e runs: "group", "single" or "cpu"
  Kind,          \* of e's snapshot: "cuda-criu-group", "cuda-criu" or "cpu-criu"
  Recorded,      \* the identities of the processes in e's snapshot, in order
  Bystander      \* other processes of the node: the identity of each PID

VARIABLES
  pc,
  process,       \* per PID, its identity and who created it, or NoProcess
  seen,          \* `restored_tree' of e, while it looks for its matches
  mapped,        \* `restored_pids' of e
  thread,        \* of a running parallel_cuda_calls: one per mapped PID
  joined         \* how many of them have been joined

summonVars == <<seen, mapped, thread, joined>>
vars == <<driverVars, pc, process, summonVars>>

Identity == [executable : STRING, cmdline : STRING]

ASSUME SummonAssumption ==
  /\ Pid \subseteq Nat /\ Edo \cap {"nobody", "node"} = {}
  /\ Command \in [Edo -> {"group", "single", "cpu"}]
  /\ Kind \in [Edo -> {"cuda-criu-group", "cuda-criu", "cpu-criu"}]
  /\ Recorded \in [Edo -> Seq(Identity)]
  /\ \A e \in Edo : Recorded[e] # <<>> /\ (Kind[e] # "cuda-criu-group" => Len(Recorded[e]) = 1)
  /\ \E P \in SUBSET Pid : Bystander \in [P -> Identity]

NoProcess == [by |-> "nobody"]
Ended == {"ok", "err", "killed"}
Label == {"read", "load", "criu", "tree", "map", "restoring", "unlocking", "pidfile",
          "logStarted", "restore", "waitLocked", "unlock", "waitRunning", "logReady"}
           \cup Ended

(* The PIDs e's CRIU restore created. *)
Restored(e) == {p \in Pid : process[p].by = e}
Free == {p \in Pid : process[p] = NoProcess}
Size(e) == Len(Recorded[e])

TypeOK ==
  /\ DriverTypeOK
  /\ pc \in [Edo -> Label]
  /\ \A p \in Pid : \/ process[p] = NoProcess /\ ~alive[p]
                    \/ process[p].by \in Edo \cup {"node"} /\ process[p].id \in Identity
  /\ seen \in [Edo -> SUBSET Pid]
  /\ \A e \in Edo :
       /\ mapped[e] \in Seq(Pid) /\ Len(mapped[e]) <= Size(e)
       /\ thread[e] \in [1..Len(thread[e]) -> {"running", "ok", "err"}]
       /\ joined[e] \in 0..Len(thread[e])
       /\ pc[e] \in {"restoring", "unlocking"} => joined[e] < Len(thread[e])

(* A bystander may be one that `edo freeze' has left CHECKPOINTED.           *)
Init ==
  /\ alive = [p \in Pid |-> p \in DOMAIN Bystander]
  /\ cuda \in {c \in [Pid -> {"Running", "Checkpointed"}] :
                 \A p \in Pid \ DOMAIN Bystander : c[p] = "Running"}
  /\ pending = [p \in Pid |-> "None"]
  /\ process = [p \in Pid |-> IF p \in DOMAIN Bystander
                              THEN [by |-> "node", id |-> Bystander[p]] ELSE NoProcess]
  /\ pc = [e \in Edo |-> "read"]
  /\ seen = [e \in Edo |-> {}]
  /\ mapped = [e \in Edo |-> <<>>]
  /\ thread = [e \in Edo |-> <<>>]
  /\ joined = [e \in Edo |-> 0]

Goto(e, l) == pc' = [pc EXCEPT ![e] = l]

(* One call that succeeds, and goes on, or ends the command by its `?'.      *)
Try(e, at, next, fault) ==
  /\ pc[e] = at
  /\ Goto(e, next) \/ (fault \in Faulty /\ Goto(e, "err"))
  /\ UNCHANGED <<driverVars, process, summonVars>>

-----------------------------------------------------------------------------
(* Reading and verifying the manifest, loading libcuda, restoring. Only      *)
(* summon-group loads libcuda before there is anything to restore.           *)

(* require_group_kind and require_cuda_kind. cpu-restore takes any snapshot. *)
Accepts(e) ==
  /\ Command[e] = "group" => Kind[e] = "cuda-criu-group"
  /\ Command[e] = "single" => Kind[e] = "cuda-criu"

Read(e) ==
  /\ pc[e] = "read"
  /\ \/ Accepts(e) /\ Goto(e, IF Command[e] = "group" THEN "load" ELSE "criu")
     \/ (~Accepts(e) \/ "read" \in Faulty) /\ Goto(e, "err")
  /\ UNCHANGED <<driverVars, process, summonVars>>

Load(e) ==
  Try(e, "load", IF Command[e] = "group" THEN "criu" ELSE "logStarted", "load")

(* How the processes of a snapshot were dumped, and so come back, whichever  *)
(* command has CRIU restore them. cpu-dump dumps a process with no CUDA      *)
(* state, or one that was CHECKPOINTED by others.                            *)
ImageStates(k) == IF k = "cpu-criu" THEN {"Running", "Checkpointed"} ELSE {"Checkpointed"}

(* CRIU creates every process of the images, or none.                        *)
CriuSucceeds(e) ==
  \E f \in [1..Size(e) -> Free], s \in ImageStates(Kind[e]) :
    /\ \A i, j \in 1..Size(e) : f[i] = f[j] => i = j
    /\ process' = [p \in Pid |-> IF \E i \in 1..Size(e) : f[i] = p
                     THEN [by |-> e, id |-> Recorded[e][CHOOSE i \in 1..Size(e) : f[i] = p]]
                     ELSE process[p]]
    /\ alive' = [p \in Pid |-> alive[p] \/ \E i \in 1..Size(e) : f[i] = p]
    /\ cuda' = [p \in Pid |-> IF \E i \in 1..Size(e) : f[i] = p THEN s ELSE cuda[p]]
    /\ UNCHANGED pending

Criu(e) ==
  /\ pc[e] = "criu"
  /\ \/ CriuSucceeds(e) /\ Goto(e, IF Command[e] = "group" THEN "tree" ELSE "pidfile")
     \/ "criu" \in Faulty /\ Goto(e, "err") /\ UNCHANGED <<driverVars, process>>
  /\ UNCHANGED summonVars

-----------------------------------------------------------------------------
(* summon-group: which PIDs.                                                 *)

(* restored.pid, and process::tree below it. CRIU may have written a PID of  *)
(* the namespace it created: then the tree is that of whichever process has  *)
(* this number on the node, or there is none.                                *)
Tree(e) ==
  /\ pc[e] = "tree"
  /\ \/ /\ \A p \in Restored(e) : alive[p]
        /\ seen' = [seen EXCEPT ![e] = Restored(e)]
        /\ Goto(e, "map")
     \/ \E p \in Pid \ Restored(e) :
          alive[p] /\ seen' = [seen EXCEPT ![e] = {p}] /\ Goto(e, "map")
     \/ Goto(e, "err") /\ UNCHANGED seen
  /\ UNCHANGED <<driverVars, process, mapped, thread, joined>>

Used(e) == {mapped[e][i] : i \in 1..Len(mapped[e])}

(* Mutant of Matches: the command line is not compared.                      *)
Matches_ExecutableOnly(p, id) ==
  process[p] # NoProcess /\ process[p].id.executable = id.executable

(* What find_by_identity, and the filter after it, compare.                  *)
Matches(p, id) == process[p] # NoProcess /\ process[p].id = id

FindByIdentity(id) == {p \in Pid : alive[p] /\ Matches(p, id)}

(* Mutant of Candidates: a PID may be taken for two of the workers.          *)
Candidates_Reused(e, id) == {p \in seen[e] \cup FindByIdentity(id) : Matches(p, id)}

Candidates(e, id) ==
  {p \in seen[e] \cup FindByIdentity(id) : p \notin Used(e) /\ Matches(p, id)}

Spawned(e) == [i \in 1..Size(e) |-> "running"]

(* One recorded process: the match with the largest PID, as the node is now  *)
(* or as it was at an earlier scan. After the last one the threads of the    *)
(* restore are spawned.                                                      *)
Map(e) ==
  LET id == Recorded[e][Len(mapped[e]) + 1] IN
  /\ pc[e] = "map"
  /\ \/ \E p \in Candidates(e, id) :
          /\ \A q \in Candidates(e, id) : q <= p
          /\ mapped' = [mapped EXCEPT ![e] = Append(@, p)]
          /\ IF Len(mapped[e]) + 1 = Size(e)
             THEN /\ Goto(e, "restoring")
                  /\ thread' = [thread EXCEPT ![e] = Spawned(e)]
                  /\ seen' = [seen EXCEPT ![e] = {}]
             ELSE /\ seen' = [seen EXCEPT ![e] = @ \cup FindByIdentity(id)]
                  /\ UNCHANGED <<pc, thread>>
     \/ Candidates(e, id) = {} /\ Goto(e, "err") /\ UNCHANGED <<seen, mapped, thread>>
  /\ UNCHANGED <<driverVars, process, joined>>

-----------------------------------------------------------------------------
(* parallel_cuda_calls. A thread makes one call. The threads are joined in   *)
(* order; the first error ends the command, and with it every thread that    *)
(* has not made its call.                                                    *)

Returns(e, i, result) == thread' = [thread EXCEPT ![e][i] = result]

(* Mutant of Worker: a refused call is made again until it is accepted.      *)
Worker_Spins(e, i) ==
  /\ i \in 1..Len(thread[e]) /\ thread[e][i] = "running"
  /\ \/ pc[e] = "restoring" /\ Restore(mapped[e][i])
     \/ pc[e] = "unlocking" /\ Unlock(mapped[e][i])
  /\ Returns(e, i, "ok")
  /\ UNCHANGED <<pc, process, seen, mapped, joined>>

Worker(e, i) ==
  /\ i \in 1..Len(thread[e]) /\ thread[e][i] = "running"
  /\ \/ pc[e] = "restoring" /\ Restore(mapped[e][i]) /\ Returns(e, i, "ok")
     \/ pc[e] = "restoring" /\ Refused(mapped[e][i], "Checkpointed", "restore")
                            /\ Returns(e, i, "err")
     \/ pc[e] = "unlocking" /\ Unlock(mapped[e][i]) /\ Returns(e, i, "ok")
     \/ pc[e] = "unlocking" /\ Refused(mapped[e][i], "Locked", "unlock")
                            /\ Returns(e, i, "err")
  /\ UNCHANGED <<pc, process, seen, mapped, joined>>

(* Mutant of AllJoined: the second call goes on counting the joins.          *)
AllJoined_NoReset(e) ==
  /\ joined' = [joined EXCEPT ![e] = Size(e)]
  /\ IF pc[e] = "restoring"
     THEN Goto(e, "unlocking") /\ thread' = [thread EXCEPT ![e] = Spawned(e)]
     ELSE Goto(e, "ok") /\ thread' = [thread EXCEPT ![e] = <<>>]

(* After the last join: the unlock threads, or the end.                      *)
AllJoined(e) ==
  /\ joined' = [joined EXCEPT ![e] = 0]
  /\ IF pc[e] = "restoring"
     THEN Goto(e, "unlocking") /\ thread' = [thread EXCEPT ![e] = Spawned(e)]
     ELSE Goto(e, "ok") /\ thread' = [thread EXCEPT ![e] = <<>>]

Joins(e, result) ==
  pc[e] \in {"restoring", "unlocking"} /\ thread[e][joined[e] + 1] = result

JoinNext(e) ==
  IF joined[e] + 1 = Size(e) THEN AllJoined(e)
  ELSE joined' = [joined EXCEPT ![e] = @ + 1] /\ UNCHANGED <<pc, thread>>

Exit(e, l) ==
  /\ Goto(e, l)
  /\ thread' = [thread EXCEPT ![e] = <<>>]
  /\ joined' = [joined EXCEPT ![e] = 0]

(* Mutant of Join: a thread that returned an error counts as one that did not. *)
Join_ErrorDropped(e) ==
  /\ Joins(e, "ok") \/ Joins(e, "err")
  /\ JoinNext(e)
  /\ UNCHANGED <<driverVars, process, seen, mapped>>

(* Mutant of Join: the first thread that returns ends the wait for all.      *)
Join_First(e) ==
  /\ pc[e] \in {"restoring", "unlocking"}
  /\ \E i \in 1..Size(e) : thread[e][i] = "ok"
  /\ AllJoined(e)
  /\ UNCHANGED <<driverVars, process, seen, mapped>>

Join(e) ==
  /\ \/ Joins(e, "ok") /\ JoinNext(e)
     \/ Joins(e, "err") /\ Exit(e, "err")
  /\ UNCHANGED <<driverVars, process, seen, mapped>>

-----------------------------------------------------------------------------
(* summon and cpu-restore: the PID is the one CRIU wrote.                    *)

Pidfile(e) ==
  /\ pc[e] = "pidfile"
  /\ \/ /\ \E p \in Restored(e) : mapped' = [mapped EXCEPT ![e] = <<p>>]
        /\ Goto(e, IF Command[e] = "cpu" THEN "ok" ELSE "load")
     \/ "pidfile" \in Faulty /\ Goto(e, "err") /\ UNCHANGED mapped
  /\ UNCHANGED <<driverVars, process, seen, thread, joined>>

Wait(e, at, s, next) ==
  /\ pc[e] = at
  /\ \/ Sees(mapped[e][1], s) /\ Goto(e, next)
     \/ WaitFails(mapped[e][1], s) /\ Goto(e, "err")
  /\ UNCHANGED <<driverVars, process, summonVars>>

Drive(e, at, op, from, to, next) ==
  /\ pc[e] = at
  /\ \/ Call(mapped[e][1], from, to) /\ Goto(e, next)
     \/ Refused(mapped[e][1], from, op) /\ Goto(e, "err")
  /\ UNCHANGED <<process, summonVars>>

SummonUp(e) ==
  \/ Try(e, "logStarted", "restore", "journal")
  \/ Drive(e, "restore", "restore", "Checkpointed", "Locked", "waitLocked")
  \/ Wait(e, "waitLocked", "Locked", "unlock")
  \/ Drive(e, "unlock", "unlock", "Locked", "Running", "waitRunning")
  \/ Wait(e, "waitRunning", "Running", "logReady")
  \/ Try(e, "logReady", "ok", "journal")

-----------------------------------------------------------------------------

Kill(e) ==
  /\ "kill" \in Faulty
  /\ pc[e] \notin Ended
  /\ Exit(e, "killed")
  /\ UNCHANGED <<driverVars, process, seen, mapped>>

MainStep(e) ==
  \/ Read(e) \/ Load(e) \/ Criu(e)
  \/ Tree(e) \/ Map(e) \/ Join(e)
  \/ Pidfile(e) \/ SummonUp(e)

TargetStep(p) ==
  (Complete(p) \/ Break(p) \/ Die(p)) /\ UNCHANGED <<pc, process, summonVars>>

AllEnded == \A e \in Edo : pc[e] \in Ended

Done == AllEnded /\ UNCHANGED vars

Next ==
  \/ \E e \in Edo : MainStep(e) \/ Kill(e)
  \/ \E e \in Edo : \E i \in 1..Size(e) : Worker(e, i)
  \/ \E p \in Pid : TargetStep(p)
  \/ Done

Spec == Init /\ [][Next]_vars

(* Each thread of an edo process is scheduled, and every call it makes       *)
(* returns; waits have deadlines.                                            *)
FairSpec ==
  /\ Spec
  /\ \A e \in Edo : WF_vars(MainStep(e))
  /\ \A e \in Edo : \A i \in 1..Size(e) : WF_vars(Worker(e, i))

-----------------------------------------------------------------------------

(* A worker of a group runs again only when the GPU state of every other one  *)
(* is back: the unlocks wait for all restores, in whatever order the threads  *)
(* are scheduled, and none follows when one has failed. The workers of a      *)
(* group talk to each other as soon as they run.                              *)
Barrier ==
  \A e \in Edo : \A p, q \in Restored(e) :
    Command[e] = "group" /\ cuda[p] = "Running" /\ alive[q] => cuda[q] # "Checkpointed"

(* No PID is matched to two of the recorded processes, also when these have   *)
(* the same executable and command line, as the workers of a group often do:  *)
(* else one of them would stay CHECKPOINTED.                                  *)
MatchedOnce ==
  \A e \in Edo : \A i, j \in 1..Len(mapped[e]) : mapped[e][i] = mapped[e][j] => i = j

(* find_by_identity is there to "find a restored process" (process.rs:120-121): *)
(* the PIDs a command restores and unlocks are those of processes it had CRIU *)
(* create, not of others on the node.                                         *)
DrivesRestored == \A e \in Edo : Used(e) \subseteq Restored(e)

(* A summon or summon-group that exits 0 has brought back every process of    *)
(* the snapshot: it runs, or has died since. Nothing of the kind is true of   *)
(* cpu-restore, which takes a CUDA snapshot too and leaves its processes as   *)
(* CRIU creates them.                                                         *)
OkRuns ==
  \A e \in Edo : pc[e] = "ok" /\ Command[e] # "cpu" =>
    \A p \in Restored(e) : alive[p] => cuda[p] = "Running"

(* Every command ends, whatever becomes of the processes it restores.         *)
EveryEdoEnds == \A e \in Edo : <>(pc[e] \in Ended)

=============================================================================
