----------------------------- MODULE FreezeGroup ----------------------------
(* `edo freeze-group': several edo processes of one node, each freezing its  *)
(* own list of CUDA PIDs and dumping the process tree above them (main.rs    *)
(* freeze_group, recover_many, recover_cuda; criu.rs dump_inner; snapshot.rs *)
(* write_group). The processes share the driver, the snapshot directories    *)
(* and /dev/shm, and nothing in the code makes one wait for another.         *)
(*                                                                           *)
(* pc[e] names the next call of e:                                           *)
(*   start          resolve, tree, parse_pids, load and cuInit               *)
(*   waitRunning    first loop                                               *)
(*   lock, waitLocked                     second loop                        *)
(*   checkpoint, waitCheckpointed         third loop                         *)
(*   prepare, create, clear, criu         criu::dump_group                   *)
(*   recState .. recWaitRunning           recover_many, a PID at a time      *)
(*   write, fill, chmod                   snapshot::write_group              *)
(*   ok, err, killed                      the process has ended              *)
EXTENDS CudaDriver, SnapshotStore, Sequences

CONSTANTS
  Group,         \* the PIDs of e, in the order parse_pids sorts them in
  Out            \* the snapshot directory of e

VARIABLES
  pc,
  idx,           \* position in the loop e is in
  locked,        \* length of the Vec `locked', a prefix of Group[e]
  goal           \* what recover_many was called for: "abort" or "resume"

edoVars == <<pc, idx, locked, goal>>
vars == <<driverVars, storeVars, edoVars>>

(* What parse_pids returns: numbers, sorted, without duplicates, not empty.  *)
Parsed(pids) ==
  /\ Len(pids) > 0
  /\ \A i, j \in 1..Len(pids) : i < j => pids[i] < pids[j]

ASSUME GroupAssumption ==
  /\ Pid \subseteq Nat
  /\ Group \in [Edo -> Seq(Pid)]
  /\ \A e \in Edo : Parsed(Group[e])
  /\ Out \in [Edo -> Dir]

Ended == {"ok", "err", "killed"}
Recovering == {"recState", "recRestore", "recWaitLocked", "recUnlock", "recWaitRunning"}
Dumping == {"prepare", "create", "clear", "criu"}
Writing == {"write", "fill", "chmod"}
Label == {"start", "waitRunning", "lock", "waitLocked", "checkpoint", "waitCheckpointed"}
           \cup Dumping \cup Recovering \cup Writing \cup Ended

Members(e) == {Group[e][i] : i \in 1..Len(Group[e])}
Cur(e) == Group[e][idx[e]]

TypeOK ==
  /\ DriverTypeOK
  /\ StoreTypeOK
  /\ pc \in [Edo -> Label]
  /\ idx \in [Edo -> Nat] /\ \A e \in Edo : idx[e] \in 1..Len(Group[e])
  /\ locked \in [Edo -> Nat] /\ \A e \in Edo : locked[e] <= Len(Group[e])
  /\ goal \in [Edo -> {"none", "abort", "resume"}]

Init ==
  /\ DriverInit
  /\ StoreInit
  /\ pc = [e \in Edo |-> "start"]
  /\ idx = [e \in Edo |-> 1]
  /\ locked = [e \in Edo |-> 0]
  /\ goal = [e \in Edo |-> "none"]

-----------------------------------------------------------------------------
(* Moves of the program counter. Each one leaves pc, idx and goal defined.   *)

Goto(e, l) == pc' = [pc EXCEPT ![e] = l] /\ UNCHANGED <<idx, goal>>

(* The loop over the n first PIDs: the next round, or what follows the loop. *)
NextRound(e, n, again, after) ==
  /\ IF idx[e] = n
     THEN pc' = [pc EXCEPT ![e] = after] /\ idx' = [idx EXCEPT ![e] = 1]
     ELSE pc' = [pc EXCEPT ![e] = again] /\ idx' = [idx EXCEPT ![e] = @ + 1]
  /\ goal' = goal

(* Calls recover_many(locked). On an empty list it returns Ok at once.       *)
Recover(e, g) ==
  /\ pc' = [pc EXCEPT ![e] = IF locked[e] = 0 THEN "err" ELSE "recState"]
  /\ idx' = [idx EXCEPT ![e] = 1]
  /\ goal' = [goal EXCEPT ![e] = g]

(* Mutant of Abort: the recovery is given the whole group.                   *)
Abort_WholeGroup(e) ==
  /\ pc' = [pc EXCEPT ![e] = "recState"]
  /\ idx' = [idx EXCEPT ![e] = 1]
  /\ goal' = [goal EXCEPT ![e] = "abort"]
  /\ locked' = [locked EXCEPT ![e] = Len(Group[e])]

(* The error paths of freeze_group ignore the result of the recovery.        *)
Abort(e) == Recover(e, "abort") /\ locked' = locked

-----------------------------------------------------------------------------
(* Up to the first lock nothing is held, and every error returns at once.    *)

(* process::tree finds every PID of the list below the root.                 *)
InTree(e) == \A p \in Members(e) : alive[p]

Start(e) ==
  /\ pc[e] = "start"
  /\ \/ InTree(e) /\ Goto(e, "waitRunning")
     \/ (~InTree(e) \/ "load" \in Faulty) /\ Goto(e, "err")
  /\ UNCHANGED <<driverVars, storeVars, locked>>

WaitRunning(e) ==
  /\ pc[e] = "waitRunning"
  /\ \/ Sees(Cur(e), "Running") /\ NextRound(e, Len(Group[e]), "waitRunning", "lock")
     \/ (WaitFails(Cur(e), "Running") \/ "pollRunning" \in Faulty) /\ Goto(e, "err")
  /\ UNCHANGED <<driverVars, storeVars, locked>>

(* Mutant of LockCall: the error of the call is dropped and the wait decides. *)
LockCall_ErrorDropped(e) ==
  /\ pc[e] = "lock"
  /\ Lock(Cur(e)) \/ Refused(Cur(e), "Running", "lock")
  /\ Goto(e, "waitLocked")
  /\ UNCHANGED <<storeVars, locked>>

(* Mutant of LockCall: a refused lock is tried again until it is granted.    *)
LockCall_Spins(e) ==
  /\ pc[e] = "lock"
  /\ Lock(Cur(e)) /\ Goto(e, "waitLocked")
  /\ UNCHANGED <<storeVars, locked>>

LockCall(e) ==
  /\ pc[e] = "lock"
  /\ \/ Lock(Cur(e)) /\ Goto(e, "waitLocked") /\ UNCHANGED locked
     \/ Refused(Cur(e), "Running", "lock") /\ Abort(e)
  /\ UNCHANGED storeVars

(* Mutant of WaitLocked: locked.push left out.                               *)
WaitLocked_NoPush(e) ==
  /\ pc[e] = "waitLocked"
  /\ \/ /\ Sees(Cur(e), "Locked")
        /\ NextRound(e, Len(Group[e]), "lock", "checkpoint")
        /\ UNCHANGED locked
     \/ (WaitFails(Cur(e), "Locked") \/ "pollLocked" \in Faulty) /\ Abort(e)
  /\ UNCHANGED <<driverVars, storeVars>>

(* `locked' grows after the wait: when the wait fails, the PID whose lock    *)
(* call has returned is not among those recover_many is given.               *)
WaitLocked(e) ==
  /\ pc[e] = "waitLocked"
  /\ \/ /\ Sees(Cur(e), "Locked")
        /\ locked' = [locked EXCEPT ![e] = @ + 1]
        /\ NextRound(e, Len(Group[e]), "lock", "checkpoint")
     \/ (WaitFails(Cur(e), "Locked") \/ "pollLocked" \in Faulty) /\ Abort(e)
  /\ UNCHANGED <<driverVars, storeVars>>

CheckpointCall(e) ==
  /\ pc[e] = "checkpoint"
  /\ \/ Checkpoint(Cur(e)) /\ Goto(e, "waitCheckpointed") /\ UNCHANGED locked
     \/ Refused(Cur(e), "Locked", "checkpoint") /\ Abort(e)
  /\ UNCHANGED storeVars

(* Mutant of WaitCheckpointed: the PID is pushed to `locked' a second time.  *)
WaitCheckpointed_PushesAgain(e) ==
  /\ pc[e] = "waitCheckpointed"
  /\ Sees(Cur(e), "Checkpointed")
  /\ locked' = [locked EXCEPT ![e] = @ + 1]
  /\ NextRound(e, Len(Group[e]), "checkpoint", "prepare")
  /\ UNCHANGED <<driverVars, storeVars>>

WaitCheckpointed(e) ==
  /\ pc[e] = "waitCheckpointed"
  /\ \/ /\ Sees(Cur(e), "Checkpointed")
        /\ NextRound(e, Len(Group[e]), "checkpoint", "prepare")
        /\ UNCHANGED locked
     \/ (WaitFails(Cur(e), "Checkpointed") \/ "pollCheckpointed" \in Faulty) /\ Abort(e)
  /\ UNCHANGED <<driverVars, storeVars>>

-----------------------------------------------------------------------------
(* criu::dump_group.                                                         *)

(* Mutant of Prepare: an existing directory is accepted.                     *)
Prepare_NoTest(e) ==
  /\ pc[e] = "prepare"
  /\ Goto(e, "create")
  /\ UNCHANGED <<driverVars, storeVars, locked>>

Prepare(e) ==
  /\ pc[e] = "prepare"
  /\ \/ ~exists[Out[e]] /\ Goto(e, "create") /\ UNCHANGED locked
     \/ exists[Out[e]] /\ Abort(e)
  /\ UNCHANGED <<driverVars, storeVars>>

Create(e) ==
  /\ pc[e] = "create"
  /\ \/ CreateDirectory(Out[e]) /\ Goto(e, "clear") /\ UNCHANGED locked
     \/ "mkdir" \in Faulty /\ Abort(e) /\ UNCHANGED storeVars
  /\ UNCHANGED driverVars

Clear(e) ==
  /\ pc[e] = "clear"
  /\ ClearLinkRemaps
  /\ Goto(e, "criu")
  /\ UNCHANGED <<driverVars, locked>>

Quiescent(e) == \A p \in Members(e) : Sees(p, "Checkpointed")

(* A leftover link remap of another dump can make this one fail (EEXIST),    *)
(* and so can a member that has exited.                                      *)
DumpMayFail(e) == "dump" \in Faulty \/ remaps # {} \/ \E p \in Members(e) : ~alive[p]

(* Mutant of Criu: the manifest is written before the group is recovered.    *)
Criu_ManifestFirst(e) ==
  /\ pc[e] = "criu"
  /\ \/ /\ DumpSucceeds(Out[e], [by |-> e, quiescent |-> Quiescent(e)], TRUE)
        /\ Goto(e, "write") /\ UNCHANGED locked
     \/ DumpMayFail(e) /\ DumpFails(Out[e]) /\ Abort(e)
  /\ UNCHANGED driverVars

Criu(e) ==
  /\ pc[e] = "criu"
  /\ \/ /\ DumpSucceeds(Out[e], [by |-> e, quiescent |-> Quiescent(e)], TRUE)
        /\ Recover(e, "resume") /\ UNCHANGED locked
     \/ DumpMayFail(e) /\ DumpFails(Out[e]) /\ Abort(e)
  /\ UNCHANGED driverVars

-----------------------------------------------------------------------------
(* recover_many: recover_cuda for each PID of `locked', in order. The first  *)
(* error ends it. After the dump that error ends freeze_group, before a      *)
(* manifest is written.                                                      *)

RecoverFails(e) == Goto(e, "err")

RecoverState(e) ==
  /\ pc[e] = "recState"
  /\ \/ Sees(Cur(e), "Checkpointed") /\ Goto(e, "recRestore")
     \/ Sees(Cur(e), "Locked") /\ Goto(e, "recUnlock")
     \/ Sees(Cur(e), "Running") /\ Goto(e, "recWaitRunning")
     \/ (Sees(Cur(e), "Failed") \/ StateFails(Cur(e))) /\ RecoverFails(e)
  /\ UNCHANGED <<driverVars, storeVars, locked>>

RecoverRestore(e) ==
  /\ pc[e] = "recRestore"
  /\ \/ Restore(Cur(e)) /\ Goto(e, "recWaitLocked")
     \/ Refused(Cur(e), "Checkpointed", "restore") /\ RecoverFails(e)
  /\ UNCHANGED <<storeVars, locked>>

(* Mutant of RecoverWaitLocked: the unlock after the restore is forgotten.   *)
RecoverWaitLocked_NoUnlock(e) ==
  /\ pc[e] = "recWaitLocked"
  /\ \/ Sees(Cur(e), "Locked") /\ Goto(e, "recWaitRunning")
     \/ WaitFails(Cur(e), "Locked") /\ RecoverFails(e)
  /\ UNCHANGED <<driverVars, storeVars, locked>>

RecoverWaitLocked(e) ==
  /\ pc[e] = "recWaitLocked"
  /\ \/ Sees(Cur(e), "Locked") /\ Goto(e, "recUnlock")
     \/ WaitFails(Cur(e), "Locked") /\ RecoverFails(e)
  /\ UNCHANGED <<driverVars, storeVars, locked>>

RecoverUnlock(e) ==
  /\ pc[e] = "recUnlock"
  /\ \/ Unlock(Cur(e)) /\ Goto(e, "recWaitRunning")
     \/ Refused(Cur(e), "Locked", "unlock") /\ RecoverFails(e)
  /\ UNCHANGED <<storeVars, locked>>

AfterRecovery(e) == IF goal[e] = "resume" THEN "write" ELSE "err"

RecoverWaitRunning(e) ==
  /\ pc[e] = "recWaitRunning"
  /\ \/ /\ Sees(Cur(e), "Running")
        /\ NextRound(e, locked[e], "recState", AfterRecovery(e))
     \/ WaitFails(Cur(e), "Running") /\ RecoverFails(e)
  /\ UNCHANGED <<driverVars, storeVars, locked>>

-----------------------------------------------------------------------------
(* snapshot::write_group. Hashing the files or opening manifest.json may     *)
(* fail, then writing it, then the chmod of the finished file.               *)

Write(e) ==
  /\ pc[e] = "write"
  /\ \/ OpenManifest(Out[e], e) /\ Goto(e, "fill")
     \/ "write" \in Faulty /\ Goto(e, "err") /\ UNCHANGED storeVars
  /\ UNCHANGED <<driverVars, locked>>

(* Mutant of Fill: the error of the write is dropped.                        *)
Fill_ErrorDropped(e) ==
  /\ pc[e] = "fill"
  /\ FillManifest(Out[e]) \/ ("write" \in Faulty /\ UNCHANGED storeVars)
  /\ Goto(e, "chmod")
  /\ UNCHANGED <<driverVars, locked>>

Fill(e) ==
  /\ pc[e] = "fill"
  /\ \/ FillManifest(Out[e]) /\ Goto(e, "chmod")
     \/ "write" \in Faulty /\ Goto(e, "err") /\ UNCHANGED storeVars
  /\ UNCHANGED <<driverVars, locked>>

Chmod(e) ==
  /\ pc[e] = "chmod"
  /\ \/ manifest[Out[e]] # NoManifest /\ Goto(e, "ok")
     \/ ("chmod" \in Faulty \/ manifest[Out[e]] = NoManifest) /\ Goto(e, "err")
  /\ UNCHANGED <<driverVars, storeVars, locked>>

Kill(e) ==
  /\ "kill" \in Faulty
  /\ pc[e] \notin Ended
  /\ Goto(e, "killed")
  /\ UNCHANGED <<driverVars, storeVars, locked>>

-----------------------------------------------------------------------------

EdoStep(e) ==
  \/ Start(e) \/ WaitRunning(e)
  \/ LockCall(e) \/ WaitLocked(e)
  \/ CheckpointCall(e) \/ WaitCheckpointed(e)
  \/ Prepare(e) \/ Create(e) \/ Clear(e) \/ Criu(e)
  \/ RecoverState(e) \/ RecoverRestore(e) \/ RecoverWaitLocked(e)
  \/ RecoverUnlock(e) \/ RecoverWaitRunning(e)
  \/ Write(e) \/ Fill(e) \/ Chmod(e)

TargetStep(p) == (Complete(p) \/ Break(p) \/ Die(p)) /\ UNCHANGED <<storeVars, edoVars>>

AllEnded == \A e \in Edo : pc[e] \in Ended

(* Every edo process has ended: the end of the behaviour, not a deadlock.    *)
Done == AllEnded /\ UNCHANGED vars

Next ==
  \/ \E e \in Edo : EdoStep(e) \/ Kill(e)
  \/ \E p \in Pid : TargetStep(p)
  \/ Done

Spec == Init /\ [][Next]_vars

(* An edo process that can go on does: every wait has a deadline, and the    *)
(* calls of the driver, of CRIU and of the file system return. Nothing is    *)
(* assumed of the faults, of the driver's pending transitions or of a kill.  *)
FairSpec == Spec /\ \A e \in Edo : WF_vars(EdoStep(e))

-----------------------------------------------------------------------------
(* The PIDs whose lock e has taken and will release if it is left to run.    *)

HoldsAt(e, i) ==
  \/ pc[e] \in {"lock", "checkpoint", "waitCheckpointed"} \cup Dumping /\ i <= locked[e]
  \/ pc[e] = "waitLocked" /\ i <= locked[e] + 1
  \/ pc[e] \in Recovering \ {"recWaitRunning"} /\ idx[e] <= i /\ i <= locked[e]
  \/ pc[e] = "recWaitRunning" /\ idx[e] < i /\ i <= locked[e]

Held(e) == {Group[e][i] : i \in {j \in 1..Len(Group[e]) : HoldsAt(e, j)}}

(* No CUDA process is in the hands of two edo processes at once, although no  *)
(* code takes the snapshot lock the freeze protocol asks for: the driver's    *)
(* refusal to lock a process that is not RUNNING is the only exclusion, and   *)
(* it has to survive timeouts, failed recoveries and deaths.                  *)
Exclusive == \A e, f \in Edo : e # f => Held(e) \cap Held(f) = {}

(* A process that is held stays stopped: between its lock and the release by  *)
(* its holder no other recovery lets it run, so its GPU state cannot move     *)
(* between the checkpoint of one member of the group and the dump of all.     *)
HeldStopped ==
  \A e \in Edo : \A p \in Held(e) : cuda[p] # "Running" \/ pending[p] # "None"

(* A manifest that can be read describes a directory with exactly the images  *)
(* of one dump, by the process that wrote the manifest, taken when every      *)
(* member of the group was alive and CHECKPOINTED. What makes it so is that   *)
(* freeze_group writes the manifest after a complete recovery: a member lost  *)
(* between its checkpoint and the dump makes the recovery fail.               *)
PublishedConsistent ==
  \A d \in Dir : Published(d) =>
    /\ images[d] = {[by |-> manifest[d].by, quiescent |-> TRUE]}
    /\ manifest[d].of = images[d]

(* freeze-group exits 0 only with a snapshot of its own in its directory.     *)
OkPublished ==
  \A e \in Edo : pc[e] = "ok" => Published(Out[e]) /\ manifest[Out[e]].by = e

(* The PID whose wait for LOCKED failed: the one after those in `locked'.     *)
LeftLocked(e, p) ==
  /\ "pollLocked" \in Faulty
  /\ pc[e] \in Recovering \cup {"err"} /\ goal[e] = "abort"
  /\ locked[e] < Len(Group[e]) /\ p = Group[e][locked[e] + 1]
  /\ cuda[p] = "Locked"

(* A stopped process that lives has an edo process that is going to release   *)
(* it: it is what the error paths of freeze_group are for. All but one give   *)
(* everything back. A wait for LOCKED that fails leaves its own PID out, and  *)
(* what stays stopped is that PID alone, LOCKED and never CHECKPOINTED.       *)
RolledBack ==
  \A p \in Pid : alive[p] /\ cuda[p] # "Running" =>
    \E e \in Edo : p \in Held(e) \/ LeftLocked(e, p)

(* Once a snapshot can be read no later command changes its images or its     *)
(* manifest: an interrupted or refused freeze-group into the same directory   *)
(* leaves it alone.                                                           *)
PublishedKept ==
  [][\A d \in Dir : Published(d) => images'[d] = images[d] /\ manifest'[d] = manifest[d]]_vars

(* The refinement: what a command holds, the capture of its own that is in its *)
(* directory, and the snapshots that can be read.                            *)
CapturedBy(e) ==
  LET mine == {c \in images[Out[e]] : c.by = e}
  IN  IF mine = {} THEN "none" ELSE IF \A c \in mine : c.quiescent THEN "good" ELSE "torn"

Promise == INSTANCE GroupCapture WITH
  Nobody <- NoManifest,
  held <- [e \in Edo |-> Held(e)],
  dump <- [e \in Edo |-> CapturedBy(e)],
  snapshot <- [d \in Dir |-> IF Published(d) THEN manifest[d].by ELSE NoManifest]

(* freeze_group does no more than GroupCapture allows: whatever fails, times  *)
(* out, dies or runs beside it, it takes a process only from nobody, captures *)
(* only a group it holds, and publishes, once, a capture of its own of a group *)
(* that stood still, after it has let the group go.                          *)
CapturesGroups == Promise!Spec

(* Every edo process ends, whatever the driver and the other processes do.    *)
EveryEdoEnds == \A e \in Edo : <>(pc[e] \in Ended)

(* Every process that is stopped is let run again, but for the one whose wait *)
(* for LOCKED failed.                                                         *)
StoppedRunsAgain ==
  \A p \in Pid : (cuda[p] # "Running") ~>
    (cuda[p] = "Running" \/ ~alive[p] \/ \E e \in Edo : LeftLocked(e, p))

(* The next two say what comments of the code say.                            *)

(* "Resume the original CUDA processes after the checkpoint has been          *)
(* materialized" (main.rs:338-339): once freeze_group has dumped a group and  *)
(* has returned, each member that lives runs, unless another has stopped it.  *)
SourceResumed ==
  \A e \in Edo : pc[e] \in {"ok", "err"} /\ goal[e] = "resume" =>
    \A p \in Members(e) : Sees(p, "Running") \/ ~alive[p] \/ \E f \in Edo : p \in Held(f)

(* The link remaps of a live dump are kept "so a later restore can recreate   *)
(* deleted POSIX semaphores" (criu.rs:72-73): a snapshot that can be read has *)
(* its link remaps.                                                           *)
LinkRemapsKept == \A d \in Dir : Published(d) => d \in remaps

=============================================================================
