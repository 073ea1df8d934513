--------------------- MODULE FreezeGroupSnapshotProofs ----------------------
(* What the snapshots of freeze-group are, for any groups, directories and   *)
(* faults, and that FreezeGroup implements GroupCapture. Commands that are    *)
(* given one directory have to share a process, since nothing but the         *)
(* driver's lock keeps two of them from dumping into it: the test of          *)
(* prepare_directory and the creation after it are two calls.                *)
EXTENDS FreezeGroupProofs

DirectoryIsOneGroups ==
  \A e, f \in Edo : Out[e] = Out[f] => Members(e) \cap Members(f) # {}

-----------------------------------------------------------------------------
(* What a command has stopped stays stopped up to its dump, or has FAILED.    *)

Settled(p) == cuda[p] \in {"Checkpointed", "Failed"} /\ pending[p] = "None"

(* A checkpoint that has been accepted.                                      *)
Settling(p) == Settled(p) \/ (cuda[p] = "Locked" /\ pending[p] = "Checkpointed")

SettledAt(e, i) ==
  \/ pc[e] \in {"checkpoint", "waitCheckpointed"} /\ i < idx[e]
  \/ pc[e] \in Dumping

StopInv ==
  \A e \in Edo : \A i \in 1..Len(Group[e]) :
    /\ SettledAt(e, i) => Settled(Group[e][i])
    /\ pc[e] = "waitCheckpointed" /\ i = idx[e] => Settling(Group[e][i])

(* Nothing is called for a process in the hands of another.                  *)
LEMMA OthersKeepTheirs ==
  ASSUME HeldInv, NEW e \in Edo, NEW f \in Edo, e # f, EdoStep(e) \/ Kill(e),
         NEW p \in Held(f)
  PROVE  cuda'[p] = cuda[p] /\ pending'[p] = pending[p]
<1>1. Cur(e) \in Pid /\ p \in Pid
  BY GroupFacts, HeldMembers DEF HeldInv, TypeInv, EdoTypeOK, Cur
<1>2. ASSUME pc[e] \in {"checkpoint", "recRestore", "recUnlock"}
      PROVE  Cur(e) \in Held(e)
  <2>1. /\ idx[e] \in 1..Len(Group[e]) /\ idx[e] \in Nat /\ locked[e] \in Nat
        /\ Len(Group[e]) \in Nat
        /\ LoopAt(e, pc[e], idx[e], locked[e])
    BY GroupFacts DEF HeldInv, TypeInv, EdoTypeOK, LoopInv
  <2>2. HoldsAt(e, idx[e])
    BY <1>2, <2>1 DEF HoldsAt, LoopAt, Dumping, Recovering
  <2> QED BY <2>1, <2>2 DEF Held, Cur
<1>3. CASE p # Cur(e)
  BY <1>1, <1>3, EdoStepCalls
     DEF Calls, Lock, Checkpoint, Restore, Unlock, Call, driverVars, HeldInv, TypeInv, DriverTypeOK
<1>4. CASE p = Cur(e)
  <2>1. p \notin Held(e)
    BY DEF HeldInv, Exclusive
  <2>2. ~Lock(Cur(e))
    BY <1>4 DEF HeldInv, HeldNotReleased, Lock, Call, Ready
  <2> QED BY <1>2, <1>4, <2>1, <2>2, EdoStepCalls DEF Calls, driverVars
<1> QED BY <1>3, <1>4

LEMMA SettledIsHeld ==
  ASSUME TypeInv, NEW e \in Edo, NEW i \in 1..Len(Group[e]),
         SettledAt(e, i) \/ (pc[e] = "waitCheckpointed" /\ i = idx[e])
  PROVE  Group[e][i] \in Held(e)
<1>1. /\ idx[e] \in Nat /\ locked[e] \in Nat /\ Len(Group[e]) \in Nat
      /\ LoopAt(e, pc[e], idx[e], locked[e])
  BY GroupFacts DEF TypeInv, EdoTypeOK, LoopInv
<1>2. HoldsAt(e, i)
  BY <1>1 DEF SettledAt, HoldsAt, LoopAt, Dumping
<1> QED BY <1>2 DEF Held

(* The command's own steps: one round of the third loop settles one process. *)
LEMMA OwnStop ==
  ASSUME TypeInv, StopInv, NEW e \in Edo, EdoStep(e) \/ Kill(e),
         NEW i \in 1..Len(Group[e])
  PROVE  /\ SettledAt(e, i)' => Settled(Group[e][i])'
         /\ pc'[e] = "waitCheckpointed" /\ i = idx'[e] => Settling(Group[e][i])'
<1>1. /\ Len(Group[e]) \in Nat \ {0} /\ idx[e] \in 1..Len(Group[e]) /\ idx[e] \in Nat
      /\ pc \in [Edo -> Label] /\ idx \in [Edo -> Nat]
      /\ Cur(e) \in Pid /\ Group[e][i] \in Pid
      /\ Group[e][i] = Cur(e) <=> i = idx[e]
  BY GroupFacts DEF TypeInv, EdoTypeOK, Cur
<1>2. /\ SettledAt(e, i) => Settled(Group[e][i])
      /\ pc[e] = "waitCheckpointed" /\ i = idx[e] => Settling(Group[e][i])
  BY DEF StopInv
<1>3. CASE WaitLocked(e)
  BY <1>1, <1>3 DEF WaitLocked, NextRound, Abort, Recover, SettledAt, Dumping
<1>4. CASE CheckpointCall(e)
  <2>1. CASE Checkpoint(Cur(e)) /\ Goto(e, "waitCheckpointed")
    <3>1. /\ i # idx[e] => cuda'[Group[e][i]] = cuda[Group[e][i]]
                           /\ pending'[Group[e][i]] = pending[Group[e][i]]
          /\ i = idx[e] => Settling(Group[e][i])'
      BY <1>1, <2>1 DEF Checkpoint, Call, Ready, Settling, Settled, TypeInv, DriverTypeOK
    <3> QED BY <1>1, <1>2, <1>4, <2>1, <3>1 DEF CheckpointCall, Goto, SettledAt, Settled, Dumping
  <2>2. CASE Abort(e)
    BY <1>1, <2>2 DEF Abort, Recover, SettledAt, Dumping
  <2> QED BY <1>4, <2>1, <2>2 DEF CheckpointCall
<1>5. CASE WaitCheckpointed(e)
  <2>1. CASE Sees(Cur(e), "Checkpointed") /\ NextRound(e, Len(Group[e]), "checkpoint", "prepare")
    <3>1. i <= idx[e] => Settled(Group[e][i])
      BY <1>1, <1>2, <1>5, <2>1 DEF WaitCheckpointed, SettledAt, Settling, Settled, Sees, Cur
    <3>2. UNCHANGED driverVars
      BY <1>5 DEF WaitCheckpointed
    <3> QED BY <1>1, <1>5, <2>1, <3>1, <3>2
            DEF WaitCheckpointed, NextRound, SettledAt, Settled, driverVars, Dumping
  <2>2. CASE Abort(e)
    BY <1>1, <2>2 DEF Abort, Recover, SettledAt, Dumping
  <2> QED BY <1>5, <2>1, <2>2 DEF WaitCheckpointed
<1>6. CASE Prepare(e) \/ Create(e) \/ Clear(e) \/ Criu(e)
  BY <1>1, <1>2, <1>6 DEF Prepare, Create, Clear, Criu, Goto, Abort, Recover, SettledAt,
                          Settled, driverVars, Dumping
<1>7. CASE Start(e) \/ WaitRunning(e) \/ LockCall(e)
  BY <1>1, <1>7 DEF Start, WaitRunning, LockCall, Goto, NextRound, Abort, Recover, SettledAt,
                    Dumping
<1>8. CASE \/ RecoverState(e) \/ RecoverRestore(e) \/ RecoverWaitLocked(e)
           \/ RecoverUnlock(e) \/ RecoverWaitRunning(e)
  BY <1>1, <1>8 DEF RecoverState, RecoverRestore, RecoverWaitLocked, RecoverUnlock,
                    RecoverWaitRunning, NextRound, AfterRecovery, Goto, RecoverFails,
                    SettledAt, Dumping
<1>9. CASE Write(e) \/ Fill(e) \/ Chmod(e) \/ Kill(e)
  BY <1>1, <1>9 DEF Write, Fill, Chmod, Kill, Goto, SettledAt, Dumping
<1> QED BY <1>3, <1>4, <1>5, <1>6, <1>7, <1>8, <1>9 DEF EdoStep

LEMMA NextStop == HeldInv /\ StopInv /\ [Next]_vars => StopInv'
<1> SUFFICES ASSUME HeldInv, StopInv, [Next]_vars, NEW f \in Edo, NEW i \in 1..Len(Group[f])
             PROVE  /\ SettledAt(f, i)' => Settled(Group[f][i])'
                    /\ pc'[f] = "waitCheckpointed" /\ i = idx'[f] => Settling(Group[f][i])'
  BY DEF StopInv
<1>1. /\ SettledAt(f, i) => Settled(Group[f][i])
      /\ pc[f] = "waitCheckpointed" /\ i = idx[f] => Settling(Group[f][i])
  BY DEF StopInv
<1>2. ASSUME NEW e \in Edo, EdoStep(e) \/ Kill(e), e # f
      PROVE  /\ SettledAt(f, i)' => Settled(Group[f][i])'
             /\ pc'[f] = "waitCheckpointed" /\ i = idx'[f] => Settling(Group[f][i])'
  <2>1. pc'[f] = pc[f] /\ idx'[f] = idx[f]
    BY <1>2, EdoStepOthers DEF HeldInv
  <2>2. Group[f][i] \in Held(f) =>
           cuda'[Group[f][i]] = cuda[Group[f][i]] /\ pending'[Group[f][i]] = pending[Group[f][i]]
    BY <1>2, OthersKeepTheirs
  <2> QED BY <1>1, <2>1, <2>2, SettledIsHeld DEF HeldInv, SettledAt, Settled, Settling
<1>3. ASSUME NEW e \in Edo, EdoStep(e) \/ Kill(e), e = f
      PROVE  /\ SettledAt(f, i)' => Settled(Group[f][i])'
             /\ pc'[f] = "waitCheckpointed" /\ i = idx'[f] => Settling(Group[f][i])'
  BY <1>3, OwnStop DEF HeldInv
<1>4. ASSUME NEW p \in Pid, TargetStep(p)
      PROVE  /\ SettledAt(f, i)' => Settled(Group[f][i])'
             /\ pc'[f] = "waitCheckpointed" /\ i = idx'[f] => Settling(Group[f][i])'
  <2>1. SettledAt(f, i)' = SettledAt(f, i) /\ pc' = pc /\ idx' = idx
    BY <1>4 DEF TargetStep, edoVars, SettledAt
  <2>2. Group[f][i] \in Pid
    BY GroupFacts
  <2>3. /\ Settled(Group[f][i]) => Settled(Group[f][i])'
        /\ Settling(Group[f][i]) => Settling(Group[f][i])'
    BY <1>4, <2>2 DEF TargetStep, Complete, Break, Die, Settled, Settling, HeldInv, TypeInv,
                      DriverTypeOK
  <2> QED BY <1>1, <2>1, <2>3
<1>5. CASE UNCHANGED vars
  BY <1>1, <1>5 DEF vars, driverVars, edoVars, SettledAt, Settled, Settling
<1> QED BY <1>2, <1>3, <1>4, <1>5 DEF Next, Done

-----------------------------------------------------------------------------
(* A capture of a group that was not all stopped is of a group one of whose   *)
(* members has exited or FAILED, which the recovery after the dump finds      *)
(* before a manifest is written.                                             *)

Doomed(p) == ~alive[p] \/ (cuda[p] = "Failed" /\ pending[p] = "None")

(* The images of e's directory are those of its own dump.                    *)
Taken(e, q) == images[Out[e]] = {[by |-> e, quiescent |-> q]}

ResumeAt(e) ==
  /\ pc[e] \in Recovering \cup Writing \cup Ended
  /\ locked[e] = Len(Group[e])
  /\ Taken(e, TRUE) \/ Taken(e, FALSE)
  /\ pc[e] \in Recovering =>
       Taken(e, TRUE) \/ \E i \in idx[e]..Len(Group[e]) : Doomed(Group[e][i])

ResumeInv ==
  \A e \in Edo :
    /\ pc[e] \in Writing \cup {"ok"} => goal[e] = "resume" /\ Taken(e, TRUE)
    /\ goal[e] = "resume" => ResumeAt(e)

(* The manifest is written once, by the command whose images it is about.     *)
Own(e, s) == manifest[Out[e]] = [state |-> s, by |-> e, of |-> images[Out[e]]]

ManifestAt(e) ==
  /\ exists[Out[e]]
  /\ pc[e] \in Recovering \cup {"write"} => manifest[Out[e]] = NoManifest
  /\ pc[e] = "fill" => Own(e, "partial")
  /\ pc[e] \in {"chmod", "ok"} => Own(e, "complete")
  /\ pc[e] \in {"err", "killed"} =>
       \/ manifest[Out[e]] = NoManifest
       \/ Taken(e, TRUE) /\ (Own(e, "partial") \/ Own(e, "complete"))

Entered(e) == pc[e] \in {"create", "clear", "criu"}

DirectoryInv ==
  /\ \A e \in Edo :
       /\ pc[e] = "create" => ~exists[Out[e]]
       /\ pc[e] \in {"clear", "criu"} => exists[Out[e]]
       /\ goal[e] = "resume" => ManifestAt(e)
  /\ \A e, f \in Edo : e # f /\ Out[e] = Out[f] /\ goal[e] = "resume" =>
       goal[f] # "resume" /\ ~Entered(f)
  /\ \A d \in Dir : (\A e \in Edo : Out[e] = d => goal[e] # "resume") =>
       images[d] = {} /\ manifest[d] = NoManifest

SnapshotInv == HeldInv /\ StopInv /\ ResumeInv /\ DirectoryInv

LEMMA DumpingHoldsAll ==
  ASSUME TypeInv, NEW e \in Edo, pc[e] \in Dumping
  PROVE  Held(e) = Members(e)
<1>1. locked[e] = Len(Group[e]) /\ Len(Group[e]) \in Nat
  BY GroupFacts DEF TypeInv, EdoTypeOK, LoopInv, LoopAt
<1> QED BY <1>1 DEF Held, Members, HoldsAt

(* Two commands are never both between the test of prepare_directory and the  *)
(* end of criu dump, for the same directory.                                 *)
LEMMA OneDumps ==
  ASSUME DirectoryIsOneGroups, HeldInv, NEW e \in Edo, NEW f \in Edo, e # f,
         Out[e] = Out[f], pc[e] \in Dumping
  PROVE  pc[f] \notin Dumping
  BY DumpingHoldsAll DEF HeldInv, Exclusive, DirectoryIsOneGroups

LEMMA DoomedStays ==
  ASSUME TypeInv, [Next]_vars, NEW p \in Pid, Doomed(p)
  PROVE  Doomed(p)'
<1> USE DEF TypeInv, DriverTypeOK, Doomed
<1>1. ASSUME NEW e \in Edo, EdoStep(e) \/ Kill(e) PROVE Doomed(p)'
  BY <1>1, EdoStepCalls
     DEF Calls, Lock, Checkpoint, Restore, Unlock, Call, Ready, driverVars
<1>2. ASSUME NEW q \in Pid, TargetStep(q) PROVE Doomed(p)'
  BY <1>2 DEF TargetStep, Complete, Break, Die
<1>3. CASE UNCHANGED vars
  BY <1>3 DEF vars, driverVars
<1> QED BY <1>1, <1>2, <1>3 DEF Next, Done

(* Which steps of a command touch which directory.                           *)
LEMMA StoreSteps ==
  ASSUME TypeInv, NEW e \in Edo, EdoStep(e) \/ Kill(e)
  PROVE  /\ \A d \in Dir \ {Out[e]} :
              images'[d] = images[d] /\ manifest'[d] = manifest[d] /\ exists'[d] = exists[d]
         /\ \A d \in Dir : exists[d] => exists'[d]
         /\ pc[e] # "create" => exists' = exists
         /\ pc[e] # "criu" => images' = images
         /\ pc[e] \notin {"criu", "write", "fill"} => manifest' = manifest
<1> USE DEF TypeInv, StoreTypeOK
<1>1. CASE Create(e) \/ Clear(e)
  BY <1>1 DEF Create, Clear, CreateDirectory, ClearLinkRemaps, storeVars
<1>2. CASE Criu(e)
  BY <1>2 DEF Criu, DumpSucceeds, DumpFails
<1>3. CASE Write(e) \/ Fill(e)
  BY <1>3 DEF Write, Fill, OpenManifest, FillManifest, storeVars
<1>4. CASE UNCHANGED storeVars
  BY <1>4 DEF storeVars
<1> QED BY <1>1, <1>2, <1>3, <1>4
        DEF EdoStep, Start, WaitRunning, LockCall, WaitLocked, CheckpointCall,
            WaitCheckpointed, Prepare, RecoverState, RecoverRestore, RecoverWaitLocked,
            RecoverUnlock, RecoverWaitRunning, Chmod, Kill

(* What a dump of e's leaves.                                                 *)
LEMMA DumpTakes ==
  ASSUME SnapshotInv, DirectoryIsOneGroups, NEW e \in Edo, pc[e] = "criu"
  PROVE  /\ images[Out[e]] = {} /\ manifest[Out[e]] = NoManifest
         /\ \A f \in Edo : Out[f] = Out[e] => goal[f] # "resume"
<1>1. goal[e] # "resume"
  BY DEF SnapshotInv, ResumeInv, ResumeAt, Recovering, Writing, Ended
<1>2. \A f \in Edo : Out[f] = Out[e] => goal[f] # "resume"
  BY <1>1 DEF SnapshotInv, DirectoryInv, Entered
<1> QED BY <1>2, GroupFacts DEF SnapshotInv, DirectoryInv

(* A recovery that has been through every member has found none doomed.       *)
LEMMA OwnResume ==
  ASSUME SnapshotInv, DirectoryIsOneGroups, [Next]_vars, NEW e \in Edo, EdoStep(e) \/ Kill(e)
  PROVE  /\ pc'[e] \in Writing \cup {"ok"} => goal'[e] = "resume" /\ Taken(e, TRUE)'
         /\ goal'[e] = "resume" => ResumeAt(e)'
<1>1. /\ Len(Group[e]) \in Nat \ {0} /\ idx[e] \in 1..Len(Group[e]) /\ idx[e] \in Nat
      /\ locked[e] \in Nat /\ Out[e] \in Dir
      /\ pc \in [Edo -> Label] /\ idx \in [Edo -> Nat] /\ locked \in [Edo -> Nat]
      /\ goal \in [Edo -> {"none", "abort", "resume"}]
      /\ LoopAt(e, pc[e], idx[e], locked[e])
      /\ \A i \in 1..Len(Group[e]) : Group[e][i] \in Pid
  BY GroupFacts DEF SnapshotInv, HeldInv, TypeInv, EdoTypeOK, LoopInv
<1>2. /\ pc[e] \in Writing \cup {"ok"} => goal[e] = "resume" /\ Taken(e, TRUE)
      /\ goal[e] = "resume" => ResumeAt(e)
  BY DEF SnapshotInv, ResumeInv
<1>3. \A i \in 1..Len(Group[e]) : Doomed(Group[e][i]) => Doomed(Group[e][i])'
  BY <1>1, DoomedStays DEF SnapshotInv, HeldInv
<1>4. ASSUME pc[e] # "criu"
      PROVE  (Taken(e, TRUE)' <=> Taken(e, TRUE)) /\ (Taken(e, FALSE)' <=> Taken(e, FALSE))
  BY <1>4, StoreSteps DEF SnapshotInv, HeldInv, Taken
<1> USE DEF Recovering, Writing, Ended
<1>5. CASE Criu(e)
  <2>1. CASE Abort(e)
    BY <1>1, <2>1 DEF Abort, Recover
  <2>2. CASE /\ DumpSucceeds(Out[e], [by |-> e, quiescent |-> Quiescent(e)], TRUE)
             /\ Recover(e, "resume") /\ UNCHANGED locked
    <3>1. pc'[e] = "recState" /\ idx'[e] = 1 /\ locked'[e] = Len(Group[e])
      BY <1>1, <1>5, <2>2 DEF Criu, Recover, LoopAt, Dumping
    <3>2. images[Out[e]] = {}
      BY <1>5, DumpTakes DEF Criu
    <3>3. images'[Out[e]] = {[by |-> e, quiescent |-> Quiescent(e)]}
      BY <1>1, <2>2, <3>2 DEF DumpSucceeds, SnapshotInv, HeldInv, TypeInv, StoreTypeOK
    <3>4. CASE Quiescent(e)
      <4>1. Quiescent(e) = TRUE
        BY <3>4 DEF Quiescent
      <4>2. Taken(e, TRUE)'
        BY <3>3, <4>1 DEF Taken
      <4> QED BY <3>1, <4>2 DEF ResumeAt
    <3>5. CASE ~Quiescent(e)
      <4>1. Quiescent(e) = FALSE
        BY <3>5 DEF Quiescent
      <4>2. Taken(e, FALSE)'
        BY <3>3, <4>1 DEF Taken
      <4>3. PICK i \in 1..Len(Group[e]) : ~Sees(Group[e][i], "Checkpointed")
        BY <3>5 DEF Quiescent, Members
      <4>4. Settled(Group[e][i])
        BY <1>5 DEF Criu, SnapshotInv, StopInv, SettledAt, Dumping
      <4>5. Doomed(Group[e][i])
        BY <4>3, <4>4 DEF Settled, Sees, Doomed
      <4>6. Doomed(Group[e][i])'
        BY <1>3, <4>5
      <4> QED BY <1>1, <3>1, <4>2, <4>6 DEF ResumeAt
    <3> QED BY <3>4, <3>5
  <2> QED BY <1>5, <2>1, <2>2 DEF Criu
<1>6. CASE \/ Start(e) \/ WaitRunning(e) \/ LockCall(e) \/ WaitLocked(e) \/ CheckpointCall(e)
           \/ WaitCheckpointed(e) \/ Prepare(e) \/ Create(e) \/ Clear(e)
  <2>1. goal[e] # "resume"
    BY <1>2, <1>6 DEF ResumeAt, Start, WaitRunning, LockCall, WaitLocked, CheckpointCall,
                      WaitCheckpointed, Prepare, Create, Clear
  <2> QED BY <1>1, <1>6, <2>1
          DEF Start, WaitRunning, LockCall, WaitLocked, CheckpointCall, WaitCheckpointed,
              Prepare, Create, Clear, Goto, NextRound, Abort, Recover
<1>7. CASE RecoverState(e) \/ RecoverRestore(e) \/ RecoverWaitLocked(e) \/ RecoverUnlock(e)
  <2>1. /\ pc[e] \in Recovering /\ pc'[e] \in Recovering \cup {"err"}
        /\ UNCHANGED <<idx, goal, locked>>
    BY <1>1, <1>7 DEF RecoverState, RecoverRestore, RecoverWaitLocked, RecoverUnlock,
                      RecoverFails, Goto
  <2>2. ASSUME goal[e] = "resume", ~Taken(e, TRUE)
        PROVE  \E i \in idx'[e]..Len(Group[e]) : Doomed(Group[e][i])'
    <3>1. PICK i \in idx[e]..Len(Group[e]) : Doomed(Group[e][i])
      BY <1>2, <2>1, <2>2 DEF ResumeAt
    <3>2. i \in 1..Len(Group[e]) /\ i \in idx'[e]..Len(Group[e])
      BY <1>1, <2>1
    <3> QED BY <1>3, <3>1, <3>2
  <2> QED BY <1>1, <1>2, <1>4, <2>1, <2>2 DEF ResumeAt
<1>8. CASE RecoverWaitRunning(e)
  <2>1. CASE RecoverFails(e)
    BY <1>1, <1>2, <1>4, <1>8, <2>1 DEF RecoverWaitRunning, RecoverFails, Goto, ResumeAt
  <2>2. CASE Sees(Cur(e), "Running") /\ NextRound(e, locked[e], "recState", AfterRecovery(e))
    <3>1. ~Doomed(Group[e][idx[e]]) /\ goal' = goal /\ locked' = locked /\ pc[e] = "recWaitRunning"
      BY <1>8, <2>2 DEF Sees, Cur, Doomed, NextRound, RecoverWaitRunning
    <3>2. CASE idx[e] = locked[e]
      <4>1. pc'[e] = AfterRecovery(e)
        BY <1>1, <2>2, <3>2 DEF NextRound
      <4>2. goal[e] = "resume" => Taken(e, TRUE)
        <5>1. ASSUME goal[e] = "resume" PROVE idx[e]..Len(Group[e]) = {idx[e]}
          BY <1>1, <1>2, <3>2, <5>1 DEF ResumeAt
        <5> QED BY <1>2, <3>1, <5>1 DEF ResumeAt
      <4> QED BY <1>1, <1>2, <1>4, <3>1, <4>1, <4>2 DEF AfterRecovery, ResumeAt
    <3>3. CASE idx[e] # locked[e]
      <4>1. pc'[e] = "recState" /\ idx'[e] = idx[e] + 1
        BY <1>1, <2>2, <3>3 DEF NextRound
      <4>2. ASSUME goal[e] = "resume", ~Taken(e, TRUE)
            PROVE  \E i \in idx'[e]..Len(Group[e]) : Doomed(Group[e][i])'
        <5>1. PICK i \in idx[e]..Len(Group[e]) : Doomed(Group[e][i])
          BY <1>2, <3>1, <4>2 DEF ResumeAt
        <5>2. i \in 1..Len(Group[e]) /\ i \in idx'[e]..Len(Group[e])
          BY <1>1, <3>1, <4>1, <5>1
        <5> QED BY <1>3, <5>1, <5>2
      <4> QED BY <1>1, <1>2, <1>4, <3>1, <4>1, <4>2 DEF ResumeAt
    <3> QED BY <3>2, <3>3
  <2> QED BY <1>8, <2>1, <2>2 DEF RecoverWaitRunning
<1>9. CASE Write(e) \/ Fill(e) \/ Chmod(e) \/ Kill(e)
  <2>1. /\ pc'[e] \in Writing \cup Ended /\ goal' = goal /\ locked' = locked
        /\ pc'[e] \in Writing \cup {"ok"} => pc[e] \in Writing
        /\ pc[e] = "criu" => pc'[e] = "killed"
    BY <1>1, <1>9 DEF Write, Fill, Chmod, Kill, Goto
  <2>2. pc[e] = "criu" => goal[e] # "resume"
    BY <1>2 DEF ResumeAt
  <2> QED BY <1>2, <1>4, <2>1, <2>2 DEF ResumeAt
<1> QED BY <1>5, <1>6, <1>7, <1>8, <1>9 DEF EdoStep

(* How a command comes to a directory, and to its recovery after the dump.    *)
LEMMA GoalSteps ==
  ASSUME TypeInv, ResumeInv, NEW e \in Edo, EdoStep(e) \/ Kill(e)
  PROVE  /\ goal[e] = "resume" => goal'[e] = "resume"
         /\ goal[e] # "resume" /\ goal'[e] = "resume" => pc[e] = "criu"
         /\ pc'[e] = "create" => pc[e] = "prepare" /\ ~exists[Out[e]] /\ exists' = exists
         /\ pc'[e] = "clear" => pc[e] = "create" /\ exists'[Out[e]]
         /\ pc'[e] = "criu" => pc[e] = "clear" /\ exists' = exists
<1>1. /\ pc \in [Edo -> Label] /\ goal \in [Edo -> {"none", "abort", "resume"}]
      /\ exists \in [Dir -> BOOLEAN] /\ Out[e] \in Dir
      /\ goal[e] = "resume" => pc[e] \in Recovering \cup Writing \cup Ended
  BY GroupFacts DEF TypeInv, EdoTypeOK, StoreTypeOK, ResumeInv, ResumeAt
<1> USE <1>1 DEF Recovering, Writing, Ended
<1>2. CASE Start(e) \/ WaitRunning(e) \/ LockCall(e) \/ WaitLocked(e)
  BY <1>2 DEF Start, WaitRunning, LockCall, WaitLocked, Goto, NextRound, Abort, Recover
<1>3. CASE CheckpointCall(e) \/ WaitCheckpointed(e)
  BY <1>3 DEF CheckpointCall, WaitCheckpointed, Goto, NextRound, Abort, Recover
<1>4. CASE Prepare(e) \/ Create(e) \/ Clear(e) \/ Criu(e)
  BY <1>4 DEF Prepare, Create, Clear, Criu, Goto, Abort, Recover, CreateDirectory,
              ClearLinkRemaps, storeVars
<1>5. CASE \/ RecoverState(e) \/ RecoverRestore(e) \/ RecoverWaitLocked(e)
           \/ RecoverUnlock(e) \/ RecoverWaitRunning(e)
  BY <1>5 DEF RecoverState, RecoverRestore, RecoverWaitLocked, RecoverUnlock,
              RecoverWaitRunning, NextRound, AfterRecovery, Goto, RecoverFails
<1>6. CASE Write(e) \/ Fill(e) \/ Chmod(e) \/ Kill(e)
  BY <1>6 DEF Write, Fill, Chmod, Kill, Goto
<1> QED BY <1>2, <1>3, <1>4, <1>5, <1>6 DEF EdoStep

LEMMA OwnManifest ==
  ASSUME SnapshotInv, DirectoryIsOneGroups, NEW e \in Edo, EdoStep(e) \/ Kill(e),
         goal'[e] = "resume"
  PROVE  ManifestAt(e)'
<1>1. /\ Out[e] \in Dir /\ pc \in [Edo -> Label]
      /\ exists \in [Dir -> BOOLEAN] /\ manifest \in [Dir -> Manifest]
      /\ goal \in [Edo -> {"none", "abort", "resume"}]
  BY GroupFacts DEF SnapshotInv, HeldInv, TypeInv, EdoTypeOK, StoreTypeOK
<1>2. goal[e] = "resume" =>
        ManifestAt(e) /\ pc[e] \in Recovering \cup Writing \cup Ended
  BY DEF SnapshotInv, DirectoryInv, ResumeInv, ResumeAt
<1>3. pc[e] \in Writing \cup {"ok"} => goal[e] = "resume" /\ Taken(e, TRUE)
  BY DEF SnapshotInv, ResumeInv
<1> USE DEF Recovering, Writing, Ended
<1>4. CASE Criu(e)
  <2>1. /\ DumpSucceeds(Out[e], [by |-> e, quiescent |-> Quiescent(e)], TRUE)
        /\ Recover(e, "resume")
    BY <1>1, <1>4 DEF Criu, Abort, Recover
  <2>2. manifest[Out[e]] = NoManifest /\ exists[Out[e]]
    BY <1>4, DumpTakes DEF Criu, SnapshotInv, DirectoryInv
  <2>3. pc'[e] \in Recovering
    BY <1>1, <1>4, <2>1, GroupFacts
       DEF Criu, Recover, SnapshotInv, HeldInv, TypeInv, EdoTypeOK, LoopInv, LoopAt, Dumping
  <2> QED BY <1>1, <2>1, <2>2, <2>3 DEF DumpSucceeds, ManifestAt
<1>5. CASE /\ \/ RecoverState(e) \/ RecoverRestore(e) \/ RecoverWaitLocked(e)
              \/ RecoverUnlock(e) \/ RecoverWaitRunning(e)
  <2>1. /\ pc[e] \in Recovering /\ pc'[e] \in Recovering \cup {"write", "err"}
        /\ goal[e] = "resume" /\ UNCHANGED storeVars
    BY <1>1, <1>5 DEF RecoverState, RecoverRestore, RecoverWaitLocked, RecoverUnlock,
                      RecoverWaitRunning, RecoverFails, AfterRecovery, Goto, NextRound
  <2> QED BY <1>2, <2>1 DEF ManifestAt, storeVars
<1>6. CASE Write(e)
  <2>1. goal[e] = "resume" /\ exists' = exists
    BY <1>3, <1>6 DEF Write, OpenManifest, storeVars
  <2>2. CASE OpenManifest(Out[e], e) /\ Goto(e, "fill")
    <3>1. pc'[e] = "fill" /\ images' = images
          /\ manifest'[Out[e]] = [state |-> "partial", by |-> e, of |-> images[Out[e]]]
      BY <1>1, <2>2 DEF OpenManifest, Goto
    <3> QED BY <1>2, <2>1, <3>1 DEF ManifestAt, Own
  <2>3. CASE Goto(e, "err") /\ UNCHANGED storeVars
    BY <1>1, <1>2, <1>6, <2>1, <2>3 DEF Write, Goto, ManifestAt, storeVars
  <2> QED BY <1>6, <2>2, <2>3 DEF Write
<1>7. CASE Fill(e)
  <2>1. goal[e] = "resume" /\ Own(e, "partial") /\ Taken(e, TRUE) /\ exists' = exists
        /\ exists[Out[e]] /\ images' = images
    BY <1>2, <1>3, <1>7 DEF Fill, FillManifest, ManifestAt, storeVars
  <2>2. CASE FillManifest(Out[e]) /\ Goto(e, "chmod")
    <3>1. manifest[Out[e]] # NoManifest
      BY <2>1 DEF Own, NoManifest
    <3>2. pc'[e] = "chmod"
          /\ manifest'[Out[e]] = [state |-> "complete", by |-> e, of |-> images[Out[e]]]
      BY <1>1, <2>1, <2>2, <3>1 DEF FillManifest, Goto, Own
    <3> QED BY <2>1, <3>2 DEF ManifestAt, Own
  <2>3. CASE Goto(e, "err") /\ UNCHANGED storeVars
    BY <1>1, <2>1, <2>3 DEF Goto, ManifestAt, Own, Taken, storeVars
  <2> QED BY <1>7, <2>2, <2>3 DEF Fill
<1>8. CASE Chmod(e)
  <2>1. goal[e] = "resume" /\ Own(e, "complete") /\ Taken(e, TRUE) /\ UNCHANGED storeVars
        /\ pc'[e] \in {"ok", "err"} /\ exists[Out[e]]
    BY <1>1, <1>2, <1>3, <1>8 DEF Chmod, Goto, ManifestAt
  <2> QED BY <2>1 DEF ManifestAt, Own, Taken, storeVars
<1>9. CASE Kill(e)
  <2>1. goal[e] = "resume" /\ UNCHANGED storeVars /\ pc'[e] = "killed" /\ pc[e] \notin Ended
    BY <1>1, <1>9 DEF Kill, Goto
  <2>2. exists[Out[e]]
    BY <1>2, <2>1 DEF ManifestAt
  <2>3. \/ manifest[Out[e]] = NoManifest
        \/ Taken(e, TRUE) /\ (Own(e, "partial") \/ Own(e, "complete"))
    BY <1>2, <1>3, <2>1 DEF ManifestAt
  <2> QED BY <2>1, <2>2, <2>3 DEF ManifestAt, Own, Taken, storeVars
<1>10. CASE \/ Start(e) \/ WaitRunning(e) \/ LockCall(e) \/ WaitLocked(e) \/ CheckpointCall(e)
            \/ WaitCheckpointed(e) \/ Prepare(e) \/ Create(e) \/ Clear(e)
  <2>1. pc[e] # "criu" /\ pc[e] \notin Recovering \cup Writing \cup Ended
    BY <1>10 DEF Start, WaitRunning, LockCall, WaitLocked, CheckpointCall, WaitCheckpointed,
                 Prepare, Create, Clear
  <2> QED BY <1>2, <2>1, GoalSteps DEF SnapshotInv, HeldInv
<1> QED BY <1>4, <1>5, <1>6, <1>7, <1>8, <1>9, <1>10 DEF EdoStep

(* A directory with images of a command stays that command's.                *)
LEMMA EdoStepDirectory ==
  ASSUME SnapshotInv, DirectoryIsOneGroups, NEW s \in Edo, EdoStep(s) \/ Kill(s)
  PROVE  DirectoryInv'
<1>1. /\ \A e \in Edo : Out[e] \in Dir
      /\ exists \in [Dir -> BOOLEAN]
      /\ goal[s] # "resume" => pc[s] \notin Writing
      /\ \A f \in Edo \ {s} : pc'[f] = pc[f] /\ goal'[f] = goal[f]
  BY GroupFacts, EdoStepOthers DEF SnapshotInv, HeldInv, TypeInv, StoreTypeOK, ResumeInv
<1>2. \A e \in Edo :
        /\ pc[e] = "create" => ~exists[Out[e]]
        /\ pc[e] \in {"clear", "criu"} => exists[Out[e]]
        /\ goal[e] = "resume" => ManifestAt(e)
  BY DEF SnapshotInv, DirectoryInv
<1>3. \A e, f \in Edo : e # f /\ Out[e] = Out[f] /\ goal[e] = "resume" =>
        goal[f] # "resume" /\ ~Entered(f)
  BY DEF SnapshotInv, DirectoryInv
<1>4. ASSUME NEW f \in Edo
      PROVE  /\ pc'[f] = "create" => ~exists'[Out[f]]
             /\ pc'[f] \in {"clear", "criu"} => exists'[Out[f]]
  <2>1. CASE f = s
    BY <1>2, <2>1, GoalSteps DEF SnapshotInv, HeldInv
  <2>2. CASE f # s
    <3>1. pc[f] = "create" => exists'[Out[f]] = exists[Out[f]]
      BY <1>1, <2>2, OneDumps, StoreSteps DEF SnapshotInv, HeldInv, Dumping
    <3>2. exists[Out[f]] => exists'[Out[f]]
      BY <1>1, StoreSteps DEF SnapshotInv, HeldInv
    <3> QED BY <1>1, <1>2, <2>2, <3>1, <3>2
  <2> QED BY <2>1, <2>2
<1>5. ASSUME NEW f \in Edo, goal'[f] = "resume"
      PROVE  ManifestAt(f)'
  <2>1. CASE f = s
    BY <1>5, <2>1, OwnManifest
  <2>2. CASE f # s
    <3>1. goal[f] = "resume" /\ pc'[f] = pc[f]
      BY <1>1, <1>5, <2>2
    <3>2. Out[f] = Out[s] => pc[s] \notin {"create", "criu"} \cup Writing
      BY <1>1, <1>3, <2>2, <3>1 DEF Entered
    <3>3. /\ exists'[Out[f]] = exists[Out[f]] /\ images'[Out[f]] = images[Out[f]]
          /\ manifest'[Out[f]] = manifest[Out[f]]
      BY <1>1, <3>2, StoreSteps DEF SnapshotInv, HeldInv, Writing
    <3> QED BY <1>2, <3>1, <3>3 DEF ManifestAt, Own, Taken
  <2> QED BY <2>1, <2>2
<1>6. ASSUME NEW e \in Edo, NEW f \in Edo, e # f, Out[e] = Out[f], goal'[e] = "resume"
      PROVE  goal'[f] # "resume" /\ ~Entered(f)'
  <2>1. CASE goal[e] = "resume"
    <3>1. goal[f] # "resume" /\ ~Entered(f) /\ exists[Out[f]]
      BY <1>2, <1>3, <1>6, <2>1 DEF ManifestAt
    <3> QED BY <1>1, <3>1, GoalSteps DEF Entered, SnapshotInv, HeldInv
  <2>2. CASE goal[e] # "resume"
    <3>1. e = s /\ pc[e] = "criu"
      BY <1>1, <1>6, <2>2, GoalSteps DEF SnapshotInv, HeldInv
    <3>2. goal[f] # "resume" /\ pc[f] \notin Dumping
      BY <1>6, <3>1, DumpTakes, OneDumps DEF SnapshotInv, Dumping
    <3> QED BY <1>1, <1>6, <3>1, <3>2 DEF Entered, Dumping
  <2> QED BY <2>1, <2>2
<1>7. ASSUME NEW d \in Dir, \A e \in Edo : Out[e] = d => goal'[e] # "resume"
      PROVE  images'[d] = {} /\ manifest'[d] = NoManifest
  <2>1. \A e \in Edo : Out[e] = d => goal[e] # "resume"
    BY <1>1, <1>7, GoalSteps DEF SnapshotInv, HeldInv
  <2>2. images[d] = {} /\ manifest[d] = NoManifest
    BY <2>1 DEF SnapshotInv, DirectoryInv
  <2>3. CASE Criu(s) /\ Out[s] = d
    <3>1. DumpFails(d)
      BY <1>7, <2>3 DEF Criu, Recover, SnapshotInv, HeldInv, TypeInv, EdoTypeOK
    <3> QED BY <3>1 DEF DumpFails, SnapshotInv, HeldInv, TypeInv, StoreTypeOK
  <2>4. CASE ~Criu(s) \/ Out[s] # d
    <3>1. Out[s] = d => pc[s] \notin Writing
      BY <1>1, <2>1
    <3>2. pc[s] = "criu" => Criu(s) \/ UNCHANGED storeVars
      BY DEF EdoStep, Start, WaitRunning, LockCall, WaitLocked, CheckpointCall,
             WaitCheckpointed, Prepare, Create, Clear, RecoverState, RecoverRestore,
             RecoverWaitLocked, RecoverUnlock, RecoverWaitRunning, Write, Fill, Chmod, Kill
    <3> QED BY <1>7, <2>2, <2>4, <3>1, <3>2, StoreSteps
            DEF SnapshotInv, HeldInv, Writing, storeVars
  <2> QED BY <2>3, <2>4
<1> QED BY <1>4, <1>5, <1>6, <1>7 DEF DirectoryInv

LEMMA InitSnapshots == Init => SnapshotInv
<1> SUFFICES ASSUME Init PROVE SnapshotInv
  OBVIOUS
<1>1. StopInv
  BY DEF Init, StopInv, SettledAt, Dumping
<1>2. ResumeInv
  BY DEF Init, ResumeInv, Writing
<1>3. DirectoryInv
  BY DEF Init, StoreInit, DirectoryInv, Entered
<1> QED BY <1>1, <1>2, <1>3, InitHeld DEF SnapshotInv

LEMMA NextSnapshots ==
  ASSUME DirectoryIsOneGroups
  PROVE  SnapshotInv /\ [Next]_vars => SnapshotInv'
<1> SUFFICES ASSUME SnapshotInv, [Next]_vars PROVE SnapshotInv'
  OBVIOUS
<1>1. HeldInv' /\ StopInv'
  BY NextHeld, NextStop DEF SnapshotInv
<1>2. ASSUME NEW s \in Edo, EdoStep(s) \/ Kill(s)
      PROVE  ResumeInv'
  <2> SUFFICES ASSUME NEW e \in Edo
               PROVE  /\ pc'[e] \in Writing \cup {"ok"} => goal'[e] = "resume" /\ Taken(e, TRUE)'
                      /\ goal'[e] = "resume" => ResumeAt(e)'
    BY DEF ResumeInv
  <2>1. CASE e = s
    BY <1>2, <2>1, OwnResume
  <2>2. CASE e # s
    <3>1. pc'[e] = pc[e] /\ idx'[e] = idx[e] /\ locked'[e] = locked[e] /\ goal'[e] = goal[e]
      BY <1>2, <2>2, EdoStepOthers DEF SnapshotInv, HeldInv
    <3>2. goal[e] = "resume" => images'[Out[e]] = images[Out[e]]
      BY <1>2, <2>2, StoreSteps, GroupFacts DEF SnapshotInv, HeldInv, DirectoryInv, Entered
    <3>3. \A i \in idx[e]..Len(Group[e]) : Doomed(Group[e][i]) => Doomed(Group[e][i])'
      <4>1. \A i \in idx[e]..Len(Group[e]) : Group[e][i] \in Pid
        BY GroupFacts DEF SnapshotInv, HeldInv, TypeInv, EdoTypeOK
      <4> QED BY <4>1, DoomedStays DEF SnapshotInv, HeldInv
    <3>4. /\ pc[e] \in Writing \cup {"ok"} => goal[e] = "resume" /\ Taken(e, TRUE)
          /\ goal[e] = "resume" => ResumeAt(e)
      BY DEF SnapshotInv, ResumeInv
    <3>5. goal[e] = "resume" =>
            (Taken(e, TRUE)' <=> Taken(e, TRUE)) /\ (Taken(e, FALSE)' <=> Taken(e, FALSE))
      BY <3>2 DEF Taken
    <3>6. ASSUME goal[e] = "resume" PROVE ResumeAt(e)'
      <4>1. (\E i \in idx[e]..Len(Group[e]) : Doomed(Group[e][i])) =>
               \E i \in idx'[e]..Len(Group[e]) : Doomed(Group[e][i])'
        BY <3>1, <3>3
      <4> QED BY <3>1, <3>4, <3>5, <3>6, <4>1 DEF ResumeAt
    <3> QED BY <3>1, <3>4, <3>5, <3>6
  <2> QED BY <2>1, <2>2
<1>3. ASSUME NEW s \in Edo, EdoStep(s) \/ Kill(s)
      PROVE  SnapshotInv'
  BY <1>1, <1>2, <1>3, EdoStepDirectory DEF SnapshotInv
<1>4. ASSUME UNCHANGED <<storeVars, edoVars>>
      PROVE  ResumeInv' /\ DirectoryInv'
  <2> USE <1>4 DEF storeVars, edoVars
  <2>1. DirectoryInv'
    BY DEF SnapshotInv, DirectoryInv, ManifestAt, Own, Taken, Entered
  <2>2. ASSUME NEW e \in Edo, ResumeAt(e) PROVE ResumeAt(e)'
    <3>1. \A i \in idx[e]..Len(Group[e]) : Doomed(Group[e][i]) => Doomed(Group[e][i])'
      <4>1. \A i \in idx[e]..Len(Group[e]) : Group[e][i] \in Pid
        BY GroupFacts DEF SnapshotInv, HeldInv, TypeInv, EdoTypeOK
      <4> QED BY <4>1, DoomedStays DEF SnapshotInv, HeldInv
    <3>2. (\E i \in idx[e]..Len(Group[e]) : Doomed(Group[e][i])) =>
             \E i \in idx'[e]..Len(Group[e]) : Doomed(Group[e][i])'
      BY <3>1
    <3>3. (Taken(e, TRUE)' <=> Taken(e, TRUE)) /\ (Taken(e, FALSE)' <=> Taken(e, FALSE))
      BY DEF Taken
    <3> QED BY <2>2, <3>2, <3>3 DEF ResumeAt
  <2>3. ResumeInv'
    BY <2>2 DEF SnapshotInv, ResumeInv, Taken
  <2> QED BY <2>1, <2>3
<1>5. ASSUME NEW p \in Pid, TargetStep(p) PROVE SnapshotInv'
  BY <1>1, <1>4, <1>5 DEF TargetStep, SnapshotInv
<1>6. CASE UNCHANGED vars
  BY <1>1, <1>4, <1>6 DEF vars, SnapshotInv
<1> QED BY <1>3, <1>5, <1>6 DEF Next, Done

-----------------------------------------------------------------------------

(* Who has written a manifest, and of what.                                  *)
LEMMA PublishedIsOwn ==
  ASSUME SnapshotInv, NEW d \in Dir, manifest[d] # NoManifest
  PROVE  \E e \in Edo :
           /\ Out[e] = d /\ goal[e] = "resume" /\ Taken(e, TRUE)
           /\ Own(e, "partial") \/ Own(e, "complete")
           /\ pc[e] \notin Recovering \cup {"write"}
           /\ pc[e] = "fill" => Own(e, "partial")
<1>1. PICK e \in Edo : Out[e] = d /\ goal[e] = "resume"
  BY DEF SnapshotInv, DirectoryInv
<1>2. ManifestAt(e) /\ ResumeAt(e) /\ (pc[e] \in Writing \cup {"ok"} => Taken(e, TRUE))
  BY <1>1 DEF SnapshotInv, DirectoryInv, ResumeInv
<1> QED BY <1>1, <1>2 DEF ManifestAt, ResumeAt, Writing, Ended, Recovering

(* A snapshot that can be read is one dump of a group that stood still, by    *)
(* the command that wrote its manifest.                                      *)
THEOREM SnapshotsConsistent ==
  ASSUME DirectoryIsOneGroups
  PROVE  Spec => []PublishedConsistent
<1>1. SnapshotInv => PublishedConsistent
  <2> SUFFICES ASSUME SnapshotInv, NEW d \in Dir, Published(d)
               PROVE  /\ images[d] = {[by |-> manifest[d].by, quiescent |-> TRUE]}
                      /\ manifest[d].of = images[d]
    BY DEF PublishedConsistent
  <2>1. manifest[d] # NoManifest
    BY DEF Published, NoManifest
  <2>2. PICK e \in Edo : /\ Out[e] = d /\ Taken(e, TRUE)
                         /\ Own(e, "partial") \/ Own(e, "complete")
    BY <2>1, PublishedIsOwn
  <2> QED BY <2>2 DEF Own, Taken
<1> QED BY <1>1, InitSnapshots, NextSnapshots, PTL DEF Spec

(* An exit status of 0 is a snapshot of one's own.                           *)
THEOREM SuccessIsPublished ==
  ASSUME DirectoryIsOneGroups
  PROVE  Spec => []OkPublished
<1>1. SnapshotInv => OkPublished
  <2> SUFFICES ASSUME SnapshotInv, NEW e \in Edo, pc[e] = "ok"
               PROVE  Published(Out[e]) /\ manifest[Out[e]].by = e
    BY DEF OkPublished
  <2>1. Own(e, "complete")
    BY DEF SnapshotInv, ResumeInv, DirectoryInv, ManifestAt
  <2> QED BY <2>1 DEF Own, Published
<1> QED BY <1>1, InitSnapshots, NextSnapshots, PTL DEF Spec

LEMMA StepKeepsPublished ==
  ASSUME SnapshotInv, DirectoryIsOneGroups, [Next]_vars, NEW d \in Dir, Published(d)
  PROVE  images'[d] = images[d] /\ manifest'[d] = manifest[d]
<1>1. manifest[d] # NoManifest
  BY DEF Published, NoManifest
<1>2. PICK e \in Edo :
        /\ Out[e] = d /\ goal[e] = "resume"
        /\ Own(e, "partial") \/ Own(e, "complete")
        /\ pc[e] \notin Recovering \cup {"write"}
        /\ pc[e] = "fill" => Own(e, "partial")
  BY <1>1, PublishedIsOwn
<1>3. pc[e] \notin {"criu", "write", "fill"}
  BY <1>1, <1>2, DumpTakes DEF Published, Own
<1>4. \A s \in Edo : Out[s] = d => pc[s] \notin {"criu", "write", "fill"}
  BY <1>2, <1>3 DEF SnapshotInv, DirectoryInv, Entered, ResumeInv, Writing
<1>5. ASSUME NEW s \in Edo, EdoStep(s) \/ Kill(s)
      PROVE  images'[d] = images[d] /\ manifest'[d] = manifest[d]
  BY <1>4, <1>5, StoreSteps DEF SnapshotInv, HeldInv
<1> QED BY <1>5 DEF Next, TargetStep, Done, vars, storeVars

(* No later command changes a snapshot that can be read.                     *)
THEOREM SnapshotsKept ==
  ASSUME DirectoryIsOneGroups
  PROVE  Spec => PublishedKept
<1>1. SnapshotInv /\ [Next]_vars =>
        [\A d \in Dir : Published(d) => images'[d] = images[d] /\ manifest'[d] = manifest[d]]_vars
  BY StepKeepsPublished
<1> QED BY <1>1, InitSnapshots, NextSnapshots, PTL DEF Spec, PublishedKept

-----------------------------------------------------------------------------
(* FreezeGroup implements GroupCapture, a step at a time.                    *)

LEMMA InitImplements == Init => Promise!Init
<1> SUFFICES ASSUME Init PROVE Promise!Init
  OBVIOUS
<1>1. \A e \in Edo : Held(e) = {}
  BY DEF Init, Held, HoldsAt, Dumping, Recovering
<1>2. \A e \in Edo : CapturedBy(e) = "none"
  BY GroupFacts DEF Init, StoreInit, CapturedBy
<1>3. \A d \in Dir : ~Published(d)
  BY DEF Init, StoreInit, Published, NoManifest
<1> QED BY <1>1, <1>2, <1>3 DEF Promise!Init

(* The snapshots that can be read, as GroupCapture has them.                  *)
Readable(d) == IF Published(d) THEN manifest[d].by ELSE NoManifest

LEMMA LetsGo ==
  ASSUME \A e \in Edo : Held(e)' \subseteq Held(e) /\ CapturedBy(e)' = CapturedBy(e),
         \A d \in Dir : Readable(d)' = Readable(d)
  PROVE  Promise!LetGo
  BY DEF Promise!LetGo, Readable

(* A command that has not dumped has no capture in its directory.            *)
LEMMA NoCaptureYet ==
  ASSUME SnapshotInv, NEW e \in Edo, goal[e] # "resume"
  PROVE  CapturedBy(e) = "none"
<1>1. CASE \E f \in Edo : Out[f] = Out[e] /\ goal[f] = "resume"
  <2>1. PICK f \in Edo : Out[f] = Out[e] /\ goal[f] = "resume"
    BY <1>1
  <2>2. Taken(f, TRUE) \/ Taken(f, FALSE)
    BY <2>1 DEF SnapshotInv, ResumeInv, ResumeAt
  <2>3. f # e
    BY <2>1
  <2>4. {c \in images[Out[e]] : c.by = e} = {}
    BY <2>1, <2>2, <2>3 DEF Taken
  <2> QED BY <2>4 DEF CapturedBy
<1>2. CASE \A f \in Edo : Out[f] = Out[e] => goal[f] # "resume"
  <2>1. images[Out[e]] = {}
    BY <1>2, GroupFacts DEF SnapshotInv, DirectoryInv
  <2> QED BY <2>1 DEF CapturedBy
<1> QED BY <1>1, <1>2

LEMMA LockImplements ==
  ASSUME SnapshotInv, NEW e \in Edo, LockCall(e), Lock(Cur(e)), Goto(e, "waitLocked")
  PROVE  Promise!Take(e, Cur(e))
<1>1. /\ idx[e] \in 1..Len(Group[e]) /\ idx[e] = locked[e] + 1 /\ locked[e] \in Nat
      /\ Len(Group[e]) \in Nat /\ pc[e] = "lock" /\ pc'[e] = "waitLocked"
      /\ goal[e] # "resume" /\ locked' = locked /\ UNCHANGED storeVars
  BY GroupFacts DEF SnapshotInv, HeldInv, TypeInv, EdoTypeOK, LoopInv, LoopAt, LockCall, Goto,
                    ResumeInv, ResumeAt, Recovering, Writing, Ended, Refused, Abort, Recover
<1>2. Cur(e) \in Members(e)
  BY <1>1 DEF Cur, Members
<1>3. \A f \in Edo : Cur(e) \notin Held(f)
  BY DEF SnapshotInv, HeldInv, HeldNotReleased, Lock, Call, Ready
<1>4. Held(e)' = Held(e) \cup {Cur(e)}
  <2>1. \A i \in 1..Len(Group[e]) : HoldsAt(e, i)' <=> HoldsAt(e, i) \/ i = idx[e]
    BY <1>1 DEF HoldsAt, Dumping, Recovering
  <2> QED BY <1>1, <2>1 DEF Held, Cur
<1>5. \A f \in Edo \ {e} : Held(f)' = Held(f)
  BY EdoStepFrame DEF EdoStep, SnapshotInv, HeldInv
<1>6. CapturedBy(e) = "none"
  BY <1>1, NoCaptureYet
<1>7. \A f \in Edo : CapturedBy(f)' = CapturedBy(f)
  BY <1>1 DEF CapturedBy, storeVars
<1>8. \A d \in Dir : Readable(d)' = Readable(d)
  BY <1>1 DEF Readable, Published, storeVars
<1> QED BY <1>2, <1>3, <1>4, <1>5, <1>6, <1>7, <1>8 DEF Promise!Take, Readable

LEMMA DumpImplements ==
  ASSUME SnapshotInv, DirectoryIsOneGroups, NEW e \in Edo, Criu(e)
  PROVE  Promise!Capture(e) \/ Promise!Discard(Out[e])
<1>1. /\ Out[e] \in Dir /\ pc[e] = "criu" /\ locked[e] = Len(Group[e])
      /\ Len(Group[e]) \in Nat \ {0} /\ pc \in [Edo -> Label] /\ idx \in [Edo -> Nat]
      /\ images \in [Dir -> SUBSET Capture] /\ manifest \in [Dir -> Manifest]
  BY GroupFacts DEF SnapshotInv, HeldInv, TypeInv, EdoTypeOK, StoreTypeOK, LoopInv, LoopAt,
                    Dumping, Criu
<1>2. /\ images[Out[e]] = {} /\ manifest[Out[e]] = NoManifest
      /\ \A f \in Edo : Out[f] = Out[e] => CapturedBy(f) = "none"
  BY <1>1, DumpTakes DEF CapturedBy
<1>3. pc'[e] = "recState" /\ idx'[e] = 1 /\ locked' = locked
  BY <1>1 DEF Criu, Abort, Recover
<1>4. Held(e)' = Held(e)
  <2>1. \A i \in 1..Len(Group[e]) : HoldsAt(e, i)' <=> HoldsAt(e, i)
    BY <1>1, <1>3 DEF HoldsAt, Dumping, Recovering
  <2> QED BY <2>1 DEF Held
<1>5. \A f \in Edo : Held(f)' = Held(f)
  BY <1>4, EdoStepFrame DEF EdoStep, SnapshotInv, HeldInv
<1>6. ~Published(Out[e])
  BY <1>2 DEF Published, NoManifest
<1>7. \A f \in Edo : Out[f] # Out[e] => CapturedBy(f)' = CapturedBy(f)
  BY <1>1, GroupFacts DEF Criu, DumpSucceeds, DumpFails, CapturedBy
<1>8. \A d \in Dir : Readable(d)' = Readable(d)
  <2>1. CASE \E c : DumpSucceeds(Out[e], c, TRUE)
    BY <2>1 DEF DumpSucceeds, Readable, Published
  <2>2. CASE DumpFails(Out[e])
    BY <1>1, <1>2, <2>2 DEF DumpFails, Readable, Published
  <2> QED BY <2>1, <2>2 DEF Criu
<1>9. CASE DumpSucceeds(Out[e], [by |-> e, quiescent |-> Quiescent(e)], TRUE)
  <2>1. images'[Out[e]] = {[by |-> e, quiescent |-> Quiescent(e)]}
    BY <1>1, <1>2, <1>9 DEF DumpSucceeds
  <2>2. CapturedBy(e)' \in {"torn", "good"}
    <3>1. {c \in images'[Out[e]] : c.by = e} = images'[Out[e]] /\ images'[Out[e]] # {}
      BY <2>1
    <3> QED BY <3>1 DEF CapturedBy
  <2>3. \A f \in Edo \ {e} : CapturedBy(f)' = CapturedBy(f)
    <3>1. ASSUME NEW f \in Edo \ {e}, Out[f] = Out[e] PROVE CapturedBy(f)' = "none"
      <4>1. {c \in images'[Out[f]] : c.by = f} = {}
        BY <2>1, <3>1
      <4> QED BY <4>1 DEF CapturedBy
    <3> QED BY <1>2, <1>7, <3>1
  <2>4. Held(e) = Members(e)
    BY <1>1, DumpingHoldsAll DEF SnapshotInv, HeldInv, Dumping
  <2>5. Promise!Capture(e)
    BY <1>1, <1>2, <1>5, <1>6, <1>8, <2>2, <2>3, <2>4 DEF Promise!Capture, Readable
  <2> QED BY <2>5
<1>10. CASE DumpFails(Out[e])
  <2>1. images'[Out[e]] = {}
    BY <1>1, <1>10 DEF DumpFails
  <2>2. \A f \in Edo : Out[f] = Out[e] => CapturedBy(f)' = "none"
    BY <2>1 DEF CapturedBy
  <2>3. Promise!Discard(Out[e])
    BY <1>1, <1>5, <1>6, <1>7, <1>8, <2>2 DEF Promise!Discard, Readable
  <2> QED BY <2>3
<1> QED BY <1>9, <1>10 DEF Criu

LEMMA FillImplements ==
  ASSUME SnapshotInv, NEW e \in Edo, pc[e] = "fill", FillManifest(Out[e]), Goto(e, "chmod"),
         Fill(e)
  PROVE  Promise!Publish(e)
<1>1. /\ goal[e] = "resume" /\ Taken(e, TRUE) /\ Own(e, "partial") /\ Out[e] \in Dir
      /\ manifest \in [Dir -> Manifest] /\ pc'[e] = "chmod"
  BY GroupFacts DEF SnapshotInv, ResumeInv, DirectoryInv, ManifestAt, Writing, HeldInv, TypeInv,
                    EdoTypeOK, StoreTypeOK, Goto
<1>2. CapturedBy(e) = "good"
  <2> DEFINE own == {c \in images[Out[e]] : c.by = e}
  <2> DEFINE capture == [by |-> e, quiescent |-> TRUE]
  <2>0. images[Out[e]] = {capture} /\ capture.by = e /\ capture.quiescent
    BY <1>1 DEF Taken
  <2> HIDE DEF capture
  <2>1. own # {}
    BY <2>0
  <2>2. \A c \in own : c.quiescent
    BY <2>0
  <2> QED BY <2>1, <2>2 DEF CapturedBy
<1>3. Held(e) = {} /\ Held(e)' = {}
  BY <1>1 DEF Held, HoldsAt, Dumping, Recovering
<1>4. \A f \in Edo : Held(f)' = Held(f)
  BY <1>3, EdoStepFrame DEF EdoStep, SnapshotInv, HeldInv
<1>5. \A f \in Edo : CapturedBy(f)' = CapturedBy(f)
  BY DEF FillManifest, CapturedBy
<1>6. manifest[Out[e]] # NoManifest /\ manifest[Out[e]].by = e /\ ~Published(Out[e])
  BY <1>1 DEF Own, NoManifest, Published
<1>7. Readable(Out[e])' = e
  BY <1>1, <1>6 DEF FillManifest, Readable, Published
<1>8. \A d \in Dir \ {Out[e]} : Readable(d)' = Readable(d)
  BY <1>1, <1>6 DEF FillManifest, Readable, Published
<1> QED BY <1>1, <1>2, <1>3, <1>4, <1>5, <1>6, <1>7, <1>8 DEF Promise!Publish, Readable

(* The other steps take no process, write no image and make nothing readable. *)
LEMMA OtherStepImplements ==
  ASSUME SnapshotInv, NEW e \in Edo, EdoStep(e) \/ Kill(e),
         UNCHANGED driverVars \/ pc[e] # "lock",
         ~Criu(e), ~(Fill(e) /\ FillManifest(Out[e]) /\ Goto(e, "chmod"))
  PROVE  Promise!LetGo
<1>1. /\ manifest \in [Dir -> Manifest] /\ Out[e] \in Dir
      /\ cuda \in [Pid -> ProcessState]
      /\ pending \in [Pid -> {"None", "Running", "Locked", "Checkpointed"}]
      /\ Cur(e) \in Pid
  BY GroupFacts DEF SnapshotInv, HeldInv, TypeInv, EdoTypeOK, StoreTypeOK, DriverTypeOK, Cur
<1>2. ~Lock(Cur(e))
  <2>1. CASE UNCHANGED driverVars
    BY <1>1, <2>1 DEF driverVars, Lock, Call, Ready
  <2>2. CASE pc[e] # "lock"
    BY <1>1, <2>2, EdoStepCalls
       DEF Calls, Lock, Checkpoint, Restore, Unlock, Call, Ready, driverVars
  <2> QED BY <2>1, <2>2
<1>3. Held(e)' \subseteq Held(e)
  BY <1>2, EdoStepHeld DEF SnapshotInv, HeldInv
<1>4. \A f \in Edo : Held(f)' \subseteq Held(f)
  BY <1>3, EdoStepFrame DEF SnapshotInv, HeldInv
<1>5. images' = images
  BY DEF EdoStep, Start, WaitRunning, LockCall, WaitLocked, CheckpointCall, WaitCheckpointed,
         Prepare, Create, Clear, RecoverState, RecoverRestore, RecoverWaitLocked, RecoverUnlock,
         RecoverWaitRunning, Write, Fill, Chmod, Kill, CreateDirectory, ClearLinkRemaps,
         OpenManifest, FillManifest, storeVars
<1>6. CASE manifest' = manifest
  <2>1. \A d \in Dir : Readable(d)' = Readable(d)
    BY <1>6 DEF Readable, Published
  <2>2. \A f \in Edo : CapturedBy(f)' = CapturedBy(f)
    BY <1>5 DEF CapturedBy
  <2> QED BY <1>4, <2>1, <2>2, LetsGo
<1>7. CASE manifest' # manifest
  <2>1. Write(e) /\ OpenManifest(Out[e], e)
    BY <1>7 DEF EdoStep, Start, WaitRunning, LockCall, WaitLocked, CheckpointCall,
         WaitCheckpointed, Prepare, Create, Clear, RecoverState, RecoverRestore,
         RecoverWaitLocked, RecoverUnlock, RecoverWaitRunning, Write, Fill, Chmod, Kill,
         CreateDirectory, ClearLinkRemaps, storeVars
  <2>2. manifest[Out[e]] = NoManifest
    BY <2>1 DEF Write, SnapshotInv, ResumeInv, DirectoryInv, ManifestAt, Writing
  <2>3. \A d \in Dir : Readable(d)' = Readable(d)
    BY <1>1, <2>1, <2>2 DEF OpenManifest, Readable, Published, NoManifest
  <2>4. \A f \in Edo : CapturedBy(f)' = CapturedBy(f)
    BY <1>5 DEF CapturedBy
  <2> QED BY <1>4, <2>3, <2>4, LetsGo
<1> QED BY <1>6, <1>7

LEMMA StepImplements ==
  ASSUME DirectoryIsOneGroups, SnapshotInv, [Next]_vars
  PROVE  Promise!Next
<1>1. ASSUME NEW e \in Edo, EdoStep(e) \/ Kill(e)
      PROVE  Promise!Next
  <2>1. CASE Lock(Cur(e)) /\ pc[e] = "lock" /\ Goto(e, "waitLocked")
    <3>1. LockCall(e)
      BY <1>1, <2>1 DEF EdoStep, Start, WaitRunning, WaitLocked, CheckpointCall,
         WaitCheckpointed, Prepare, Create, Clear, Criu, RecoverState, RecoverRestore,
         RecoverWaitLocked, RecoverUnlock, RecoverWaitRunning, Write, Fill, Chmod, Kill,
         Goto, SnapshotInv, HeldInv, TypeInv, EdoTypeOK
    <3>2. Promise!Take(e, Cur(e))
      BY <2>1, <3>1, LockImplements
    <3>3. Cur(e) \in Members(e)
      BY <3>2 DEF Promise!Take
    <3> QED BY <3>2, <3>3 DEF Promise!Next
  <2>2. CASE Criu(e)
    BY <2>2, DumpImplements, GroupFacts DEF Promise!Next
  <2>3. CASE Fill(e) /\ FillManifest(Out[e]) /\ Goto(e, "chmod")
    BY <2>3, FillImplements DEF Promise!Next, Fill
  <2>4. UNCHANGED driverVars \/ pc[e] # "lock" \/ (Lock(Cur(e)) /\ Goto(e, "waitLocked"))
    BY <1>1, EdoStepCalls DEF Calls
  <2> QED BY <1>1, <2>1, <2>2, <2>3, <2>4, OtherStepImplements DEF Promise!Next
<1>2. ASSUME UNCHANGED <<storeVars, edoVars>>
      PROVE  Promise!Next
  <2>1. \A e \in Edo : Held(e)' = Held(e) /\ CapturedBy(e)' = CapturedBy(e)
    BY <1>2 DEF storeVars, edoVars, Held, HoldsAt, CapturedBy
  <2>2. \A d \in Dir : Readable(d)' = Readable(d)
    BY <1>2 DEF storeVars, Readable, Published
  <2> QED BY <2>1, <2>2, LetsGo DEF Promise!Next
<1> QED BY <1>1, <1>2 DEF Next, TargetStep, Done, vars

(* For any number of commands, whatever the driver, CRIU and the file system  *)
(* do: freeze_group takes a process from nobody, captures a group it holds,   *)
(* and publishes a capture of a group that stood still, when it has let go.   *)
THEOREM Refinement ==
  ASSUME DirectoryIsOneGroups
  PROVE  Spec => CapturesGroups
<1>1. SnapshotInv /\ [Next]_vars => [Promise!Next]_(Promise!vars)
  BY StepImplements
<1> QED BY <1>1, InitImplements, InitSnapshots, NextSnapshots, PTL
        DEF Spec, CapturesGroups, Promise!Spec

=============================================================================
