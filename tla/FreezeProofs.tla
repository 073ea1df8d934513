---------------------------- MODULE FreezeProofs ----------------------------
(* What holds of Freeze for any commands, targets, directories and faults.   *)
(* Exclusive and JournalAhead need nothing else; ReadyIsReady that commands  *)
(* on one directory are freezes of one target and that the driver fails no   *)
(* frozen process; StoppedIsAccounted that what a recovery needs works.      *)
EXTENDS Freeze, TLAPS

-----------------------------------------------------------------------------
(* The hypotheses. *)

(* One directory is taken by freezes of one target, as when a freeze is tried *)
(* again: what keeps two commands out of one directory is the target's lock. *)
DirectoryIsOneTargets ==
  \A e, f \in Edo : e # f /\ Out[e] = Out[f] /\ Command[e] = "freeze" =>
    Command[f] = "roundtrip" \/ (Command[f] = "freeze" /\ Target[f] = Target[e])

(* freeze does not look at its target between the checkpoint and the dump.   *)
NeverBreaks == "driver" \notin Faulty

(* freeze recovers by restore, unlock and state, from every error but the    *)
(* journal's, a poll's on the way down as well; cuda-roundtrip from none.    *)
RecoveryWorks ==
  /\ ~AsyncDriver
  /\ Faulty \cap {"restore", "unlock", "state", "journal", "driver", "kill"} = {}
  /\ \A e \in Edo : Command[e] # "roundtrip"

-----------------------------------------------------------------------------
(* Which command is where.                                                   *)

PathBy(e) ==
  /\ pc[e] \in {"logStarted", "logLock", "logCheckpoint", "logDump", "logReady"} \cup Recovering =>
       Command[e] = "freeze"
  /\ pc[e] \in {"waitRunning", "lock", "waitLocked", "checkpoint", "waitCheckpointed"} =>
       Command[e] \in {"freeze", "roundtrip"}
  /\ pc[e] \in {"restore", "waitRestored", "unlock", "waitUnlocked"} => Command[e] = "roundtrip"
  /\ pc[e] \in Dumping \cup Writing => Command[e] \in {"freeze", "cpuDump"}

TypeInv == TypeOK /\ \A e \in Edo : PathBy(e)

(* What a command holds is not about to run.                                 *)
Stopped(p) == pending[p] # "Running" /\ (cuda[p] = "Running" => pending[p] = "Locked")

HeldStopped == \A e \in Edo : Holds(e) => Stopped(Target[e])

HeldInv == TypeInv /\ Exclusive /\ HeldStopped

-----------------------------------------------------------------------------
(* The journal and the driver.                                               *)

(* A transition that has been accepted starts from where it is legal.        *)
PendingInv ==
  \A p \in Pid :
    /\ pending[p] = "Locked" => cuda[p] \in {"Running", "Checkpointed"}
    /\ pending[p] \in {"Checkpointed", "Running"} => cuda[p] = "Locked"

Frozen == {"logDump", "logReady"} \cup Dumping \cup Writing

LogsBy(e) ==
  Command[e] = "freeze" =>
    /\ pc[e] \in {"lock", "waitLocked", "logCheckpoint", "checkpoint", "waitCheckpointed"}
                   \cup Frozen \cup Recovering => Logged(e, "cuda.lock.started")
    /\ pc[e] \in {"checkpoint", "waitCheckpointed"} \cup Frozen =>
         Logged(e, "cuda.checkpoint.started")
    /\ pc[e] \in Dumping \cup Writing => Logged(e, "criu.dump.started")

(* A roundtrip that has only to see its unlock done no longer counts for a   *)
(* process that runs: the next to lock it announces that itself.             *)
LockAnnounced(p) ==
  \E e \in Edo : Target[e] = p /\
    \/ Command[e] = "freeze" /\ Logged(e, "cuda.lock.started")
    \/ /\ Command[e] = "roundtrip" /\ pc[e] \notin {"start", "waitRunning", "lock", "ok"}
       /\ pc[e] = "waitUnlocked" => cuda[p] # "Running"

AheadInv ==
  /\ \A p \in Pid : "Locked" \in {cuda[p], pending[p]} => LockAnnounced(p)
  /\ \A p \in Pid : "Checkpointed" \in {cuda[p], pending[p]} =>
                      Announced(p, "cuda.checkpoint.started")
  /\ \A d \in Dir : \A c \in images[d] :
       Command[c.by] = "freeze" => Logged(c.by, "criu.dump.started")

JournalInv == HeldInv /\ PendingInv /\ (\A e \in Edo : LogsBy(e)) /\ AheadInv

-----------------------------------------------------------------------------
(* The directory of a freeze.                                                *)

SettledBy(e) ==
  Command[e] = "freeze" =>
    /\ pc[e] = "waitCheckpointed" => pending[Target[e]] \in {"None", "Checkpointed"}
    /\ pc[e] \in Frozen => Cuda(e) = "Checkpointed" /\ pending[Target[e]] = "None"

Own(e) == [by |-> e, quiescent |-> TRUE]

WritesIn(e, d) ==
  /\ pc[e] = "create" => ~exists[d]
  /\ pc[e] \in {"clear", "criu"} => images[d] = {} /\ manifest[d] = NoManifest
  /\ pc[e] \in Writing \cup {"logReady"} => images[d] = {Own(e)}
  /\ pc[e] = "write" => manifest[d] = NoManifest
  /\ pc[e] = "fill" => manifest[d] # NoManifest /\ ~Published(d) /\ manifest[d].by = e
  /\ pc[e] \in {"chmod", "logReady"} => Published(d) /\ manifest[d].by = e

WritesBy(e) == Command[e] = "freeze" => WritesIn(e, Out[e])

DirectoryInv ==
  /\ \A e \in Edo : pc[e] \in {"clear", "criu"} \cup Writing => exists[Out[e]]
  /\ \A d \in Dir : ~exists[d] => images[d] = {} /\ manifest[d] = NoManifest

ReadyInv ==
  /\ HeldInv /\ PendingInv
  /\ \A e \in Edo : SettledBy(e) /\ WritesBy(e)
  /\ DirectoryInv /\ ReadyIsReady

-----------------------------------------------------------------------------
(* The state of the target, per label.                                       *)

StateBy(e) ==
  Command[e] = "freeze" /\ alive[Target[e]] =>
    /\ pc[e] \in {"waitLocked", "logCheckpoint", "checkpoint", "recWaitLocked", "recUnlock"} =>
         Cuda(e) = "Locked"
    /\ pc[e] \in {"waitCheckpointed", "recRestore"} \cup Frozen => Cuda(e) = "Checkpointed"
    /\ pc[e] = "recState" => Cuda(e) \in {"Locked", "Checkpointed"}

AccountInv ==
  /\ HeldInv
  /\ pending = [p \in Pid |-> "None"]
  /\ \A e \in Edo : StateBy(e)
  /\ StoppedIsAccounted

-----------------------------------------------------------------------------
(* What the steps do, to the driver, the stores and the journal.             *)

LEMMA CommandFacts ==
  ASSUME NEW e \in Edo
  PROVE  Command[e] \in {"freeze", "cpuDump", "roundtrip"} /\ Target[e] \in Pid /\ Out[e] \in Dir
BY CommandAssumption

LEMMA StoreTypes ==
  ASSUME StoreTypeOK, NEW d \in Dir, NEW e \in Edo, NEW c \in Capture,
         \/ UNCHANGED storeVars
         \/ CreateDirectory(d)
         \/ ClearLinkRemaps
         \/ DumpSucceeds(d, c, FALSE)
         \/ DumpFails(d)
         \/ OpenManifest(d, e)
         \/ FillManifest(d)
  PROVE  StoreTypeOK'
<1> USE DEF StoreTypeOK
<1>1. CASE FillManifest(d)
  <2>1. CASE manifest[d] = NoManifest
    BY <1>1, <2>1 DEF FillManifest
  <2>2. CASE manifest[d] # NoManifest
    <3>1. manifest[d].by \in Edo /\ manifest[d].of \in SUBSET Capture
      BY <2>2 DEF Manifest
    <3> QED BY <1>1, <2>2, <3>1 DEF FillManifest, Manifest
  <2> QED BY <2>1, <2>2
<1>2. CASE OpenManifest(d, e)
  BY <1>2 DEF OpenManifest, Manifest
<1>3. CASE DumpFails(d)
  BY <1>3 DEF DumpFails, Manifest
<1>4. CASE UNCHANGED storeVars \/ CreateDirectory(d) \/ ClearLinkRemaps
  BY <1>4 DEF CreateDirectory, ClearLinkRemaps, storeVars
<1>5. CASE DumpSucceeds(d, c, FALSE)
  BY <1>5 DEF DumpSucceeds
<1> QED BY <1>1, <1>2, <1>3, <1>4, <1>5

LEMMA DriverTypes ==
  ASSUME DriverTypeOK, NEW p \in Pid,
         \/ UNCHANGED driverVars
         \/ Lock(p) \/ Checkpoint(p) \/ Restore(p) \/ Unlock(p)
         \/ Complete(p) \/ Break(p) \/ Die(p)
  PROVE  DriverTypeOK'
BY DEF DriverTypeOK, Lock, Checkpoint, Restore, Unlock, Call, Complete, Break, Die, driverVars,
       ProcessState

(* A command moves itself alone, and only along its own path.                *)
LEMMA EdoStepPath ==
  ASSUME TypeInv, NEW e \in Edo, EdoStep(e) \/ Kill(e)
  PROVE  /\ pc' \in [Edo -> Label] /\ PathBy(e)'
         /\ \A f \in Edo \ {e} : pc'[f] = pc[f]
<1> USE DEF TypeInv, TypeOK
<1>1. PathBy(e) /\ pc \in [Edo -> Label] /\ Command[e] \in {"freeze", "cpuDump", "roundtrip"}
  BY CommandFacts
<1> DEFINE Safe(l) ==
      /\ l \in Label
      /\ l \in {"logStarted", "logLock", "logCheckpoint", "logDump", "logReady"} \cup Recovering =>
           Command[e] = "freeze"
      /\ l \in {"waitRunning", "lock", "waitLocked", "checkpoint", "waitCheckpointed"} =>
           Command[e] \in {"freeze", "roundtrip"}
      /\ l \in {"restore", "waitRestored", "unlock", "waitUnlocked"} => Command[e] = "roundtrip"
      /\ l \in Dumping \cup Writing => Command[e] \in {"freeze", "cpuDump"}
<1>2. ASSUME NEW l, Safe(l), Goto(e, l)
      PROVE  /\ pc' \in [Edo -> Label] /\ PathBy(e)'
             /\ \A f \in Edo \ {e} : pc'[f] = pc[f]
  BY <1>1, <1>2 DEF Goto, PathBy
<1>3. ASSUME Start(e) PROVE \E l : Safe(l) /\ Goto(e, l)
  BY <1>1, <1>3 DEF Start, FirstLabel, Label, Ended, Driving, Journaling, Dumping, Writing, Recovering
<1>4. ASSUME FreezeDown(e) PROVE \E l : Safe(l) /\ Goto(e, l)
  BY <1>1, <1>4 DEF FreezeDown, Log, Wait, Drive, Label, Ended, Driving, Journaling, Dumping, Writing,
                    Recovering
<1>5. ASSUME Roundtrip(e) PROVE \E l : Safe(l) /\ Goto(e, l)
  BY <1>1, <1>5 DEF Roundtrip, Wait, Drive, Label, Ended, Driving, Journaling, Dumping, Writing,
                    Recovering
<1>6. ASSUME Prepare(e) \/ Create(e) \/ Clear(e) \/ Criu(e) \/ Write(e) \/ Fill(e) \/ Chmod(e)
               \/ LogReady(e)
      PROVE \E l : Safe(l) /\ Goto(e, l)
  BY <1>1, <1>6 DEF Prepare, Create, Clear, Criu, Write, Fill, Chmod, LogReady, Log, Handler, PathBy,
                    Label, Ended, Driving, Journaling, Dumping, Writing, Recovering
<1>7. ASSUME Recover(e) PROVE \E l : Safe(l) /\ Goto(e, l)
  BY <1>1, <1>7 DEF Recover, RecoverState, Wait, Drive, PathBy,
                    Label, Ended, Driving, Journaling, Dumping, Writing, Recovering
<1>8. ASSUME Kill(e) PROVE \E l : Safe(l) /\ Goto(e, l)
  BY <1>8 DEF Kill, Label, Ended, Driving, Journaling, Dumping, Writing, Recovering
<1> QED BY <1>2, <1>3, <1>4, <1>5, <1>6, <1>7, <1>8 DEF EdoStep

(* The calls, and the labels around them. *)
LEMMA EdoStepCalls ==
  ASSUME TypeInv, NEW e \in Edo, EdoStep(e) \/ Kill(e)
  PROVE  \/ UNCHANGED driverVars /\ (Holds(e)' => Holds(e))
         \/ pc[e] = "lock" /\ Lock(Target[e]) /\ pc'[e] = "waitLocked"
         \/ pc[e] = "checkpoint" /\ Checkpoint(Target[e]) /\ pc'[e] = "waitCheckpointed"
         \/ pc[e] = "restore" /\ Restore(Target[e]) /\ pc'[e] = "waitRestored"
         \/ pc[e] = "recRestore" /\ Restore(Target[e]) /\ pc'[e] = "recWaitLocked"
         \/ pc[e] = "unlock" /\ Unlock(Target[e]) /\ pc'[e] = "waitUnlocked"
         \/ pc[e] = "recUnlock" /\ Unlock(Target[e]) /\ pc'[e] = "recWaitRunning"
<1>1. PathBy(e) /\ pc \in [Edo -> Label] /\ Command[e] \in {"freeze", "cpuDump", "roundtrip"}
  BY CommandFacts DEF TypeInv, TypeOK
<1> USE DEF Goto, Holds, HoldingLabels, Recovering, Dumping, Writing
<1>2. ASSUME Start(e) \/ Kill(e) PROVE UNCHANGED driverVars /\ (Holds(e)' => Holds(e))
  BY <1>1, <1>2 DEF Start, Kill, FirstLabel
<1>3. CASE FreezeDown(e)
  BY <1>1, <1>3 DEF FreezeDown, Log, Wait, Drive, Lock, Checkpoint, Refused
<1>4. CASE Roundtrip(e)
  BY <1>1, <1>4 DEF Roundtrip, Wait, Drive, Lock, Checkpoint, Restore, Unlock, Refused
<1>5. ASSUME Prepare(e) \/ Create(e) \/ Clear(e) \/ Criu(e) \/ Write(e) \/ Fill(e) \/ Chmod(e)
               \/ LogReady(e)
      PROVE UNCHANGED driverVars /\ (Holds(e)' => Holds(e))
  <2>1. UNCHANGED driverVars
    BY <1>5 DEF Prepare, Create, Clear, Criu, Write, Fill, Chmod, LogReady, Log
  <2>2. Holds(e)' => Holds(e)
    <3>1. CASE Prepare(e) \/ Create(e) \/ Clear(e) \/ Criu(e)
      BY <1>1, <3>1 DEF Prepare, Create, Clear, Criu, Handler, PathBy
    <3>2. CASE Write(e) \/ Fill(e) \/ Chmod(e)
      BY <1>1, <3>2 DEF Write, Fill, Chmod, Handler, PathBy
    <3>3. CASE LogReady(e)
      BY <1>1, <3>3 DEF LogReady, Log, Handler, PathBy
    <3> QED BY <1>5, <3>1, <3>2, <3>3
  <2> QED BY <2>1, <2>2
<1>6. CASE Recover(e)
  BY <1>1, <1>6 DEF Recover, RecoverState, Wait, Drive, Restore, Unlock, Refused
<1> QED BY <1>2, <1>3, <1>4, <1>5, <1>6 DEF EdoStep

(* The store is touched along the dump and the manifest, and nowhere else.   *)
LEMMA EdoStepStore ==
  ASSUME TypeInv, NEW e \in Edo, EdoStep(e) \/ Kill(e)
  PROVE  \/ UNCHANGED storeVars
         \/ pc[e] = "create" /\ CreateDirectory(Out[e]) /\ pc'[e] = "clear"
         \/ pc[e] = "clear" /\ ClearLinkRemaps /\ pc'[e] = "criu"
         \/ /\ pc[e] = "criu" /\ pc'[e] = "write"
            /\ DumpSucceeds(Out[e], [by |-> e, quiescent |-> Cuda(e) = "Checkpointed"], FALSE)
         \/ pc[e] = "criu" /\ DumpFails(Out[e]) /\ pc'[e] = Handler(e)
         \/ pc[e] = "write" /\ OpenManifest(Out[e], e) /\ pc'[e] = "fill"
         \/ pc[e] = "fill" /\ FillManifest(Out[e]) /\ pc'[e] = "chmod"
<1>1. e \in DOMAIN pc
  BY DEF TypeInv, TypeOK
<1>2. FreezeDown(e) \/ LogReady(e) => UNCHANGED storeVars
  BY DEF FreezeDown, LogReady, Log, Wait, Drive
<1>3. Roundtrip(e) \/ Recover(e) => UNCHANGED storeVars
  BY DEF Roundtrip, Recover, RecoverState, Wait, Drive
<1>4. Start(e) \/ Prepare(e) \/ Chmod(e) \/ Kill(e) => UNCHANGED storeVars
  BY DEF Start, Prepare, Chmod, Kill
<1>5. CASE Create(e) \/ Clear(e)
  BY <1>1, <1>5 DEF Create, Clear, Goto
<1>6. CASE Criu(e)
  BY <1>1, <1>6 DEF Criu, Goto
<1>7. CASE Write(e) \/ Fill(e)
  BY <1>1, <1>7 DEF Write, Fill, Goto
<1> QED BY <1>2, <1>3, <1>4, <1>5, <1>6, <1>7 DEF EdoStep

(* The journal grows by the event that the label names.                      *)
LEMMA EdoStepJournal ==
  ASSUME TypeInv, NEW e \in Edo, EdoStep(e) \/ Kill(e)
  PROVE  \/ UNCHANGED journal
         \/ \E event \in Event :
              /\ journal' = [journal EXCEPT ![JournalFile(e)] = Append(@, event)]
              /\ \/ pc[e] = "logStarted" /\ event = "freeze.started" /\ pc'[e] = "waitRunning"
                 \/ pc[e] = "logLock" /\ event = "cuda.lock.started" /\ pc'[e] = "lock"
                 \/ pc[e] = "logCheckpoint" /\ event = "cuda.checkpoint.started"
                                           /\ pc'[e] = "checkpoint"
                 \/ pc[e] = "logDump" /\ event = "criu.dump.started" /\ pc'[e] = "prepare"
                 \/ pc[e] = "logReady" /\ event = "snapshot.ready" /\ pc'[e] = "ok"
BY DEF TypeInv, TypeOK, EdoStep, Kill, Start, FreezeDown, Roundtrip, Recover, RecoverState, Log, Wait,
       Drive, Prepare, Create, Clear, Criu, Write, Fill, Chmod, LogReady, Goto, Event

-----------------------------------------------------------------------------
(* The types.                                                                *)

LEMMA InitTypes == Init => TypeInv
<1> SUFFICES ASSUME Init PROVE TypeInv
  OBVIOUS
<1> USE DEF Init, DriverInit, StoreInit
<1>1. DriverTypeOK /\ StoreTypeOK
  BY DEF DriverTypeOK, StoreTypeOK, ProcessState, Manifest
<1>2. pc \in [Edo -> Label] /\ journal \in [JournalFiles -> Seq(Event)]
  BY DEF Label
<1>3. \A e \in Edo : PathBy(e)
  BY DEF PathBy, Recovering, Dumping, Writing
<1> QED BY <1>1, <1>2, <1>3 DEF TypeInv, TypeOK

LEMMA NextTypes ==
  ASSUME TypeInv, [Next]_vars
  PROVE  TypeInv'
<1>1. /\ DriverTypeOK /\ StoreTypeOK /\ pc \in [Edo -> Label] /\ journal \in [JournalFiles -> Seq(Event)]
      /\ \A e \in Edo : PathBy(e)
  BY DEF TypeInv, TypeOK
<1>2. ASSUME NEW e \in Edo, EdoStep(e) \/ Kill(e)
      PROVE  TypeInv'
  <2>1. Target[e] \in Pid /\ Out[e] \in Dir
    BY CommandFacts
  <2>2. pc' \in [Edo -> Label] /\ \A f \in Edo : PathBy(f)'
    <3>1. /\ pc' \in [Edo -> Label] /\ PathBy(e)'
          /\ \A f \in Edo \ {e} : pc'[f] = pc[f]
      BY <1>2, EdoStepPath
    <3> QED BY <1>1, <3>1 DEF PathBy
  <2>3. DriverTypeOK'
    BY <1>1, <1>2, <2>1, EdoStepCalls, DriverTypes
  <2>4. StoreTypeOK'
    <3>1. [by |-> e, quiescent |-> Cuda(e) = "Checkpointed"] \in Capture
      BY DEF Capture
    <3> QED BY <1>1, <1>2, <2>1, <3>1, EdoStepStore, StoreTypes
  <2>5. journal' \in [JournalFiles -> Seq(Event)]
    <3>1. ASSUME NEW event \in Event, journal' = [journal EXCEPT ![JournalFile(e)] = Append(@, event)]
          PROVE  journal' \in [JournalFiles -> Seq(Event)]
      <4>1. Append(journal[JournalFile(e)], event) \in Seq(Event)
        BY <1>1 DEF JournalFiles
      <4> QED BY <1>1, <3>1, <4>1
    <3> QED BY <1>1, <1>2, <3>1, EdoStepJournal
  <2> QED BY <2>2, <2>3, <2>4, <2>5 DEF TypeInv, TypeOK
<1>3. ASSUME NEW p \in Pid, TargetStep(p)
      PROVE  TypeInv'
  <2>1. DriverTypeOK'
    BY <1>1, <1>3, DriverTypes DEF TargetStep
  <2>2. StoreTypeOK'
    BY <1>1, <1>3 DEF TargetStep, storeVars, StoreTypeOK
  <2> QED BY <1>1, <1>3, <2>1, <2>2 DEF TargetStep, TypeInv, TypeOK, PathBy
<1>4. CASE UNCHANGED vars
  <2>1. DriverTypeOK' /\ StoreTypeOK'
    BY <1>1, <1>4 DEF vars, driverVars, storeVars, DriverTypeOK, StoreTypeOK
  <2> QED BY <1>1, <1>4, <2>1 DEF vars, TypeInv, TypeOK, PathBy
<1> QED BY <1>2, <1>3, <1>4 DEF Next, Done

(* No command leaves the labels it has, and the files and states it meets are *)
(* the ones the code knows.                                                   *)
THEOREM TypeCorrect == Spec => []TypeOK
<1>1. TypeInv => TypeOK
  BY DEF TypeInv
<1> QED BY <1>1, InitTypes, NextTypes, PTL DEF Spec

-----------------------------------------------------------------------------
(* Who has a process.                                                        *)

(* A process stays stopped when it, or the driver, does something by itself.  *)
LEMMA TargetStepStops ==
  ASSUME DriverTypeOK, NEW p \in Pid, Complete(p) \/ Break(p) \/ Die(p), NEW q \in Pid, Stopped(q)
  PROVE  Stopped(q)'
BY DEF DriverTypeOK, Complete, Break, Die, Stopped

(* A call touches no other process, and none of the three that stop a process *)
(* or keep it stopped lets it run.                                            *)
LEMMA CallStops ==
  ASSUME DriverTypeOK, NEW p \in Pid, NEW q \in Pid,
         \/ Lock(p) \/ Checkpoint(p) \/ Restore(p)
         \/ Unlock(p) /\ q # p,
         Stopped(q) \/ q = p
  PROVE  Stopped(q)'
BY DEF DriverTypeOK, Lock, Checkpoint, Restore, Unlock, Call, Ready, Stopped

LEMMA NextHeld ==
  ASSUME HeldInv, [Next]_vars
  PROVE  HeldInv'
<1>1. TypeInv /\ TypeInv' /\ DriverTypeOK /\ Exclusive /\ HeldStopped
      /\ pc \in [Edo -> Label] /\ pc' \in [Edo -> Label]
  BY NextTypes DEF HeldInv, TypeInv, TypeOK
<1>2. ASSUME NEW e \in Edo, EdoStep(e) \/ Kill(e)
      PROVE  Exclusive' /\ HeldStopped'
  <2>1. Target[e] \in Pid /\ \A f \in Edo \ {e} : (Holds(f)' <=> Holds(f)) /\ Target[f] \in Pid
    BY <1>1, <1>2, EdoStepPath, CommandFacts DEF Holds
  <2>2. CASE UNCHANGED driverVars /\ (Holds(e)' => Holds(e))
    BY <1>1, <2>1, <2>2 DEF driverVars, Exclusive, HeldStopped, Stopped
  <2>3. CASE pc[e] = "lock" /\ Lock(Target[e]) /\ pc'[e] = "waitLocked"
    <3>1. \A f \in Edo : Holds(f) => Target[f] # Target[e]
      BY <1>1, <2>3 DEF Lock, Call, Ready, HeldStopped, Stopped
    <3>2. \A f \in Edo : Holds(f)' => Stopped(Target[f])'
      BY <1>1, <2>1, <2>3, CallStops DEF HeldStopped
    <3> QED BY <1>1, <2>1, <3>1, <3>2 DEF Exclusive, HeldStopped
  <2>4. CASE Holds(e) /\ (Checkpoint(Target[e]) \/ Restore(Target[e]))
    <3>1. \A f \in Edo : Holds(f)' => Stopped(Target[f])'
      BY <1>1, <2>1, <2>4, CallStops DEF HeldStopped
    <3> QED BY <1>1, <2>1, <2>4, <3>1 DEF Exclusive, HeldStopped
  <2>5. CASE Holds(e) /\ ~Holds(e)' /\ Unlock(Target[e])
    <3>1. \A f \in Edo \ {e} : Holds(f) => Target[f] # Target[e]
      BY <1>1, <2>5 DEF Exclusive
    <3>2. \A f \in Edo : Holds(f)' => Stopped(Target[f])'
      BY <1>1, <2>1, <2>5, <3>1, CallStops DEF HeldStopped
    <3> QED BY <1>1, <2>1, <2>5, <3>2 DEF Exclusive, HeldStopped
  <2>6. /\ pc[e] \in {"checkpoint", "restore", "recRestore", "unlock", "recUnlock"} => Holds(e)
        /\ pc'[e] \in {"waitUnlocked", "recWaitRunning"} => ~Holds(e)'
    BY DEF Holds, HoldingLabels, Recovering, Dumping, Writing
  <2> QED BY <1>1, <1>2, <2>2, <2>3, <2>4, <2>5, <2>6, EdoStepCalls
<1>3. ASSUME NEW p \in Pid, TargetStep(p)
      PROVE  Exclusive' /\ HeldStopped'
  <2>1. \A f \in Edo : (Holds(f)' <=> Holds(f)) /\ Target[f] \in Pid
    BY <1>3, CommandFacts DEF TargetStep, Holds
  <2> QED BY <1>1, <1>3, <2>1, TargetStepStops DEF TargetStep, Exclusive, HeldStopped
<1>4. ASSUME UNCHANGED vars
      PROVE  Exclusive' /\ HeldStopped'
  BY <1>1, <1>4 DEF vars, driverVars, Exclusive, HeldStopped, Stopped, Holds
<1> QED BY <1>1, <1>2, <1>3, <1>4 DEF HeldInv, Next, Done

LEMMA InitHeld == Init => HeldInv
<1> SUFFICES ASSUME Init PROVE HeldInv
  OBVIOUS
<1>1. \A e \in Edo : ~Holds(e)
  BY DEF Init, Holds, HoldingLabels, Recovering, Dumping, Writing
<1> QED BY <1>1, InitTypes DEF HeldInv, Exclusive, HeldStopped

(* No process is driven by two commands at once: each has been refused by the *)
(* driver, or has let go. So recover_cuda, which acts on the state it reads,  *)
(* never restores or unlocks what another command has locked.                 *)
THEOREM MutualExclusion == Spec => []Exclusive
<1>1. HeldInv => Exclusive
  BY DEF HeldInv
<1> QED BY <1>1, InitHeld, NextHeld, PTL DEF Spec

-----------------------------------------------------------------------------
(* The journal.                                                              *)

LEMMA LoggedKept ==
  ASSUME TypeInv, NEW d \in JournalFiles, NEW event \in Event,
         UNCHANGED journal \/ journal' = [journal EXCEPT ![d] = Append(@, event)]
  PROVE  \A f \in Edo : \A a : Logged(f, a) => Logged(f, a)'
<1>1. journal \in [JournalFiles -> Seq(Event)] /\ \A f \in Edo : JournalFile(f) \in JournalFiles
  BY DEF TypeInv, TypeOK, JournalFiles
<1>2. CASE UNCHANGED journal
  BY <1>2 DEF Logged, InFile
<1>3. CASE journal' = [journal EXCEPT ![d] = Append(@, event)]
  <2>1. ASSUME NEW c \in JournalFiles
        PROVE  /\ Len(journal[c]) \in Nat /\ Len(journal'[c]) \in Nat
               /\ Len(journal[c]) <= Len(journal'[c])
               /\ \A i \in 1..Len(journal[c]) : journal'[c][i] = journal[c][i]
    BY <1>1, <1>3
  <2> QED BY <1>1, <2>1 DEF Logged, InFile
<1> QED BY <1>2, <1>3

LEMMA LoggedNow ==
  ASSUME TypeInv, NEW e \in Edo, NEW event \in Event,
         journal' = [journal EXCEPT ![JournalFile(e)] = Append(@, event)]
  PROVE  Logged(e, event)'
<1> DEFINE file == JournalFile(e)
<1>1. journal \in [JournalFiles -> Seq(Event)] /\ file \in JournalFiles
  BY DEF TypeInv, TypeOK, JournalFiles
<1>2. /\ Len(journal[file]) \in Nat /\ Len(journal'[file]) = Len(journal[file]) + 1
      /\ journal'[file][Len(journal[file]) + 1] = event
  BY <1>1
<1> QED BY <1>2 DEF Logged, InFile

LEMMA EdoStepKeepsLog ==
  ASSUME TypeInv, NEW e \in Edo, EdoStep(e) \/ Kill(e)
  PROVE  \A f \in Edo : \A a : Logged(f, a) => Logged(f, a)'
<1>1. JournalFile(e) \in JournalFiles /\ "freeze.started" \in Event
  BY DEF JournalFiles, Event
<1> QED BY <1>1, LoggedKept, EdoStepJournal

(* The labels of a freeze from which a state, once announced, can be left.    *)
Locks == {"lock", "waitLocked", "logCheckpoint", "checkpoint", "waitCheckpointed"}
           \cup Frozen \cup Recovering
Checkpoints == {"checkpoint", "waitCheckpointed"} \cup Frozen
Dumps == Dumping \cup Writing

LEMMA EdoStepMoves ==
  ASSUME TypeInv, NEW e \in Edo, EdoStep(e) \/ Kill(e), Command[e] = "freeze"
  PROVE  /\ pc'[e] \in Locks => pc[e] \in Locks \/ (pc[e] = "logLock" /\ pc'[e] = "lock")
         /\ pc'[e] \in Checkpoints => pc[e] \in Checkpoints
                                       \/ (pc[e] = "logCheckpoint" /\ pc'[e] = "checkpoint")
         /\ pc'[e] \in Dumps => pc[e] \in Dumps \/ (pc[e] = "logDump" /\ pc'[e] = "prepare")
<1> USE DEF Goto, Locks, Checkpoints, Dumps, Frozen, Recovering, Dumping, Writing
<1>1. pc \in [Edo -> Label]
  BY DEF TypeInv, TypeOK
<1>2. CASE Start(e) \/ Kill(e) \/ FreezeDown(e)
  BY <1>1, <1>2 DEF Start, FirstLabel, Kill, FreezeDown, Log, Wait, Drive
<1>3. CASE Prepare(e) \/ Create(e) \/ Clear(e) \/ Criu(e) \/ Write(e) \/ Fill(e) \/ Chmod(e)
             \/ LogReady(e)
  BY <1>1, <1>3 DEF Prepare, Create, Clear, Criu, Write, Fill, Chmod, LogReady, Log, Handler
<1>4. CASE Recover(e)
  BY <1>1, <1>4 DEF Recover, RecoverState, Wait, Drive
<1> QED BY <1>2, <1>3, <1>4 DEF EdoStep, Roundtrip

LEMMA LogBefore ==
  ASSUME TypeInv, NEW e \in Edo, EdoStep(e) \/ Kill(e)
  PROVE  /\ pc[e] = "logLock" /\ pc'[e] = "lock" => Logged(e, "cuda.lock.started")'
         /\ pc[e] = "logCheckpoint" /\ pc'[e] = "checkpoint" => Logged(e, "cuda.checkpoint.started")'
         /\ pc[e] = "logDump" /\ pc'[e] = "prepare" => Logged(e, "criu.dump.started")'
<1>1. ASSUME NEW at, NEW next, NEW event \in Event, pc[e] = at, pc'[e] = next, next # "err",
             next # "killed", Log(e, at, event, next) \/ Kill(e)
      PROVE  Logged(e, event)'
  <2>1. pc' = [pc EXCEPT ![e] = "err"] \/ pc' = [pc EXCEPT ![e] = "killed"] => pc'[e] # next
    BY <1>1 DEF TypeInv, TypeOK
  <2> QED BY <1>1, <2>1, LoggedNow DEF Log, Kill, Goto
<1>2. /\ pc[e] = "logLock" => Log(e, "logLock", "cuda.lock.started", "lock") \/ Kill(e)
      /\ pc[e] = "logCheckpoint" =>
           Log(e, "logCheckpoint", "cuda.checkpoint.started", "checkpoint") \/ Kill(e)
      /\ pc[e] = "logDump" => Log(e, "logDump", "criu.dump.started", "prepare") \/ Kill(e)
  BY DEF EdoStep, Start, FreezeDown, Roundtrip, Recover, RecoverState, Log, Wait,
         Drive, Prepare, Create, Clear, Criu, Write, Fill, Chmod, LogReady
<1> QED BY <1>1, <1>2 DEF Event

LEMMA NextLogs ==
  ASSUME TypeInv, NEW e \in Edo, EdoStep(e) \/ Kill(e), \A f \in Edo : LogsBy(f)
  PROVE  \A f \in Edo : LogsBy(f)'
<1>1. ASSUME NEW f \in Edo \ {e}
      PROVE  LogsBy(f)'
  BY EdoStepPath, EdoStepKeepsLog DEF LogsBy
<1>2. LogsBy(e)'
  BY EdoStepMoves, EdoStepKeepsLog, LogBefore DEF LogsBy, Locks, Checkpoints, Dumps
<1> QED BY <1>1, <1>2

-----------------------------------------------------------------------------
(* The journal is ahead of the driver.                                       *)

(* How a roundtrip stops being the one that announced a state.               *)
LEMMA RoundtripMoves ==
  ASSUME TypeInv, NEW e \in Edo, EdoStep(e) \/ Kill(e), Command[e] = "roundtrip",
         pc[e] \notin {"start", "waitRunning", "lock", "ok"}
  PROVE  /\ pc'[e] \notin {"start", "waitRunning", "lock"}
         /\ pc'[e] = "ok" => pc[e] = "waitUnlocked" /\ Cuda(e) = "Running" /\ UNCHANGED driverVars
         /\ pc'[e] = "waitUnlocked" => pc[e] = "unlock" /\ Unlock(Target[e])
<1>1. pc \in [Edo -> Label] /\ PathBy(e)
  BY DEF TypeInv, TypeOK
<1>2. Roundtrip(e) \/ Kill(e)
  BY <1>1 DEF PathBy, EdoStep, Start, FreezeDown, Prepare, Create, Clear, Criu, Write, Fill, Chmod,
       LogReady, Log, Recover, RecoverState, Wait, Drive, Recovering, Dumping, Writing
<1> QED BY <1>1, <1>2 DEF Roundtrip, Kill, Wait, Drive, Goto, Sees, Cuda, Unlock

LEMMA DriverPending ==
  ASSUME DriverTypeOK, PendingInv, NEW p \in Pid,
         \/ UNCHANGED driverVars
         \/ Lock(p) \/ Checkpoint(p) \/ Restore(p) \/ Unlock(p)
         \/ Complete(p) \/ Break(p) \/ Die(p)
  PROVE  PendingInv'
BY DEF DriverTypeOK, PendingInv, Lock, Checkpoint, Restore, Unlock, Call, Ready, Complete, Break, Die,
       driverVars

(* The states a call leaves its process in, or on the way to.                *)
LEMMA CallStates ==
  ASSUME DriverTypeOK, NEW p \in Pid, Lock(p) \/ Checkpoint(p) \/ Restore(p) \/ Unlock(p)
  PROVE  /\ Lock(p) => "Checkpointed" \notin {cuda'[p], pending'[p]}
         /\ Restore(p) => cuda[p] = "Checkpointed"
         /\ Unlock(p) => /\ "Checkpointed" \notin {cuda'[p], pending'[p]}
                         /\ "Locked" \in {cuda'[p], pending'[p]} => cuda'[p] # "Running"
         /\ \A q \in Pid \ {p} : cuda'[q] = cuda[q] /\ pending'[q] = pending[q]
BY DEF DriverTypeOK, Lock, Checkpoint, Restore, Unlock, Call, Ready

LEMMA EdoStepAnnounces ==
  ASSUME JournalInv, NEW e \in Edo, EdoStep(e) \/ Kill(e), NEW p \in Pid
  PROVE  /\ "Locked" \in {cuda'[p], pending'[p]} => LockAnnounced(p)'
         /\ "Checkpointed" \in {cuda'[p], pending'[p]} => Announced(p, "cuda.checkpoint.started")'
<1>1. /\ TypeInv /\ DriverTypeOK /\ PendingInv /\ LogsBy(e)
      /\ "Locked" \in {cuda[p], pending[p]} => LockAnnounced(p)
      /\ "Checkpointed" \in {cuda[p], pending[p]} => Announced(p, "cuda.checkpoint.started")
      /\ Target[e] \in Pid /\ Command[e] \in {"freeze", "cpuDump", "roundtrip"} /\ PathBy(e)
  BY CommandFacts DEF JournalInv, AheadInv, HeldInv, TypeInv, TypeOK
<1>2. /\ \A f \in Edo \ {e} : pc'[f] = pc[f]
      /\ \A f \in Edo : \A a : Logged(f, a) => Logged(f, a)'
  BY <1>1, EdoStepPath, EdoStepKeepsLog
<1>3. ASSUME UNCHANGED <<cuda, pending>> \/ p # Target[e],
             cuda'[p] = cuda[p], pending'[p] = pending[p]
      PROVE  /\ "Locked" \in {cuda'[p], pending'[p]} => LockAnnounced(p)'
             /\ "Checkpointed" \in {cuda'[p], pending'[p]} => Announced(p, "cuda.checkpoint.started")'
  <2>1. ASSUME "Locked" \in {cuda[p], pending[p]}
        PROVE  LockAnnounced(p)'
    <3>1. PICK w \in Edo : Target[w] = p /\
            \/ Command[w] = "freeze" /\ Logged(w, "cuda.lock.started")
            \/ /\ Command[w] = "roundtrip" /\ pc[w] \notin {"start", "waitRunning", "lock", "ok"}
               /\ pc[w] = "waitUnlocked" => cuda[p] # "Running"
      BY <1>1, <2>1 DEF LockAnnounced
    <3>2. CASE Command[w] = "freeze" \/ w # e
      BY <1>2, <1>3, <3>1, <3>2 DEF LockAnnounced
    <3>3. CASE Command[w] = "roundtrip" /\ w = e
      <4>1. ~Unlock(Target[e])
        BY <1>1, <1>3, <3>1, <3>3 DEF Unlock, Call, Ready, DriverTypeOK
      <4>2. pc'[e] \notin {"start", "waitRunning", "lock", "ok", "waitUnlocked"}
        BY <1>1, <3>1, <3>3, <4>1, RoundtripMoves DEF Cuda
      <4> QED BY <3>1, <3>3, <4>2 DEF LockAnnounced
    <3> QED BY <3>1, <3>2, <3>3
  <2>2. ASSUME "Checkpointed" \in {cuda[p], pending[p]}
        PROVE  Announced(p, "cuda.checkpoint.started")'
    <3>1. cuda[p] # "Running"
      BY <1>1, <2>2 DEF PendingInv
    <3>2. PICK w \in Edo : Target[w] = p /\
            \/ Command[w] = "freeze" /\ Logged(w, "cuda.checkpoint.started")
            \/ Command[w] = "roundtrip" /\ pc[w] \notin {"start", "waitRunning", "lock", "ok"}
      BY <1>1, <2>2 DEF Announced
    <3>3. CASE Command[w] = "freeze" \/ w # e
      BY <1>2, <3>2, <3>3 DEF Announced
    <3>4. CASE Command[w] = "roundtrip" /\ w = e
      <4>1. pc'[e] \notin {"start", "waitRunning", "lock", "ok"}
        BY <1>1, <3>1, <3>2, <3>4, RoundtripMoves DEF Cuda
      <4> QED BY <3>2, <3>4, <4>1 DEF Announced
    <3> QED BY <3>2, <3>3, <3>4
  <2> QED BY <1>3, <2>1, <2>2
<1>4. CASE UNCHANGED driverVars
  BY <1>3, <1>4 DEF driverVars
<1>5. ASSUME /\ \/ pc[e] = "lock" /\ Lock(Target[e]) /\ pc'[e] = "waitLocked"
                \/ pc[e] = "checkpoint" /\ Checkpoint(Target[e]) /\ pc'[e] = "waitCheckpointed"
                \/ pc[e] = "restore" /\ Restore(Target[e]) /\ pc'[e] = "waitRestored"
                \/ pc[e] = "recRestore" /\ Restore(Target[e]) /\ pc'[e] = "recWaitLocked"
                \/ pc[e] = "unlock" /\ Unlock(Target[e]) /\ pc'[e] = "waitUnlocked"
                \/ pc[e] = "recUnlock" /\ Unlock(Target[e]) /\ pc'[e] = "recWaitRunning",
             p = Target[e]
      PROVE  /\ "Locked" \in {cuda'[p], pending'[p]} => LockAnnounced(p)'
             /\ "Checkpointed" \in {cuda'[p], pending'[p]} => Announced(p, "cuda.checkpoint.started")'
  <2>1. \/ /\ Command[e] = "freeze" /\ Logged(e, "cuda.lock.started")
           /\ pc[e] = "checkpoint" => Logged(e, "cuda.checkpoint.started")
        \/ /\ Command[e] = "roundtrip" /\ pc'[e] \notin {"start", "waitRunning", "lock", "ok"}
           /\ pc'[e] = "waitUnlocked" => Unlock(p)
    <3>1. CASE Command[e] = "freeze"
      BY <1>1, <1>5, <3>1 DEF LogsBy, PathBy, Recovering
    <3>2. CASE Command[e] # "freeze"
      BY <1>1, <1>5, <3>2 DEF PathBy, Recovering
    <3> QED BY <3>1, <3>2
  <2>2. "Locked" \in {cuda'[p], pending'[p]} => LockAnnounced(p)'
    BY <1>1, <1>2, <1>5, <2>1, CallStates DEF LockAnnounced
  <2>3. CASE pc[e] = "checkpoint"
    BY <1>2, <1>5, <2>1, <2>2, <2>3 DEF Announced
  <2>4. CASE Lock(p) \/ Unlock(p)
    BY <1>1, <2>2, <2>4, CallStates
  <2>5. CASE Restore(p)
    <3>1. PICK w \in Edo : Target[w] = p /\
            \/ Command[w] = "freeze" /\ Logged(w, "cuda.checkpoint.started")
            \/ Command[w] = "roundtrip" /\ pc[w] \notin {"start", "waitRunning", "lock", "ok"}
      BY <1>1, <2>5, CallStates DEF Announced
    <3>2. CASE Command[w] = "freeze" \/ w # e
      BY <1>2, <2>2, <3>1, <3>2 DEF Announced
    <3>3. CASE Command[w] = "roundtrip" /\ w = e
      BY <1>5, <2>1, <2>2, <3>1, <3>3 DEF Announced
    <3> QED BY <3>1, <3>2, <3>3
  <2> QED BY <1>5, <2>3, <2>4, <2>5
<1> QED BY <1>1, <1>3, <1>4, <1>5, EdoStepCalls, CallStates

LEMMA TargetStepAnnounces ==
  ASSUME JournalInv, NEW q \in Pid, TargetStep(q), NEW p \in Pid
  PROVE  /\ "Locked" \in {cuda'[p], pending'[p]} => LockAnnounced(p)'
         /\ "Checkpointed" \in {cuda'[p], pending'[p]} => Announced(p, "cuda.checkpoint.started")'
<1>1. /\ DriverTypeOK /\ UNCHANGED <<storeVars, pc, journal>> /\ (Complete(q) \/ Break(q) \/ Die(q))
      /\ "Locked" \in {cuda[p], pending[p]} => LockAnnounced(p)
      /\ "Checkpointed" \in {cuda[p], pending[p]} => Announced(p, "cuda.checkpoint.started")
  BY DEF JournalInv, AheadInv, HeldInv, TypeInv, TypeOK, TargetStep
<1>2. /\ "Locked" \in {cuda'[p], pending'[p]} => "Locked" \in {cuda[p], pending[p]}
      /\ "Locked" \in {cuda'[p], pending'[p]} => cuda'[p] = cuda[p] \/ cuda'[p] = "Locked"
      /\ "Checkpointed" \in {cuda'[p], pending'[p]} => "Checkpointed" \in {cuda[p], pending[p]}
  BY <1>1 DEF DriverTypeOK, Complete, Break, Die
<1>3. "Locked" \in {cuda'[p], pending'[p]} => LockAnnounced(p)'
  BY <1>1, <1>2 DEF LockAnnounced, Logged, InFile
<1>4. "Checkpointed" \in {cuda'[p], pending'[p]} => Announced(p, "cuda.checkpoint.started")'
  BY <1>1, <1>2 DEF Announced, Logged, InFile
<1> QED BY <1>3, <1>4

(* The images of a freeze follow its entry. *)
LEMMA EdoStepImages ==
  ASSUME JournalInv, NEW e \in Edo, EdoStep(e) \/ Kill(e), NEW d \in Dir, NEW c \in images'[d],
         Command[c.by] = "freeze"
  PROVE  Logged(c.by, "criu.dump.started")'
<1>1. /\ TypeInv /\ StoreTypeOK /\ LogsBy(e) /\ Out[e] \in Dir
      /\ \A x \in images[d] : x.by \in Edo /\
           (Command[x.by] = "freeze" => Logged(x.by, "criu.dump.started"))
  BY CommandFacts DEF JournalInv, AheadInv, HeldInv, TypeInv, TypeOK, StoreTypeOK, Capture
<1>2. \A f \in Edo : \A a : Logged(f, a) => Logged(f, a)'
  BY <1>1, EdoStepKeepsLog
<1>3. CASE c \in images[d]
  BY <1>1, <1>2, <1>3
<1>4. CASE c \notin images[d]
  <2>1. pc[e] = "criu" /\ c = [by |-> e, quiescent |-> Cuda(e) = "Checkpointed"]
    <3>1. \/ images' = images
          \/ images' = [images EXCEPT ![Out[e]] = {}]
          \/ /\ pc[e] = "criu"
             /\ images' = [images EXCEPT ![Out[e]] =
                             @ \cup {[by |-> e, quiescent |-> Cuda(e) = "Checkpointed"]}]
      BY <1>1, EdoStepStore
         DEF storeVars, CreateDirectory, ClearLinkRemaps, DumpSucceeds, DumpFails, OpenManifest,
             FillManifest
    <3> QED BY <1>1, <1>4, <3>1 DEF StoreTypeOK
  <2>2. c.by = e
    BY <2>1
  <2> QED BY <1>1, <1>2, <2>1, <2>2 DEF LogsBy, Dumping
<1> QED BY <1>3, <1>4

LEMMA InitJournal == Init => JournalInv
<1> SUFFICES ASSUME Init PROVE JournalInv
  OBVIOUS
<1>1. HeldInv
  BY InitHeld
<1>2. PendingInv /\ AheadInv
  BY DEF Init, DriverInit, StoreInit, PendingInv, AheadInv
<1>3. \A e \in Edo : LogsBy(e)
  BY DEF Init, LogsBy, Frozen, Dumping, Writing, Recovering
<1> QED BY <1>1, <1>2, <1>3 DEF JournalInv

LEMMA NextJournal ==
  ASSUME JournalInv, [Next]_vars
  PROVE  JournalInv'
<1>1. /\ HeldInv /\ HeldInv' /\ TypeInv /\ DriverTypeOK /\ PendingInv /\ AheadInv
      /\ \A f \in Edo : LogsBy(f)
  BY NextHeld DEF JournalInv, HeldInv, TypeInv, TypeOK
<1>2. ASSUME NEW e \in Edo, EdoStep(e) \/ Kill(e)
      PROVE  JournalInv'
  <2>1. PendingInv'
    BY <1>1, <1>2, EdoStepCalls, DriverPending, CommandFacts
  <2>2. \A f \in Edo : LogsBy(f)'
    BY <1>1, <1>2, NextLogs
  <2>3. AheadInv'
    BY <1>2, EdoStepAnnounces, EdoStepImages DEF AheadInv
  <2> QED BY <1>1, <2>1, <2>2, <2>3 DEF JournalInv
<1>3. ASSUME NEW p \in Pid, TargetStep(p)
      PROVE  JournalInv'
  <2>1. PendingInv'
    BY <1>1, <1>3, DriverPending DEF TargetStep
  <2>2. UNCHANGED <<pc, journal, images>>
    BY <1>3 DEF TargetStep, storeVars
  <2>3. \A f \in Edo : LogsBy(f)'
    BY <1>1, <2>2 DEF LogsBy, Logged, InFile
  <2>4. AheadInv'
    BY <1>1, <1>3, <2>2, TargetStepAnnounces DEF AheadInv, Logged, InFile
  <2> QED BY <1>1, <2>1, <2>3, <2>4 DEF JournalInv
<1>4. CASE UNCHANGED vars
  BY <1>1, <1>4 DEF vars, driverVars, storeVars, JournalInv, PendingInv, AheadInv, LogsBy, Logged,
                    InFile, LockAnnounced, Announced
<1> QED BY <1>2, <1>3, <1>4 DEF Next, Done

(* Whatever state a freeze leaves a process or a directory in, when it fails  *)
(* or is killed, its journal has announced it, with an asynchronous driver    *)
(* too and whatever else runs on that process.                                *)
THEOREM JournalIsAhead == Spec => []JournalAhead
<1>1. JournalInv => JournalAhead
  BY DEF JournalInv, AheadInv, JournalAhead, LockAnnounced, Announced
<1> QED BY <1>1, InitJournal, NextJournal, PTL DEF Spec

-----------------------------------------------------------------------------
(* A freeze dumps a process that is CHECKPOINTED.                            *)

LEMMA FrozenSteps ==
  ASSUME TypeInv, NEW e \in Edo, EdoStep(e) \/ Kill(e), Command[e] = "freeze"
  PROVE  /\ pc'[e] = "waitCheckpointed" => Checkpoint(Target[e])
         /\ pc'[e] \in Frozen =>
              /\ UNCHANGED driverVars
              /\ pc[e] \in Frozen \/ (pc[e] = "waitCheckpointed" /\ Cuda(e) = "Checkpointed")
<1>1. pc \in [Edo -> Label]
  BY DEF TypeInv, TypeOK
<1> USE DEF Goto, Frozen, Dumping, Writing
<1>2. CASE Start(e) \/ Kill(e) \/ FreezeDown(e)
  BY <1>1, <1>2 DEF Start, FirstLabel, Kill, FreezeDown, Log, Wait, Drive, Sees, Cuda, Checkpoint
<1>3. CASE Prepare(e) \/ Create(e) \/ Clear(e) \/ Criu(e) \/ Write(e) \/ Fill(e) \/ Chmod(e)
             \/ LogReady(e)
  BY <1>1, <1>3 DEF Prepare, Create, Clear, Criu, Write, Fill, Chmod, LogReady, Log, Handler
<1>4. CASE Recover(e)
  BY <1>1, <1>4 DEF Recover, RecoverState, Wait, Drive
<1> QED BY <1>2, <1>3, <1>4 DEF EdoStep, Roundtrip

LEMMA FrozenHolds ==
  ASSUME NEW e \in Edo, Command[e] = "freeze", pc[e] \in Frozen \cup {"waitCheckpointed"}
  PROVE  Holds(e)
BY DEF Frozen, Holds, HoldingLabels, Dumping, Writing

(* What a command holds is moved by no step of another.                      *)
LEMMA HeldUntouched ==
  ASSUME HeldInv, NEW e \in Edo, EdoStep(e) \/ Kill(e), NEW f \in Edo \ {e}, Holds(f)
  PROVE  cuda'[Target[f]] = cuda[Target[f]] /\ pending'[Target[f]] = pending[Target[f]]
<1>1. /\ TypeInv /\ DriverTypeOK /\ Target[e] \in Pid /\ Target[f] \in Pid
      /\ Stopped(Target[f]) /\ (Holds(e) => Target[e] # Target[f])
  BY CommandFacts DEF HeldInv, HeldStopped, Exclusive, TypeInv, TypeOK
<1>2. CASE UNCHANGED driverVars
  BY <1>2 DEF driverVars
<1>3. CASE pc[e] = "lock" /\ Lock(Target[e])
  <2>1. Target[e] # Target[f]
    BY <1>1, <1>3 DEF Lock, Call, Ready, Stopped
  <2> QED BY <1>1, <1>3, <2>1, CallStates
<1>4. CASE Holds(e) /\ (Checkpoint(Target[e]) \/ Restore(Target[e]) \/ Unlock(Target[e]))
  BY <1>1, <1>4, CallStates
<1>5. pc[e] \in {"checkpoint", "restore", "recRestore", "unlock", "recUnlock"} => Holds(e)
  BY DEF Holds, HoldingLabels, Recovering
<1> QED BY <1>1, <1>2, <1>3, <1>4, <1>5, EdoStepCalls

LEMMA NextSettled ==
  ASSUME NeverBreaks, HeldInv, PendingInv, \A f \in Edo : SettledBy(f), [Next]_vars
  PROVE  \A f \in Edo : SettledBy(f)'
<1>1. TypeInv /\ DriverTypeOK
  BY DEF HeldInv, TypeInv, TypeOK
<1>2. ASSUME NEW e \in Edo, EdoStep(e) \/ Kill(e), NEW f \in Edo
      PROVE  SettledBy(f)'
  <2>1. CASE f # e
    <3>1. pc'[f] = pc[f]
      BY <1>1, <1>2, <2>1, EdoStepPath
    <3> QED BY <1>2, <2>1, <3>1, FrozenHolds, HeldUntouched DEF SettledBy, Cuda
  <2>2. CASE f = e /\ Command[e] = "freeze"
    <3>1. Target[e] \in Pid
      BY CommandFacts
    <3>2. pc'[e] = "waitCheckpointed" => pending'[Target[e]] \in {"None", "Checkpointed"}
      BY <1>1, <1>2, <2>2, <3>1, FrozenSteps DEF Checkpoint, Call, Ready, DriverTypeOK
    <3>3. pc'[e] \in Frozen => Cuda(e)' = "Checkpointed" /\ pending'[Target[e]] = "None"
      <4>1. pc[e] = "waitCheckpointed" /\ Cuda(e) = "Checkpointed" => pending[Target[e]] = "None"
        BY <2>2, <3>1 DEF SettledBy, PendingInv, Cuda
      <4> QED BY <1>1, <1>2, <2>2, <4>1, FrozenSteps DEF SettledBy, Cuda, driverVars
    <3> QED BY <2>2, <3>2, <3>3 DEF SettledBy
  <2>3. CASE Command[f] # "freeze"
    BY <2>3 DEF SettledBy
  <2> QED BY <2>1, <2>2, <2>3
<1>3. ASSUME NEW p \in Pid, TargetStep(p), NEW f \in Edo
      PROVE  SettledBy(f)'
  <2>1. Target[f] \in Pid /\ UNCHANGED pc /\ (Complete(p) \/ Die(p))
    BY <1>3, CommandFacts DEF TargetStep, Break, NeverBreaks
  <2> QED BY <1>1, <2>1 DEF Complete, Die, SettledBy, Cuda, DriverTypeOK
<1>4. ASSUME UNCHANGED vars
      PROVE  \A f \in Edo : SettledBy(f)'
  BY <1>4 DEF vars, driverVars, SettledBy, Cuda
<1> QED BY <1>2, <1>3, <1>4 DEF Next, Done

-----------------------------------------------------------------------------
(* A directory is in the hands of one freeze.                                *)

LEMMA OthersAway ==
  ASSUME DirectoryIsOneTargets, HeldInv, NEW e \in Edo, NEW f \in Edo \ {e}, Out[e] = Out[f],
         Command[f] = "freeze", pc[e] \in Dumping \cup Writing
  PROVE  pc[f] \notin Dumping \cup Writing \cup {"logReady"}
<1>1. Command[e] # "roundtrip"
  BY DEF HeldInv, TypeInv, PathBy
<1>2. Command[e] = "freeze" /\ Target[e] = Target[f]
  BY <1>1 DEF DirectoryIsOneTargets
<1>3. Holds(e) /\ ~Holds(f)
  BY <1>2 DEF Holds, HeldInv, Exclusive
<1> QED BY <1>3 DEF Holds, HoldingLabels

(* What a step does to the directories.                                      *)
LEMMA StoreSteps ==
  ASSUME TypeInv, NEW e \in Edo, EdoStep(e) \/ Kill(e)
  PROVE  /\ \A d \in Dir \ {Out[e]} :
              exists'[d] = exists[d] /\ images'[d] = images[d] /\ manifest'[d] = manifest[d]
         /\ exists[Out[e]] => exists'[Out[e]]
         /\ \/ /\ exists'[Out[e]] = exists[Out[e]] /\ images'[Out[e]] = images[Out[e]]
               /\ manifest'[Out[e]] = manifest[Out[e]]
            \/ pc[e] \in Dumping \cup Writing
<1>1. StoreTypeOK /\ Out[e] \in Dir
  BY CommandFacts DEF TypeInv, TypeOK
<1> QED BY <1>1, EdoStepStore
        DEF StoreTypeOK, storeVars, CreateDirectory, ClearLinkRemaps, DumpSucceeds, DumpFails,
            OpenManifest, FillManifest, Dumping, Writing

(* The labels of the dump and the manifest, one after the other.             *)
LEMMA WriteSteps ==
  ASSUME TypeInv, NEW e \in Edo, EdoStep(e) \/ Kill(e)
  PROVE  /\ pc'[e] = "create" => pc[e] = "prepare" /\ ~exists[Out[e]] /\ UNCHANGED storeVars
         /\ pc'[e] = "clear" => pc[e] = "create" /\ CreateDirectory(Out[e])
         /\ pc'[e] = "criu" => pc[e] = "clear" /\ ClearLinkRemaps
         /\ pc'[e] = "write" => pc[e] = "criu" /\
              DumpSucceeds(Out[e], [by |-> e, quiescent |-> Cuda(e) = "Checkpointed"], FALSE)
         /\ pc'[e] = "fill" => pc[e] = "write" /\ OpenManifest(Out[e], e)
         /\ pc'[e] = "chmod" => pc[e] = "fill" /\ FillManifest(Out[e])
         /\ pc'[e] = "logReady" => pc[e] = "chmod" /\ UNCHANGED storeVars
<1>1. pc \in [Edo -> Label]
  BY DEF TypeInv, TypeOK
<1> USE DEF Goto
<1>2. ASSUME Start(e) \/ Kill(e) \/ FreezeDown(e) \/ Roundtrip(e)
      PROVE  pc'[e] \notin {"create", "clear", "criu", "write", "fill", "chmod", "logReady"}
  <2>1. CASE Start(e) \/ Kill(e)
    BY <1>1, <2>1, CommandFacts DEF Start, FirstLabel, Kill
  <2>2. CASE FreezeDown(e)
    BY <1>1, <2>2 DEF FreezeDown, Log, Wait, Drive
  <2>3. CASE Roundtrip(e)
    BY <1>1, <2>3 DEF Roundtrip, Wait, Drive
  <2> QED BY <1>2, <2>1, <2>2, <2>3
<1>3. CASE Prepare(e) \/ Create(e) \/ Clear(e)
  BY <1>1, <1>3 DEF Prepare, Create, Clear, Handler
<1>4. CASE Criu(e)
  BY <1>1, <1>4 DEF Criu, Handler
<1>5. CASE Write(e) \/ Fill(e) \/ Chmod(e) \/ LogReady(e)
  BY <1>1, <1>5 DEF Write, Fill, Chmod, LogReady, Log, Handler
<1>6. CASE Recover(e)
  BY <1>1, <1>6 DEF Recover, RecoverState, Wait, Drive
<1> QED BY <1>2, <1>3, <1>4, <1>5, <1>6 DEF EdoStep

LEMMA OwnWrites ==
  ASSUME ReadyInv, NEW e \in Edo, EdoStep(e) \/ Kill(e)
  PROVE  WritesBy(e)'
<1> SUFFICES ASSUME Command[e] = "freeze" PROVE WritesIn(e, Out[e])'
  BY DEF WritesBy
<1> DEFINE d == Out[e]
<1>1. TypeInv /\ StoreTypeOK /\ d \in Dir /\ WritesIn(e, d) /\ SettledBy(e) /\ DirectoryInv
  BY CommandFacts DEF ReadyInv, HeldInv, TypeInv, TypeOK, WritesBy
<1>2. pc'[e] = "create" => ~exists'[d]
  BY <1>1, WriteSteps DEF storeVars
<1>3. pc'[e] \in {"clear", "criu"} => images'[d] = {} /\ manifest'[d] = NoManifest
  BY <1>1, WriteSteps DEF WritesIn, DirectoryInv, CreateDirectory, ClearLinkRemaps
<1>4. pc'[e] = "write" => images'[d] = {Own(e)} /\ manifest'[d] = NoManifest
  <2> SUFFICES ASSUME pc'[e] = "write" PROVE images'[d] = {Own(e)} /\ manifest'[d] = NoManifest
    OBVIOUS
  <2>1. /\ pc[e] = "criu" /\ UNCHANGED manifest
        /\ images' = [images EXCEPT ![d] = @ \cup {[by |-> e, quiescent |-> Cuda(e) = "Checkpointed"]}]
    BY <1>1, WriteSteps DEF DumpSucceeds
  <2>2. Cuda(e) = "Checkpointed"
    BY <1>1, <2>1 DEF SettledBy, Frozen, Dumping
  <2>3. images[d] = {} /\ manifest[d] = NoManifest
    BY <1>1, <2>1 DEF WritesIn
  <2> QED BY <1>1, <2>1, <2>2, <2>3 DEF Own, StoreTypeOK
<1>5. pc'[e] = "fill" => /\ images'[d] = {Own(e)} /\ manifest'[d] # NoManifest
                         /\ manifest'[d].state # "complete" /\ manifest'[d].by = e
  <2> SUFFICES ASSUME pc'[e] = "fill"
               PROVE  /\ images'[d] = {Own(e)} /\ manifest'[d] # NoManifest
                      /\ manifest'[d].state # "complete" /\ manifest'[d].by = e
    OBVIOUS
  <2>1. pc[e] = "write" /\ UNCHANGED images
        /\ manifest'[d] = [state |-> "partial", by |-> e, of |-> images[d]]
    BY <1>1, WriteSteps DEF OpenManifest, StoreTypeOK
  <2>2. manifest'[d].state = "partial" /\ NoManifest.state = "none"
    BY <2>1 DEF NoManifest
  <2> QED BY <1>1, <2>1, <2>2 DEF WritesIn, Writing
<1>6. pc'[e] = "chmod" => /\ images'[d] = {Own(e)}
                          /\ manifest'[d].state = "complete" /\ manifest'[d].by = e
  <2> SUFFICES ASSUME pc'[e] = "chmod"
               PROVE  images'[d] = {Own(e)} /\ manifest'[d].state = "complete" /\ manifest'[d].by = e
    OBVIOUS
  <2>1. pc[e] = "fill" /\ FillManifest(d)
    BY <1>1, WriteSteps
  <2>2. images[d] = {Own(e)} /\ manifest[d] # NoManifest /\ manifest[d].by = e
    BY <1>1, <2>1 DEF WritesIn, Writing
  <2>3. manifest'[d] = [state |-> "complete", by |-> manifest[d].by, of |-> manifest[d].of]
    BY <1>1, <2>1, <2>2 DEF FillManifest, StoreTypeOK
  <2>4. images' = images
    BY <2>1 DEF FillManifest
  <2> QED BY <2>2, <2>3, <2>4
<1>7. pc'[e] = "logReady" => /\ images'[d] = {Own(e)}
                             /\ manifest'[d].state = "complete" /\ manifest'[d].by = e
  BY <1>1, WriteSteps DEF WritesIn, Writing, storeVars, Published
<1> QED BY <1>2, <1>3, <1>4, <1>5, <1>6, <1>7 DEF WritesIn, Writing, Published

LEMMA OthersWrites ==
  ASSUME DirectoryIsOneTargets, ReadyInv, NEW e \in Edo, EdoStep(e) \/ Kill(e), NEW f \in Edo \ {e}
  PROVE  WritesBy(f)'
<1> SUFFICES ASSUME Command[f] = "freeze" PROVE WritesIn(f, Out[f])'
  BY DEF WritesBy
<1>1. /\ TypeInv /\ HeldInv /\ WritesIn(f, Out[f]) /\ Out[f] \in Dir
      /\ pc'[f] = pc[f]
  BY CommandFacts, EdoStepPath DEF ReadyInv, HeldInv, WritesBy
<1>2. CASE /\ exists'[Out[f]] = exists[Out[f]] /\ images'[Out[f]] = images[Out[f]]
           /\ manifest'[Out[f]] = manifest[Out[f]]
  BY <1>1, <1>2 DEF WritesIn, Published
<1>3. CASE Out[e] = Out[f] /\ pc[e] \in Dumping \cup Writing
  BY <1>1, <1>3, OthersAway DEF WritesIn, Dumping, Writing
<1> QED BY <1>1, <1>2, <1>3, StoreSteps

LEMMA NextDirectory ==
  ASSUME ReadyInv, NEW e \in Edo, EdoStep(e) \/ Kill(e)
  PROVE  DirectoryInv'
<1>1. TypeInv /\ StoreTypeOK /\ Out[e] \in Dir /\ DirectoryInv
  BY CommandFacts DEF ReadyInv, HeldInv, TypeInv, TypeOK
<1>2. ASSUME NEW f \in Edo, pc'[f] \in {"clear", "criu"} \cup Writing
      PROVE  exists'[Out[f]]
  <2>1. CASE f # e
    <3>1. pc'[f] = pc[f] /\ Out[f] \in Dir
      BY <1>1, <2>1, EdoStepPath, CommandFacts
    <3> QED BY <1>1, <1>2, <3>1, StoreSteps DEF DirectoryInv
  <2>2. CASE f = e
    <3>1. CASE pc'[e] = "clear"
      BY <1>1, <2>2, <3>1, WriteSteps DEF CreateDirectory, StoreTypeOK
    <3>2. CASE pc'[e] # "clear"
      <4>1. pc[e] \in {"clear", "criu"} \cup Writing
        BY <1>1, <1>2, <2>2, <3>2, WriteSteps DEF Writing
      <4> QED BY <1>1, <2>2, <4>1, StoreSteps DEF DirectoryInv
    <3> QED BY <3>1, <3>2
  <2> QED BY <2>1, <2>2
<1>3. ASSUME NEW d \in Dir, ~exists'[d]
      PROVE  images'[d] = {} /\ manifest'[d] = NoManifest
  <2>1. ~exists[d]
    BY <1>1, <1>3, StoreSteps
  <2>2. CASE d = Out[e] /\ pc[e] \in Dumping \cup Writing
    <3>1. pc[e] \in {"prepare", "create"}
      BY <1>1, <2>1, <2>2 DEF DirectoryInv, Dumping, Writing
    <3>2. UNCHANGED storeVars \/ CreateDirectory(Out[e])
      BY <1>1, <3>1, EdoStepStore
    <3> QED BY <1>1, <2>1, <3>2 DEF DirectoryInv, storeVars, CreateDirectory
  <2> QED BY <1>1, <2>1, <2>2, StoreSteps DEF DirectoryInv
<1> QED BY <1>2, <1>3 DEF DirectoryInv

LEMMA NextReady ==
  ASSUME DirectoryIsOneTargets, NeverBreaks, ReadyInv, [Next]_vars
  PROVE  ReadyInv'
<1>1. /\ HeldInv /\ HeldInv' /\ TypeInv /\ DriverTypeOK /\ StoreTypeOK /\ PendingInv /\ DirectoryInv
      /\ ReadyIsReady /\ \A f \in Edo : SettledBy(f)'
  BY NextHeld, NextSettled DEF ReadyInv, HeldInv, TypeInv, TypeOK
<1>2. ASSUME NEW e \in Edo, EdoStep(e) \/ Kill(e)
      PROVE  ReadyInv'
  <2>1. PendingInv'
    BY <1>1, <1>2, EdoStepCalls, DriverPending, CommandFacts
  <2>2. \A f \in Edo : WritesBy(f)'
    BY <1>2, OwnWrites, OthersWrites
  <2>3. DirectoryInv'
    BY <1>2, NextDirectory
  <2>4. ASSUME NEW f \in Edo, Command[f] = "freeze", HasSnapshot(Out[f], f)
        PROVE  HasSnapshot(Out[f], f)'
    <3>1. CASE Out[f] # Out[e] \/ pc[e] \notin Dumping \cup Writing
      BY <1>1, <1>2, <2>4, <3>1, StoreSteps, CommandFacts DEF HasSnapshot, Published
    <3>2. CASE Out[f] = Out[e] /\ pc[e] \in Dumping \cup Writing
      <4>1. Command[e] = "freeze"
        <5>1. Command[e] # "roundtrip"
          BY <1>1, <3>2 DEF TypeInv, PathBy
        <5> QED BY <2>4, <3>2, <5>1 DEF DirectoryIsOneTargets
      <4>2. manifest[Out[e]] # NoManifest /\ exists[Out[e]]
        BY <1>1, <2>4, <3>2, CommandFacts DEF HasSnapshot, Published, NoManifest, DirectoryInv
      <4>3. pc[e] \in {"prepare", "chmod"}
        BY <2>4, <3>2, <4>1, <4>2
           DEF HasSnapshot, ReadyInv, WritesBy, WritesIn, Dumping, Writing
      <4>4. UNCHANGED storeVars
        BY <1>1, <1>2, <4>3, EdoStepStore
      <4> QED BY <2>4, <4>4 DEF HasSnapshot, Published, storeVars
    <3> QED BY <3>1, <3>2
  <2>5. ASSUME NEW file \in JournalFiles, InFile(file, "snapshot.ready")'
        PROVE  \E f \in Edo : /\ Command[f] = "freeze" /\ JournalFile(f) = file
                              /\ HasSnapshot(Out[f], f)'
    <3>1. CASE InFile(file, "snapshot.ready")
      BY <1>1, <2>4, <3>1 DEF ReadyIsReady
    <3>2. CASE ~InFile(file, "snapshot.ready")
      <4>1. file = JournalFile(e) /\ pc[e] = "logReady" /\ Command[e] = "freeze"
        <5>1. journal \in [JournalFiles -> Seq(Event)] /\ JournalFile(e) \in JournalFiles
          BY <1>1 DEF TypeInv, TypeOK, JournalFiles
        <5>2. ASSUME NEW event \in Event,
                     journal' = [journal EXCEPT ![JournalFile(e)] = Append(@, event)],
                     event # "snapshot.ready" \/ file # JournalFile(e)
              PROVE  FALSE
          BY <2>5, <3>2, <5>1, <5>2 DEF InFile
        <5>3. journal' # journal
          BY <2>5, <3>2 DEF InFile
        <5> QED BY <1>1, <1>2, <5>2, <5>3, EdoStepJournal DEF TypeInv, PathBy
      <4>2. UNCHANGED storeVars
        BY <1>1, <1>2, <4>1, EdoStepStore
      <4>3. HasSnapshot(Out[e], e)
        BY <4>1 DEF ReadyInv, WritesBy, WritesIn, HasSnapshot, Own
      <4> QED BY <2>4, <4>1, <4>3
    <3> QED BY <3>1, <3>2
  <2>6. ReadyIsReady'
    BY <2>5 DEF ReadyIsReady
  <2> QED BY <1>1, <2>1, <2>2, <2>3, <2>6 DEF ReadyInv
<1>3. ASSUME UNCHANGED <<storeVars, pc, journal>>, PendingInv'
      PROVE  ReadyInv'
  <2>1. \A f \in Edo : WritesBy(f)'
    BY <1>3 DEF ReadyInv, WritesBy, WritesIn, Published, storeVars
  <2>2. DirectoryInv' /\ ReadyIsReady'
    BY <1>1, <1>3 DEF DirectoryInv, ReadyIsReady, InFile, HasSnapshot, Published, storeVars
  <2> QED BY <1>1, <1>3, <2>1, <2>2 DEF ReadyInv
<1>4. ASSUME NEW p \in Pid, TargetStep(p)
      PROVE  ReadyInv'
  BY <1>1, <1>3, <1>4, DriverPending DEF TargetStep
<1>5. CASE UNCHANGED vars
  BY <1>1, <1>3, <1>5, DriverPending DEF vars, PendingInv, driverVars
<1> QED BY <1>2, <1>4, <1>5 DEF Next, Done

LEMMA InitReady == Init => ReadyInv
<1> SUFFICES ASSUME Init PROVE ReadyInv
  OBVIOUS
<1>1. HeldInv /\ PendingInv
  BY InitHeld, InitJournal DEF JournalInv
<1>2. \A e \in Edo : SettledBy(e) /\ WritesBy(e)
  BY DEF Init, SettledBy, WritesBy, WritesIn, Frozen, Dumping, Writing
<1>3. DirectoryInv /\ ReadyIsReady
  BY CommandAssumption DEF Init, StoreInit, DirectoryInv, ReadyIsReady, InFile, Writing
<1> QED BY <1>1, <1>2, <1>3 DEF ReadyInv

(* snapshot.ready is in a journal file only if one of the directories that are *)
(* journalled there has a manifest and one dump, of the process CHECKPOINTED,  *)
(* both by the same freeze: no other run of freeze, whether it retries, fails  *)
(* or is killed, gets in between or touches it later. Directories may share    *)
(* the file.                                                                   *)
THEOREM ReadyIsTrue ==
  ASSUME DirectoryIsOneTargets, NeverBreaks
  PROVE  Spec => []ReadyIsReady
<1>1. ReadyInv => ReadyIsReady
  BY DEF ReadyInv
<1> QED BY <1>1, InitReady, NextReady, PTL DEF Spec

-----------------------------------------------------------------------------
(* What the error paths of freeze give back.                                 *)

LEMMA NoSurprise ==
  ASSUME RecoveryWorks, AccountInv, NEW p \in Pid
  PROVE  /\ \A from, to : Call(p, from, to) => /\ cuda[p] = from /\ cuda'[p] = to
                                             /\ pending' = pending /\ alive' = alive
         /\ \A s : WaitFails(p, s) => ~alive[p] \/ cuda[p] # s
         /\ StateFails(p) => ~alive[p]
         /\ \A s : \A op \in {"restore", "unlock"} : Refused(p, s, op) => ~alive[p] \/ cuda[p] # s
         /\ \A s : \A op : Refused(p, s, op) => UNCHANGED driverVars
<1>1. pending[p] = "None" /\ cuda \in [Pid -> ProcessState]
  BY DEF AccountInv, HeldInv, TypeInv, TypeOK, DriverTypeOK
<1> QED BY <1>1 DEF RecoveryWorks, Call, WaitFails, StateFails, Refused, Ready

(* A freeze whose target lives lets go of it running, or has succeeded.       *)
LEMMA OwnState ==
  ASSUME RecoveryWorks, AccountInv, NEW e \in Edo, EdoStep(e), Command[e] = "freeze", alive[Target[e]]
  PROVE  StateBy(e)' /\ (Holds(e) /\ ~Holds(e)' => Cuda(e)' = "Running" \/ pc'[e] = "ok")
<1>1. /\ pc \in [Edo -> Label] /\ StateBy(e) /\ Target[e] \in Pid /\ TypeInv /\ PathBy(e)
  BY CommandFacts DEF AccountInv, HeldInv, TypeInv, TypeOK
<1> USE DEF Goto, StateBy, Cuda, Holds, HoldingLabels, Frozen, Recovering, Dumping, Writing
<1>2. CASE Start(e)
  BY <1>1, <1>2 DEF Start, FirstLabel
<1>3. CASE FreezeDown(e)
  <2>1. CASE \/ Log(e, "logStarted", "freeze.started", "waitRunning")
             \/ Log(e, "logLock", "cuda.lock.started", "lock")
             \/ Wait(e, "waitRunning", "Running", "pollRunning", "logLock", "err")
    BY <1>1, <2>1 DEF Log, Wait
  <2>2. CASE Log(e, "logCheckpoint", "cuda.checkpoint.started", "checkpoint")
    BY <1>1, <2>2 DEF Log, RecoveryWorks, driverVars
  <2>3. CASE Log(e, "logDump", "criu.dump.started", "prepare")
    BY <1>1, <2>3 DEF Log, RecoveryWorks, driverVars
  <2>4. CASE Drive(e, "lock", "lock", "Running", "Locked", "waitLocked", "err")
    BY <1>1, <2>4, NoSurprise DEF Drive
  <2>5. CASE Wait(e, "waitLocked", "Locked", "pollLocked", "logCheckpoint", "recState")
    BY <1>1, <2>5, NoSurprise DEF Wait, driverVars
  <2>6. CASE Drive(e, "checkpoint", "checkpoint", "Locked", "Checkpointed", "waitCheckpointed",
                   "recState")
    BY <1>1, <2>6, NoSurprise DEF Drive, driverVars
  <2>7. CASE Wait(e, "waitCheckpointed", "Checkpointed", "pollCheckpointed", "logDump", "recState")
    BY <1>1, <2>7, NoSurprise DEF Wait, driverVars
  <2> QED BY <1>3, <2>1, <2>2, <2>3, <2>4, <2>5, <2>6, <2>7 DEF FreezeDown
<1>4. CASE Prepare(e) \/ Create(e) \/ Clear(e) \/ Criu(e) \/ Write(e) \/ Fill(e) \/ Chmod(e)
  BY <1>1, <1>4 DEF Prepare, Create, Clear, Criu, Write, Fill, Chmod, Handler, driverVars
<1>5. CASE LogReady(e)
  BY <1>1, <1>5 DEF LogReady, Log, RecoveryWorks
<1>6. CASE RecoverState(e)
  BY <1>1, <1>6, NoSurprise DEF RecoverState, Sees, driverVars
<1>7. CASE Drive(e, "recRestore", "restore", "Checkpointed", "Locked", "recWaitLocked", "err")
  BY <1>1, <1>7, NoSurprise DEF Drive
<1>8. CASE Wait(e, "recWaitLocked", "Locked", "state", "recUnlock", "err")
  BY <1>1, <1>8, NoSurprise DEF Wait, driverVars, RecoveryWorks
<1>9. CASE Drive(e, "recUnlock", "unlock", "Locked", "Running", "recWaitRunning", "err")
  BY <1>1, <1>9, NoSurprise DEF Drive
<1>10. CASE Wait(e, "recWaitRunning", "Running", "state", "err", "err")
  BY <1>1, <1>10 DEF Wait
<1> QED BY <1>2, <1>3, <1>4, <1>5, <1>6, <1>7, <1>8, <1>9, <1>10 DEF EdoStep, Roundtrip, Recover

LEMMA OnlyFreezeHolds ==
  ASSUME RecoveryWorks, TypeInv, NEW e \in Edo, Holds(e)
  PROVE  Command[e] = "freeze"
BY CommandFacts DEF RecoveryWorks, TypeInv, PathBy, Holds, HoldingLabels, Recovering

LEMMA EdoStepAccounts ==
  ASSUME RecoveryWorks, AccountInv, NEW e \in Edo, EdoStep(e) \/ Kill(e)
  PROVE  AccountInv'
<1>1. /\ TypeInv /\ HeldInv /\ DriverTypeOK /\ StoppedIsAccounted /\ Target[e] \in Pid
      /\ pending = [p \in Pid |-> "None"]
  BY CommandFacts DEF AccountInv, HeldInv, TypeInv, TypeOK
<1>2. EdoStep(e)
  BY DEF Kill, RecoveryWorks
<1>3. HeldInv'
  BY <1>1, <1>2, NextHeld DEF Next
<1>4. /\ pending' = pending /\ alive' = alive
      /\ \A q \in Pid \ {Target[e]} : cuda'[q] = cuda[q]
      /\ \/ UNCHANGED driverVars
         \/ Holds(e)' /\ Command[e] = "freeze"
         \/ Cuda(e)' = "Running"
  <2>1. CASE UNCHANGED driverVars
    BY <2>1 DEF driverVars
  <2>2. CASE /\ Lock(Target[e]) \/ Checkpoint(Target[e]) \/ Restore(Target[e])
             /\ pc'[e] \in {"waitLocked", "waitCheckpointed", "waitRestored", "recWaitLocked"}
    <3>1. Holds(e)'
      BY <2>2 DEF Holds, HoldingLabels, Recovering
    <3>2. Command[e] = "freeze"
      <4>1. pc[e] = "lock" \/ Holds(e)
        BY <1>1, <2>2, EdoStepPath, EdoStepCalls DEF Holds, HoldingLabels, Recovering, Lock, Checkpoint,
           Restore, Call, Ready
      <4> QED BY <1>1, <4>1, OnlyFreezeHolds, CommandFacts DEF TypeInv, PathBy, RecoveryWorks
    <3> QED BY <1>1, <2>2, <3>1, <3>2, NoSurprise, CallStates DEF Lock, Checkpoint, Restore
  <2>3. CASE Unlock(Target[e])
    BY <1>1, <2>3, NoSurprise, CallStates DEF Unlock, Cuda
  <2> QED BY <1>1, <2>1, <2>2, <2>3, EdoStepCalls
<1>5. ASSUME NEW f \in Edo
      PROVE  StateBy(f)'
  <2>1. CASE f # e
    <3>1. pc'[f] = pc[f] /\ StateBy(f)
      BY <1>1, <1>2, <2>1, EdoStepPath DEF AccountInv
    <3>2. CASE Holds(f)
      BY <1>1, <1>2, <1>4, <2>1, <3>1, <3>2, HeldUntouched DEF StateBy, Cuda
    <3>3. CASE ~Holds(f)
      BY <3>1, <3>3 DEF StateBy, Holds, HoldingLabels, Frozen, Recovering
    <3> QED BY <3>2, <3>3
  <2>2. CASE f = e /\ Command[e] = "freeze" /\ alive[Target[e]]
    BY <1>2, <2>2, OwnState
  <2>3. CASE f = e /\ ~(Command[e] = "freeze" /\ alive[Target[e]])
    BY <1>4, <2>3 DEF StateBy
  <2> QED BY <2>1, <2>2, <2>3
<1>6. ASSUME NEW p \in Pid, alive'[p], cuda'[p] # "Running"
      PROVE  \E f \in Edo : Target[f] = p /\ (Holds(f)' \/ (Command[f] = "freeze" /\ pc'[f] = "ok"))
  <2>1. CASE p = Target[e] /\ Holds(e)'
    BY <2>1
  <2>2. CASE ~(p = Target[e] /\ Holds(e)')
    <3>1. cuda'[p] = cuda[p] /\ alive[p]
      BY <1>1, <1>4, <1>6, <2>2 DEF Cuda, driverVars
    <3>2. PICK w \in Edo : Target[w] = p /\ (Holds(w) \/ (Command[w] = "freeze" /\ pc[w] = "ok"))
      BY <1>1, <1>6, <3>1 DEF StoppedIsAccounted
    <3>3. CASE w # e
      BY <1>1, <1>2, <3>2, <3>3, EdoStepPath DEF Holds
    <3>4. CASE w = e /\ Holds(e)
      <4>1. Command[e] = "freeze"
        BY <1>1, <3>4, OnlyFreezeHolds
      <4> QED BY <1>2, <1>6, <2>2, <3>1, <3>2, <3>4, <4>1, OwnState DEF Cuda
    <3>5. CASE w = e /\ pc[e] = "ok"
      BY <1>2, <3>5 DEF EdoStep, Start, FreezeDown, Roundtrip, Recover, RecoverState, Log, Wait,
         Drive, Prepare, Create, Clear, Criu, Write, Fill, Chmod, LogReady
    <3> QED BY <3>2, <3>3, <3>4, <3>5
  <2> QED BY <2>1, <2>2
<1> QED BY <1>1, <1>3, <1>4, <1>5, <1>6 DEF AccountInv, StoppedIsAccounted

LEMMA NextAccounts ==
  ASSUME RecoveryWorks, AccountInv, [Next]_vars
  PROVE  AccountInv'
<1>1. HeldInv /\ HeldInv' /\ DriverTypeOK /\ pending = [p \in Pid |-> "None"]
  BY NextHeld DEF AccountInv, HeldInv, TypeInv, TypeOK
<1>2. ASSUME NEW p \in Pid, TargetStep(p)
      PROVE  AccountInv'
  <2>1. Die(p) /\ UNCHANGED <<pc, cuda, pending>>
    BY <1>1, <1>2 DEF TargetStep, Complete, Break, Die, RecoveryWorks
  <2>2. \A q \in Pid : alive'[q] => alive[q]
    BY <1>1, <2>1 DEF Die, DriverTypeOK
  <2>3. \A f \in Edo : StateBy(f)'
    BY <2>1, <2>2, CommandFacts DEF AccountInv, StateBy, Cuda
  <2>4. StoppedIsAccounted'
    BY <2>1, <2>2 DEF AccountInv, StoppedIsAccounted, Holds
  <2> QED BY <1>1, <2>1, <2>3, <2>4 DEF AccountInv
<1>3. CASE UNCHANGED vars
  BY <1>1, <1>3 DEF vars, driverVars, AccountInv, StateBy, Cuda, StoppedIsAccounted, Holds
<1> QED BY <1>2, <1>3, EdoStepAccounts DEF Next, Done

LEMMA InitAccounts == Init => AccountInv
<1> SUFFICES ASSUME Init PROVE AccountInv
  OBVIOUS
<1>1. HeldInv
  BY InitHeld
<1>2. \A e \in Edo : StateBy(e)
  BY DEF Init, StateBy, Frozen, Dumping, Writing
<1>3. pending = [p \in Pid |-> "None"] /\ StoppedIsAccounted
  BY DEF Init, DriverInit, StoppedIsAccounted
<1> QED BY <1>1, <1>2, <1>3 DEF AccountInv

(* A freeze gives its target back from every error it recovers from, a failed *)
(* wait for LOCKED too: one that is stopped and lives is still in its hands,  *)
(* or is what its success leaves.                                             *)
THEOREM FailureGivesBack ==
  ASSUME RecoveryWorks
  PROVE  Spec => []StoppedIsAccounted
<1>1. AccountInv => StoppedIsAccounted
  BY DEF AccountInv
<1> QED BY <1>1, InitAccounts, NextAccounts, PTL DEF Spec

=============================================================================
