-------------------------------- MODULE Freeze ------------------------------
(* The commands that work on one process (main.rs): `edo freeze', which      *)
(* journals each phase, drives the target's CUDA state down and dumps it;    *)
(* `edo cpu-dump', the dump alone; and `edo cuda-roundtrip', down and up     *)
(* again without a dump. Each edo process runs one of them, beside others on *)
(* the same target or on another.                                            *)
(*                                                                           *)
(* A command is a path of labels, one per call that can fail or that another *)
(* process can notice. Most calls are followed by `?': the command ends with *)
(* an error at once. In freeze, and only there, some errors first go through *)
(* recover_cuda, whose own result is ignored.                                *)
EXTENDS CudaDriver, SnapshotStore, Sequences

CONSTANTS
  Command,       \* what e runs: "freeze", "cpuDump" or "roundtrip"
  Target,        \* the PID it runs it on
  Out,           \* its snapshot directory
  FileName,      \* the last component of the path it was given for that
                 \* directory, "" when the path has none (`..', `/')
  Cwd            \* the directory it was started in

VARIABLES
  pc,
  journal        \* the events of each journal file, oldest first

vars == <<driverVars, storeVars, pc, journal>>

ASSUME CommandAssumption ==
  /\ Command \in [Edo -> {"freeze", "cpuDump", "roundtrip"}]
  /\ Target \in [Edo -> Pid]
  /\ Out \in [Edo -> Dir]
  /\ FileName \in [Edo -> STRING]

(* .edo/journal/<name>.jsonl below the current directory: the name is all    *)
(* that is left of the snapshot directory, so directories share a file when  *)
(* their last components are equal, and with every path that has none.       *)
JournalFile(e) == <<Cwd[e], IF FileName[e] = "" THEN "snapshot" ELSE FileName[e]>>

JournalFiles == {JournalFile(e) : e \in Edo}

Event == {"freeze.started", "cuda.lock.started", "cuda.checkpoint.started",
          "criu.dump.started", "snapshot.ready"}

Ended == {"ok", "err", "killed"}
Recovering == {"recState", "recRestore", "recWaitLocked", "recUnlock", "recWaitRunning"}
Dumping == {"prepare", "create", "clear", "criu"}
Writing == {"write", "fill", "chmod"}
Journaling == {"logStarted", "logLock", "logCheckpoint", "logDump", "logReady"}
Driving == {"waitRunning", "lock", "waitLocked", "checkpoint", "waitCheckpointed",
            "restore", "waitRestored", "unlock", "waitUnlocked"}
Label == {"start"} \cup Driving \cup Dumping \cup Writing \cup Journaling
                   \cup Recovering \cup Ended

TypeOK ==
  /\ DriverTypeOK
  /\ StoreTypeOK
  /\ pc \in [Edo -> Label]
  /\ journal \in [JournalFiles -> Seq(Event)]

Init ==
  /\ DriverInit
  /\ StoreInit
  /\ pc = [e \in Edo |-> "start"]
  /\ journal = [file \in JournalFiles |-> <<>>]

Goto(e, l) == pc' = [pc EXCEPT ![e] = l]

Cuda(e) == cuda[Target[e]]

-----------------------------------------------------------------------------
(* The three kinds of step the paths are made of.                            *)

(* Mutant of Log: an entry that cannot be written is skipped.                *)
Log_ErrorDropped(e, at, event, next) ==
  /\ pc[e] = at
  /\ \/ journal' = [journal EXCEPT ![JournalFile(e)] = Append(@, event)]
     \/ "journal" \in Faulty /\ UNCHANGED journal
  /\ Goto(e, next)
  /\ UNCHANGED <<driverVars, storeVars>>

(* journal(directory, event)?                                                *)
Log(e, at, event, next) ==
  /\ pc[e] = at
  /\ \/ journal' = [journal EXCEPT ![JournalFile(e)] = Append(@, event)] /\ Goto(e, next)
     \/ "journal" \in Faulty /\ Goto(e, "err") /\ UNCHANGED journal
  /\ UNCHANGED <<driverVars, storeVars>>

(* wait_for_state(pid, s): on to next, or to what handles the error. A poll  *)
(* may fail on its own: `fault' names that of this wait.                     *)
Wait(e, at, s, fault, next, handler) ==
  /\ pc[e] = at
  /\ \/ Sees(Target[e], s) /\ Goto(e, next)
     \/ (WaitFails(Target[e], s) \/ fault \in Faulty) /\ Goto(e, handler)
  /\ UNCHANGED <<driverVars, storeVars, journal>>

(* One of the four calls that move the target from one state to another.     *)
Drive(e, at, op, from, to, next, handler) ==
  /\ pc[e] = at
  /\ \/ Call(Target[e], from, to) /\ Goto(e, next)
     \/ Refused(Target[e], from, op) /\ Goto(e, handler)
  /\ UNCHANGED <<storeVars, journal>>

-----------------------------------------------------------------------------
(* process::resolve, but in cuda-roundtrip; load and cuInit, but in cpu-dump. *)

Resolves(e) == alive[Target[e]] \/ Command[e] = "roundtrip"

LoadMayFail(e) == "load" \in Faulty /\ Command[e] # "cpuDump"

FirstLabel(e) ==
  CASE Command[e] = "freeze" -> "logStarted"
    [] Command[e] = "cpuDump" -> "prepare"
    [] Command[e] = "roundtrip" -> "waitRunning"

Start(e) ==
  /\ pc[e] = "start"
  /\ \/ Resolves(e) /\ Goto(e, FirstLabel(e))
     \/ (~Resolves(e) \/ LoadMayFail(e)) /\ Goto(e, "err")
  /\ UNCHANGED <<driverVars, storeVars, journal>>

(* Mutant of FreezeDown: a failed lock call goes through recover_cuda too.   *)
FreezeDown_RecoversLock(e) ==
  /\ Command[e] = "freeze"
  /\ \/ Log(e, "logStarted", "freeze.started", "waitRunning")
     \/ Wait(e, "waitRunning", "Running", "pollRunning", "logLock", "err")
     \/ Log(e, "logLock", "cuda.lock.started", "lock")
     \/ Drive(e, "lock", "lock", "Running", "Locked", "waitLocked", "recState")

(* The way down, of freeze. A failed lock call and the journal's errors end  *)
(* the command without a recovery.                                           *)
FreezeDown(e) ==
  /\ Command[e] = "freeze"
  /\ \/ Log(e, "logStarted", "freeze.started", "waitRunning")
     \/ Wait(e, "waitRunning", "Running", "pollRunning", "logLock", "err")
     \/ Log(e, "logLock", "cuda.lock.started", "lock")
     \/ Drive(e, "lock", "lock", "Running", "Locked", "waitLocked", "err")
     \/ Wait(e, "waitLocked", "Locked", "pollLocked", "logCheckpoint", "recState")
     \/ Log(e, "logCheckpoint", "cuda.checkpoint.started", "checkpoint")
     \/ Drive(e, "checkpoint", "checkpoint", "Locked", "Checkpointed",
              "waitCheckpointed", "recState")
     \/ Wait(e, "waitCheckpointed", "Checkpointed", "pollCheckpointed", "logDump", "recState")
     \/ Log(e, "logDump", "criu.dump.started", "prepare")

(* cuda-roundtrip: every call ends the command when it fails.                *)
Roundtrip(e) ==
  /\ Command[e] = "roundtrip"
  /\ \/ Wait(e, "waitRunning", "Running", "pollRunning", "lock", "err")
     \/ Drive(e, "lock", "lock", "Running", "Locked", "waitLocked", "err")
     \/ Wait(e, "waitLocked", "Locked", "pollLocked", "checkpoint", "err")
     \/ Drive(e, "checkpoint", "checkpoint", "Locked", "Checkpointed",
              "waitCheckpointed", "err")
     \/ Wait(e, "waitCheckpointed", "Checkpointed", "pollCheckpointed", "restore", "err")
     \/ Drive(e, "restore", "restore", "Checkpointed", "Locked", "waitRestored", "err")
     \/ Wait(e, "waitRestored", "Locked", "state", "unlock", "err")
     \/ Drive(e, "unlock", "unlock", "Locked", "Running", "waitUnlocked", "err")
     \/ Wait(e, "waitUnlocked", "Running", "state", "ok", "err")

-----------------------------------------------------------------------------
(* criu::dump and snapshot::write_kind, of freeze and of cpu-dump.           *)

(* Mutant of Handler: freeze returns without a recovery.                     *)
Handler_NoRecovery(e) == "err"

(* What a failed dump or manifest leads to.                                  *)
Handler(e) == IF Command[e] = "freeze" THEN "recState" ELSE "err"

Prepare(e) ==
  /\ pc[e] = "prepare"
  /\ Goto(e, IF exists[Out[e]] THEN Handler(e) ELSE "create")
  /\ UNCHANGED <<driverVars, storeVars, journal>>

Create(e) ==
  /\ pc[e] = "create"
  /\ \/ CreateDirectory(Out[e]) /\ Goto(e, "clear")
     \/ "mkdir" \in Faulty /\ Goto(e, Handler(e)) /\ UNCHANGED storeVars
  /\ UNCHANGED <<driverVars, journal>>

Clear(e) ==
  /\ pc[e] = "clear"
  /\ ClearLinkRemaps
  /\ Goto(e, "criu")
  /\ UNCHANGED <<driverVars, journal>>

(* The target is the root of the dump: a dump without it fails. No link      *)
(* remap is kept.                                                            *)
Criu(e) ==
  /\ pc[e] = "criu"
  /\ \/ /\ alive[Target[e]]
        /\ DumpSucceeds(Out[e], [by |-> e, quiescent |-> Cuda(e) = "Checkpointed"], FALSE)
        /\ Goto(e, "write")
     \/ /\ "dump" \in Faulty \/ ~alive[Target[e]] \/ remaps # {}
        /\ DumpFails(Out[e])
        /\ Goto(e, Handler(e))
  /\ UNCHANGED <<driverVars, journal>>

Write(e) ==
  /\ pc[e] = "write"
  /\ \/ OpenManifest(Out[e], e) /\ Goto(e, "fill")
     \/ "write" \in Faulty /\ Goto(e, Handler(e)) /\ UNCHANGED storeVars
  /\ UNCHANGED <<driverVars, journal>>

(* Mutant of Fill: the error of the write is dropped.                        *)
Fill_ErrorDropped(e) ==
  /\ pc[e] = "fill"
  /\ FillManifest(Out[e]) \/ ("write" \in Faulty /\ UNCHANGED storeVars)
  /\ Goto(e, "chmod")
  /\ UNCHANGED <<driverVars, journal>>

Fill(e) ==
  /\ pc[e] = "fill"
  /\ \/ FillManifest(Out[e]) /\ Goto(e, "chmod")
     \/ "write" \in Faulty /\ Goto(e, Handler(e)) /\ UNCHANGED storeVars
  /\ UNCHANGED <<driverVars, journal>>

Chmod(e) ==
  /\ pc[e] = "chmod"
  /\ \/ /\ manifest[Out[e]] # NoManifest
        /\ Goto(e, IF Command[e] = "freeze" THEN "logReady" ELSE "ok")
     \/ /\ "chmod" \in Faulty \/ manifest[Out[e]] = NoManifest
        /\ Goto(e, Handler(e))
  /\ UNCHANGED <<driverVars, storeVars, journal>>

LogReady(e) == Log(e, "logReady", "snapshot.ready", "ok")

-----------------------------------------------------------------------------
(* recover_cuda. Whatever it returns, freeze returns the error it had.       *)

RecoverState(e) ==
  /\ pc[e] = "recState"
  /\ \/ Sees(Target[e], "Checkpointed") /\ Goto(e, "recRestore")
     \/ Sees(Target[e], "Locked") /\ Goto(e, "recUnlock")
     \/ Sees(Target[e], "Running") /\ Goto(e, "recWaitRunning")
     \/ (Sees(Target[e], "Failed") \/ StateFails(Target[e])) /\ Goto(e, "err")
  /\ UNCHANGED <<driverVars, storeVars, journal>>

Recover(e) ==
  \/ RecoverState(e)
  \/ Drive(e, "recRestore", "restore", "Checkpointed", "Locked", "recWaitLocked", "err")
  \/ Wait(e, "recWaitLocked", "Locked", "state", "recUnlock", "err")
  \/ Drive(e, "recUnlock", "unlock", "Locked", "Running", "recWaitRunning", "err")
  \/ Wait(e, "recWaitRunning", "Running", "state", "err", "err")

-----------------------------------------------------------------------------

Kill(e) ==
  /\ "kill" \in Faulty
  /\ pc[e] \notin Ended
  /\ Goto(e, "killed")
  /\ UNCHANGED <<driverVars, storeVars, journal>>

EdoStep(e) ==
  \/ Start(e) \/ FreezeDown(e) \/ Roundtrip(e)
  \/ Prepare(e) \/ Create(e) \/ Clear(e) \/ Criu(e)
  \/ Write(e) \/ Fill(e) \/ Chmod(e) \/ LogReady(e)
  \/ Recover(e)

TargetStep(p) ==
  (Complete(p) \/ Break(p) \/ Die(p)) /\ UNCHANGED <<storeVars, pc, journal>>

AllEnded == \A e \in Edo : pc[e] \in Ended

Done == AllEnded /\ UNCHANGED vars

Next ==
  \/ \E e \in Edo : EdoStep(e) \/ Kill(e)
  \/ \E p \in Pid : TargetStep(p)
  \/ Done

Spec == Init /\ [][Next]_vars

(* As in FreezeGroup: waits have deadlines and calls return.                 *)
FairSpec == Spec /\ \A e \in Edo : WF_vars(EdoStep(e))

-----------------------------------------------------------------------------
(* The lock on e's target is e's from the lock call it made until the unlock  *)
(* call it makes: through the dump and the manifest in freeze, in recover_cuda *)
(* and in cuda-roundtrip.                                                     *)

HoldingLabels ==
  {"waitLocked", "logCheckpoint", "checkpoint", "waitCheckpointed", "logDump",
   "restore", "waitRestored", "unlock", "logReady"}
    \cup (Recovering \ {"recWaitRunning"})

Holds(e) ==
  \/ pc[e] \in HoldingLabels
  \/ Command[e] = "freeze" /\ pc[e] \in Dumping \cup Writing

(* A freeze and a cuda-roundtrip, or two of either, never drive one process   *)
(* together; above all recover_cuda, which acts on the state it reads, never  *)
(* restores or unlocks a process that another command has locked.             *)
Exclusive ==
  \A e, f \in Edo : e # f /\ Holds(e) /\ Holds(f) => Target[e] # Target[f]

(* The journal is ahead of the process it is about: a state a freeze leaves   *)
(* behind when it is killed or fails, in the driver or on disk, was announced *)
(* by an event. cuda-roundtrip keeps no journal: between its lock call and its *)
(* end, and when it failed, the state may be one it left. Where commands share *)
(* a journal file the event may be another's: the file does not say whose.    *)
InFile(file, event) == \E i \in 1..Len(journal[file]) : journal[file][i] = event

Logged(e, event) == InFile(JournalFile(e), event)

Announced(p, event) ==
  \E e \in Edo : Target[e] = p /\
    \/ Command[e] = "freeze" /\ Logged(e, event)
    \/ Command[e] = "roundtrip" /\ pc[e] \notin {"start", "waitRunning", "lock", "ok"}

JournalAhead ==
  /\ \A p \in Pid : cuda[p] = "Locked" => Announced(p, "cuda.lock.started")
  /\ \A p \in Pid : cuda[p] = "Checkpointed" => Announced(p, "cuda.checkpoint.started")
  /\ \A d \in Dir : \A c \in images[d] :
       Command[c.by] = "freeze" => Logged(c.by, "criu.dump.started")

(* snapshot.ready is in a journal file only when one of the directories that  *)
(* are journalled there is ready: its manifest can be read, and its images are *)
(* the one dump, of a CHECKPOINTED process, of the freeze that wrote the       *)
(* manifest. With one directory to the file it is that one.                   *)
HasSnapshot(d, e) ==
  /\ Published(d) /\ manifest[d].by = e
  /\ images[d] = {[by |-> e, quiescent |-> TRUE]}

ReadyIsReady ==
  \A file \in JournalFiles : InFile(file, "snapshot.ready") =>
    \E e \in Edo : Command[e] = "freeze" /\ JournalFile(e) = file /\ HasSnapshot(Out[e], e)

(* A stopped process that lives is still driven by a command, or is what a    *)
(* freeze that succeeded leaves: freeze's error paths let their target run.   *)
StoppedIsAccounted ==
  \A p \in Pid : alive[p] /\ cuda[p] # "Running" =>
    \E e \in Edo : Target[e] = p /\ (Holds(e) \/ (Command[e] = "freeze" /\ pc[e] = "ok"))

(* Every command ends, also on a target another command keeps stopped.        *)
EveryEdoEnds == \A e \in Edo : <>(pc[e] \in Ended)

(* The dump keeps the source alive "and let[s] Edo restore/unlock CUDA below"  *)
(* (criu.rs:52-53): a freeze that succeeded has let its target run again.      *)
SourceRunsAfterFreeze ==
  \A e \in Edo : Command[e] = "freeze" /\ pc[e] = "ok" => ~Sees(Target[e], "Checkpointed")

=============================================================================
