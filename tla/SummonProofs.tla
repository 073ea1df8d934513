----------------------------- MODULE SummonProofs ---------------------------
(* What holds of Summon for any snapshots, PIDs and faults: a command drives  *)
(* each process it had CRIU create, and no other; a worker of a group runs    *)
(* again only when every other one is back; and success means that they run.  *)
EXTENDS Summon, FiniteSetTheorems, TLAPS

-----------------------------------------------------------------------------
(* The hypotheses. Processes are told apart by executable and command line,   *)
(* so no other process of the node may have those of a group's workers: the   *)
(* run summon_replica shows what happens if one has. And parallel_cuda_calls  *)
(* polls nothing: an accepted call has to be done when it returns.            *)
NoReplica ==
  \A e \in Edo : Command[e] = "group" => \A i \in 1..Size(e) :
    /\ \A p \in DOMAIN Bystander : Bystander[p] # Recorded[e][i]
    /\ \A f \in Edo \ {e} : \A j \in 1..Size(f) : Recorded[f][j] # Recorded[e][i]

Synchronous == ~AsyncDriver

(* Where each command goes.                                                   *)
GroupOnly  == {"tree", "map", "restoring", "unlocking"}
SingleOnly == {"logStarted", "restore", "waitLocked", "unlock", "waitRunning", "logReady"}
Before(e) == pc[e] \in {"read", "criu"} \/ (pc[e] = "load" /\ Command[e] = "group")
(* CRIU has created the processes of e. *)
After(e) ==
  \/ pc[e] \in GroupOnly \cup SingleOnly \cup {"pidfile", "ok"}
  \/ pc[e] = "load" /\ Command[e] = "single"

PathInv ==
  \A e \in Edo :
    /\ pc[e] \in GroupOnly => Command[e] = "group"
    /\ pc[e] \in SingleOnly => Command[e] = "single"
    /\ pc[e] = "load" => Command[e] \in {"group", "single"}
    /\ pc[e] = "pidfile" => Command[e] # "group"

(* The process table: a process is of the node or of a command's snapshot,    *)
(* and a command has all the processes of its snapshot or none.               *)
TableInv ==
  /\ process \in [Pid -> {NoProcess} \cup [by : Edo \cup {"node"}, id : Identity]]
  /\ \A p \in Pid :
       /\ process[p] = NoProcess => ~alive[p]
       /\ process[p].by = "node" => p \in DOMAIN Bystander /\ process[p].id = Bystander[p]
       /\ \A e \in Edo : process[p].by = e =>
            \E i \in 1..Size(e) : process[p].id = Recorded[e][i]
  /\ \A e \in Edo :
       /\ Before(e) => Restored(e) = {}
       /\ After(e) => IsFiniteSet(Restored(e)) /\ Cardinality(Restored(e)) = Size(e)

(* What a command has found of its processes, and its threads.                *)
FoundBy(e) ==
  /\ Before(e) \/ pc[e] \in {"tree", "pidfile"} => mapped[e] = <<>>
  /\ pc[e] = "map" => Len(mapped[e]) < Size(e)
  /\ pc[e] \in SingleOnly \/ (pc[e] = "load" /\ Command[e] = "single") =>
       Len(mapped[e]) = 1 /\ Used(e) \subseteq Restored(e)
  /\ pc[e] = "ok" /\ Command[e] = "group" => Len(mapped[e]) = Size(e)
  /\ pc[e] \in {"restoring", "unlocking"} =>
       Len(mapped[e]) = Size(e) /\ Len(thread[e]) = Size(e)
  /\ pc[e] \notin {"restoring", "unlocking"} => joined[e] = 0 /\ thread[e] = <<>>

FoundInv ==
  /\ mapped \in [Edo -> Seq(Pid)]
  /\ thread \in [Edo -> Seq({"running", "ok", "err"})]
  /\ joined \in [Edo -> Nat]
  /\ \A e \in Edo : FoundBy(e)

TypeInv == TypeOK /\ PathInv /\ TableInv /\ FoundInv /\ MatchedOnce

-----------------------------------------------------------------------------
(* The states of the restored processes, per stage of the command.            *)

NoneRuns(e)  == \A p \in Restored(e) : cuda[p] # "Running"
NoneFrozen(e) == \A p \in Restored(e) : cuda[p] # "Checkpointed"
AllRun(e)    == \A p \in Restored(e) : cuda[p] = "Running"

DriverInv ==
  /\ pending = [p \in Pid |-> "None"]
  /\ \A p \in Pid : process[p] = NoProcess => cuda[p] = "Running"

StageBy(e) ==
  /\ Command[e] = "group" =>
       /\ NoneRuns(e) \/ NoneFrozen(e)
       /\ pc[e] \in {"tree", "map", "restoring"} => NoneRuns(e)
       /\ pc[e] = "unlocking" => NoneFrozen(e)
  /\ pc[e] = "restoring" => \A i \in 1..Size(e) :
       /\ thread[e][i] = "ok" => cuda[mapped[e][i]] # "Checkpointed"
       /\ i <= joined[e] => thread[e][i] = "ok"
  /\ pc[e] = "unlocking" => \A i \in 1..Size(e) :
       /\ thread[e][i] = "ok" => cuda[mapped[e][i]] = "Running"
       /\ i <= joined[e] => thread[e][i] = "ok"
  /\ pc[e] = "logReady" => cuda[mapped[e][1]] = "Running"
  /\ pc[e] = "ok" /\ Command[e] # "cpu" => AllRun(e)

StageInv == \A e \in Edo : StageBy(e)

(* No command goes on with a snapshot of a kind it refuses.                   *)
KindInv == \A e \in Edo : pc[e] \notin Ended \cup {"read"} => Accepts(e)

DrivesInv == TypeInv /\ DrivesRestored
SummonInv == DrivesInv /\ KindInv /\ DriverInv /\ StageInv

-----------------------------------------------------------------------------
(* The constants, and what CRIU does to the process table.                    *)

LEMMA SnapshotFacts ==
  ASSUME NEW e \in Edo
  PROVE  /\ Command[e] \in {"group", "single", "cpu"}
         /\ Recorded[e] \in Seq(Identity) /\ Size(e) \in Nat \ {0}
         /\ Kind[e] # "cuda-criu-group" => Size(e) = 1
         /\ \A i \in 1..Size(e) : Recorded[e][i] \in Identity
<1>1. /\ Command[e] \in {"group", "single", "cpu"} /\ Recorded[e] \in Seq(Identity)
      /\ Recorded[e] # <<>> /\ (Kind[e] # "cuda-criu-group" => Size(e) = 1)
  BY SummonAssumption DEF Size
<1> QED BY <1>1 DEF Size

LEMMA TableFacts ==
  ASSUME TableInv, NEW p \in Pid
  PROVE  /\ process[p] = NoProcess <=> process[p].by = "nobody"
         /\ process[p] # NoProcess => process[p].by \in Edo \cup {"node"} /\ process[p].id \in Identity
<1>1. process[p] \in {NoProcess} \cup [by : Edo \cup {"node"}, id : Identity]
  BY DEF TableInv
<1> QED BY <1>1, SummonAssumption DEF NoProcess

LEMMA CriuCreates ==
  ASSUME TypeInv, NEW e \in Edo, pc[e] = "criu", CriuSucceeds(e)
  PROVE  /\ process' \in [Pid -> {NoProcess} \cup [by : Edo \cup {"node"}, id : Identity]]
         /\ IsFiniteSet(Restored(e)') /\ Cardinality(Restored(e)') = Size(e)
         /\ \A p \in Restored(e)' :
              /\ process[p] = NoProcess /\ alive'[p]
              /\ \E i \in 1..Size(e) : process'[p].id = Recorded[e][i]
              /\ Kind[e] # "cpu-criu" => cuda'[p] = "Checkpointed"
         /\ \A p \in Pid \ Restored(e)' :
              process'[p] = process[p] /\ alive'[p] = alive[p] /\ cuda'[p] = cuda[p]
<1> DEFINE n == Size(e)
<1>1. PICK f \in [1..n -> Free], s \in ImageStates(Kind[e]) :
        /\ \A i, j \in 1..n : f[i] = f[j] => i = j
        /\ process' = [p \in Pid |-> IF \E i \in 1..n : f[i] = p
                         THEN [by |-> e, id |-> Recorded[e][CHOOSE i \in 1..n : f[i] = p]]
                         ELSE process[p]]
        /\ alive' = [p \in Pid |-> alive[p] \/ \E i \in 1..n : f[i] = p]
        /\ cuda' = [p \in Pid |-> IF \E i \in 1..n : f[i] = p THEN s ELSE cuda[p]]
  BY DEF CriuSucceeds
<1>2. /\ n \in Nat /\ \A i \in 1..n : Recorded[e][i] \in Identity
      /\ process \in [Pid -> {NoProcess} \cup [by : Edo \cup {"node"}, id : Identity]]
      /\ alive \in [Pid -> BOOLEAN]
      /\ Restored(e) = {} /\ Free \subseteq Pid
  BY SnapshotFacts DEF TypeInv, TableInv, Before, Free, TypeOK, DriverTypeOK
<1> DEFINE S == {p \in Pid : \E i \in 1..n : f[i] = p}
<1>3. \A p \in S : \E i \in 1..n : process'[p] = [by |-> e, id |-> Recorded[e][i]]
  <2> SUFFICES ASSUME NEW p \in S
               PROVE  \E i \in 1..n : process'[p] = [by |-> e, id |-> Recorded[e][i]]
    OBVIOUS
  <2> DEFINE k == CHOOSE i \in 1..n : f[i] = p
  <2>1. k \in 1..n
    OBVIOUS
  <2>2. process'[p] = [by |-> e, id |-> Recorded[e][k]]
    BY <1>1
  <2> QED BY <2>1, <2>2
<1>4. \A p \in Pid \ S : process'[p] = process[p] /\ alive'[p] = alive[p] /\ cuda'[p] = cuda[p]
  BY <1>1, <1>2
<1>5. Restored(e)' = S
  BY <1>1, <1>2, <1>3, <1>4 DEF Restored
<1>6. process' \in [Pid -> {NoProcess} \cup [by : Edo \cup {"node"}, id : Identity]]
  <2>1. \A i \in 1..n : [by |-> e, id |-> Recorded[e][i]] \in [by : Edo \cup {"node"}, id : Identity]
    BY <1>2
  <2>2. \A p \in S : process'[p] \in [by : Edo \cup {"node"}, id : Identity]
    <3> SUFFICES ASSUME NEW p \in S PROVE process'[p] \in [by : Edo \cup {"node"}, id : Identity]
      OBVIOUS
    <3>1. PICK i \in 1..n : process'[p] = [by |-> e, id |-> Recorded[e][i]]
      BY <1>3
    <3> QED BY <2>1, <3>1, Zenon
  <2>3. \A p \in Pid \ S : process'[p] \in {NoProcess} \cup [by : Edo \cup {"node"}, id : Identity]
    BY <1>2, <1>4
  <2> QED BY <1>1, <2>2, <2>3
<1>7. IsFiniteSet(S) /\ Cardinality(S) = n
  <2>1. IsFiniteSet(1..n) /\ Cardinality(1..n) = n
    BY <1>2, FS_Interval
  <2>2. f \in Bijection(1..n, S)
    <3>1. f \in [1..n -> S]
      BY <1>2
    <3> QED BY <1>1, <3>1 DEF Bijection, Injection, Surjection, IsInjective
  <2> QED BY <2>1, <2>2, FS_Bijection DEF ExistsBijection
<1>8. \A p \in S : process[p] = NoProcess
  BY DEF Free
<1>9. \A p \in S : alive'[p] /\ (Kind[e] # "cpu-criu" => cuda'[p] = "Checkpointed")
  BY <1>1 DEF ImageStates
<1>10. \A p \in S : \E i \in 1..n : process'[p].id = Recorded[e][i]
  <2>1. \A x, i : x = [by |-> e, id |-> Recorded[e][i]] => x.id = Recorded[e][i]
    OBVIOUS
  <2> QED BY <1>3, <2>1
<1> QED BY <1>4, <1>5, <1>6, <1>7, <1>8, <1>9, <1>10

-----------------------------------------------------------------------------
(* The types, and what a command has found.                                  *)

LEMMA InitTypes == Init => TypeInv
<1> SUFFICES ASSUME Init PROVE TypeInv
  OBVIOUS
<1> USE DEF Init
<1>1. /\ \A p \in DOMAIN Bystander : p \in Pid /\ Bystander[p] \in Identity
      /\ {"nobody", "node"} \cap Edo = {}
  BY SummonAssumption
<1>2. \A p \in Pid : \/ process[p] = NoProcess /\ ~alive[p] /\ p \notin DOMAIN Bystander
                     \/ process[p] = [by |-> "node", id |-> Bystander[p]] /\ p \in DOMAIN Bystander
  <2> SUFFICES ASSUME NEW p \in Pid
               PROVE  \/ process[p] = NoProcess /\ ~alive[p] /\ p \notin DOMAIN Bystander
                      \/ process[p] = [by |-> "node", id |-> Bystander[p]] /\ p \in DOMAIN Bystander
    OBVIOUS
  <2>1. CASE p \in DOMAIN Bystander
    BY <2>1
  <2>2. CASE p \notin DOMAIN Bystander
    BY <2>2
  <2> QED BY <2>1, <2>2
<1>3. DriverTypeOK
  BY DEF DriverTypeOK, ProcessState
<1>4. TypeOK
  <2>1. \A p \in Pid : \/ process[p] = NoProcess /\ ~alive[p]
                       \/ process[p].by \in Edo \cup {"node"} /\ process[p].id \in Identity
    BY <1>1, <1>2
  <2>2. \A e \in Edo : mapped[e] \in Seq(Pid) /\ Len(mapped[e]) <= Size(e)
                       /\ thread[e] = <<>> /\ joined[e] = 0
    BY SnapshotFacts
  <2> QED BY <1>3, <2>1, <2>2 DEF TypeOK, Label
<1>5. PathInv
  BY DEF PathInv, GroupOnly, SingleOnly
<1>6. TableInv
  <2>1. \A e \in Edo : Restored(e) = {}
    BY <1>1, <1>2 DEF Restored, NoProcess
  <2>2. \A p \in Pid : process[p] \in {NoProcess} \cup [by : Edo \cup {"node"}, id : Identity]
    BY <1>1, <1>2
  <2>3. process \in [Pid -> {NoProcess} \cup [by : Edo \cup {"node"}, id : Identity]]
    BY <2>2
  <2>4. \A e \in Edo : ~After(e)
    BY DEF After, GroupOnly, SingleOnly
  <2>5. ASSUME NEW p \in Pid
        PROVE  /\ process[p] = NoProcess => ~alive[p]
               /\ process[p].by = "node" => p \in DOMAIN Bystander /\ process[p].id = Bystander[p]
               /\ \A e \in Edo : process[p].by # e
    <3>1. CASE process[p] = NoProcess /\ ~alive[p]
      BY <1>1, <3>1 DEF NoProcess
    <3>2. CASE process[p] = [by |-> "node", id |-> Bystander[p]] /\ p \in DOMAIN Bystander
      BY <1>1, <3>2 DEF NoProcess
    <3> QED BY <1>2, <3>1, <3>2
  <2> QED BY <2>1, <2>3, <2>4, <2>5 DEF TableInv
<1>7. FoundInv
  BY DEF FoundInv, FoundBy, SingleOnly
<1>8. MatchedOnce
  BY DEF MatchedOnce
<1> QED BY <1>4, <1>5, <1>6, <1>7, <1>8 DEF TypeInv

(* Calls and the driver's own steps keep its types, and wake no dead process. *)
LEMMA DriverSteps ==
  ASSUME DriverTypeOK, NEW p \in Pid,
         \/ UNCHANGED driverVars
         \/ Restore(p) \/ Unlock(p) \/ Complete(p) \/ Break(p) \/ Die(p)
  PROVE  DriverTypeOK' /\ \A q \in Pid : alive'[q] => alive[q]
BY DEF DriverTypeOK, ProcessState, Restore, Unlock, Call, Complete, Break, Die, driverVars

(* The process table but for CRIU.                                           *)
LEMMA TableKept ==
  ASSUME TypeInv, UNCHANGED process, \A q \in Pid : alive'[q] => alive[q],
         \A e \in Edo : (Before(e)' => Before(e)) /\ (After(e)' => After(e))
  PROVE  TableInv' /\ \A e \in Edo : Restored(e)' = Restored(e)
<1>1. \A e \in Edo : Restored(e)' = Restored(e)
  BY DEF Restored
<1> QED BY <1>1 DEF TypeInv, TableInv

(* What there is besides the driver and the table. *)
CommandInv ==
  /\ pc \in [Edo -> Label]
  /\ seen \in [Edo -> SUBSET Pid]
  /\ \A e \in Edo :
       /\ Len(mapped[e]) <= Size(e)
       /\ pc[e] \in {"restoring", "unlocking"} => joined[e] < Len(thread[e])
  /\ PathInv /\ FoundInv /\ MatchedOnce

LEMMA CommandFacts ==
  ASSUME TypeInv
  PROVE  CommandInv /\ DriverTypeOK /\ TableInv
BY DEF TypeInv, TypeOK, CommandInv

LEMMA Typed ==
  ASSUME CommandInv, DriverTypeOK, TableInv
  PROVE  TypeInv
<1>1. \A p \in Pid : \/ process[p] = NoProcess /\ ~alive[p]
                     \/ process[p].by \in Edo \cup {"node"} /\ process[p].id \in Identity
  BY TableFacts DEF TableInv
<1>2. ASSUME NEW e \in Edo
      PROVE  /\ mapped[e] \in Seq(Pid)
             /\ thread[e] \in [1..Len(thread[e]) -> {"running", "ok", "err"}]
             /\ joined[e] \in 0..Len(thread[e])
  <2>1. /\ thread[e] \in Seq({"running", "ok", "err"}) /\ mapped[e] \in Seq(Pid)
        /\ joined[e] \in Nat
        /\ joined[e] = 0 \/ joined[e] < Len(thread[e])
    BY DEF CommandInv, FoundInv, FoundBy
  <2>2. Len(thread[e]) \in Nat /\ thread[e] \in [1..Len(thread[e]) -> {"running", "ok", "err"}]
    BY <2>1
  <2> QED BY <2>1, <2>2
<1> QED BY <1>1, <1>2 DEF TypeInv, TypeOK, CommandInv

LEMMA TypedNext ==
  ASSUME CommandInv', DriverTypeOK', TableInv'
  PROVE  TypeInv'
BY Typed, PTL

(* A step of e that leaves the process table and what e has found alone.      *)
LEMMA Moves ==
  ASSUME TypeInv, NEW e \in Edo, NEW l \in Label, Goto(e, l), UNCHANGED <<process, summonVars>>,
         pc[e] \notin {"restoring", "unlocking"}, l \notin {"restoring", "unlocking", "map", "tree"},
         l \in SingleOnly => Command[e] = "single",
         l = "load" => Command[e] = "group", l # "pidfile",
         Before(e)' => Before(e), After(e)' => After(e),
         l \in SingleOnly => pc[e] \in SingleOnly \cup {"load"},
         l = "ok" => pc[e] \in SingleOnly
  PROVE  CommandInv' /\ \A f \in Edo : (Before(f)' => Before(f)) /\ (After(f)' => After(f))
<1>1. CommandInv /\ Command[e] \in {"group", "single", "cpu"} /\ Size(e) \in Nat \ {0}
  BY CommandFacts, SnapshotFacts
<1>2. /\ pc' \in [Edo -> Label] /\ PathInv'
      /\ \A f \in Edo : (Before(f)' => Before(f)) /\ (After(f)' => After(f))
  BY <1>1 DEF Goto, CommandInv, PathInv, Before, After, GroupOnly, SingleOnly
<1>3. FoundInv'
  BY <1>1, <1>2 DEF Goto, CommandInv, FoundInv, FoundBy, Before, After, SingleOnly, GroupOnly,
              Used, Restored, Size, summonVars, PathInv
<1>4. MatchedOnce'
  BY <1>1 DEF MatchedOnce, CommandInv, summonVars
<1> QED BY <1>1, <1>2, <1>3, <1>4 DEF CommandInv, summonVars, Goto

LEMMA TrySteps ==
  ASSUME TypeInv, NEW e \in Edo,
         \/ Read(e) \/ Load(e)
         \/ Try(e, "logStarted", "restore", "journal") \/ Try(e, "logReady", "ok", "journal")
  PROVE  TypeInv'
<1>1. /\ PathInv /\ Command[e] \in {"group", "single", "cpu"}
      /\ pc \in [Edo -> Label]
  BY SnapshotFacts DEF TypeInv, TypeOK
<1>2. UNCHANGED <<driverVars, process, summonVars>>
  BY DEF Read, Load, Try
<1>3. PICK l \in Label :
        /\ Goto(e, l) /\ pc[e] \notin {"restoring", "unlocking"}
        /\ l \notin {"restoring", "unlocking", "map", "tree", "pidfile"}
        /\ l \in SingleOnly => Command[e] = "single" /\ pc[e] \in SingleOnly \cup {"load"}
        /\ l = "load" => Command[e] = "group"
        /\ l = "ok" => pc[e] \in SingleOnly
        /\ l \in {"read", "criu"} => Before(e)
        /\ l \in SingleOnly \cup {"ok"} => After(e)
        /\ l = "load" => Before(e)
  BY <1>1 DEF Read, Load, Try, Label, Ended, SingleOnly, Before, After, PathInv
<1>4. (Before(e)' => Before(e)) /\ (After(e)' => After(e))
  BY <1>1, <1>3 DEF Goto, Before, After, GroupOnly, SingleOnly
<1>5. CommandInv' /\ \A f \in Edo : (Before(f)' => Before(f)) /\ (After(f)' => After(f))
  BY <1>2, <1>3, <1>4, Moves
<1>6. DriverTypeOK' /\ TableInv'
  BY <1>2, <1>5, CommandFacts, DriverSteps, TableKept DEF driverVars, DriverTypeOK
<1> QED BY <1>5, <1>6, TypedNext

LEMMA CriuRestores ==
  ASSUME TypeInv, NEW e \in Edo, pc[e] = "criu", CriuSucceeds(e)
  PROVE  \A f \in Edo \ {e} : Restored(f)' = Restored(f)
<1>0. /\ \A p \in Restored(e)' : process[p] = NoProcess
      /\ \A p \in Pid \ Restored(e)' : process'[p] = process[p]
  BY CriuCreates
<1>1. \A p \in Pid : process[p] # NoProcess => process'[p] = process[p]
  BY <1>0
<1>2. \A p \in Pid : process'[p].by = e \/ process'[p] = process[p]
  BY <1>0 DEF Restored
<1>3. \A p \in Pid : process[p] = NoProcess => process[p].by \notin Edo
  BY SummonAssumption DEF NoProcess
<1> QED BY <1>1, <1>2, <1>3 DEF Restored

LEMMA FoundKept ==
  ASSUME NEW f \in Edo, FoundBy(f), pc'[f] = pc[f], mapped'[f] = mapped[f], thread'[f] = thread[f],
         joined'[f] = joined[f], Restored(f)' = Restored(f)
  PROVE  FoundBy(f)'
BY DEF FoundBy, Before, Used

LEMMA CriuStep ==
  ASSUME TypeInv, NEW e \in Edo, Criu(e)
  PROVE  TypeInv'
<1>1. CommandInv /\ DriverTypeOK /\ TableInv /\ Command[e] \in {"group", "single", "cpu"}
  BY CommandFacts, SnapshotFacts
<1>2. CASE CriuSucceeds(e) /\ Goto(e, IF Command[e] = "group" THEN "tree" ELSE "pidfile")
  <2>1. pc' \in [Edo -> Label] /\ PathInv' /\ UNCHANGED summonVars /\ pc[e] = "criu"
    BY <1>1, <1>2 DEF Criu, Goto, CommandInv, PathInv, GroupOnly, SingleOnly, Label
  <2>2. \A f \in Edo \ {e} : Restored(f)' = Restored(f)
    BY <1>2, <2>1, CriuRestores
  <2>3. CommandInv'
    <3>1. FoundInv'
      <4>1. \A f \in Edo \ {e} : FoundBy(f)'
        BY <1>1, <1>2, <2>1, <2>2, FoundKept DEF Goto, CommandInv, FoundInv, summonVars
      <4>2. FoundBy(e)'
        BY <1>1, <1>2, <2>1 DEF Goto, CommandInv, FoundInv, FoundBy, Before, SingleOnly, summonVars
      <4> QED BY <1>1, <2>1, <4>1, <4>2 DEF CommandInv, FoundInv, summonVars
    <3>2. MatchedOnce'
      BY <1>1, <2>1 DEF MatchedOnce, CommandInv, summonVars
    <3> QED BY <1>1, <1>2, <2>1, <3>1, <3>2 DEF CommandInv, summonVars, Goto
  <2>4. DriverTypeOK'
    BY <1>1, <1>2 DEF CriuSucceeds, ImageStates, DriverTypeOK, ProcessState
  <2>5. TableInv'
    <3>1. \A f \in Edo \ {e} : (Before(f)' => Before(f)) /\ (After(f)' => After(f))
      BY <1>1, <1>2 DEF CommandInv, Goto, Before, After, GroupOnly, SingleOnly
    <3>2. ~Before(e)'
      BY <1>1, <1>2 DEF CommandInv, Goto, Before
    <3>3. ASSUME NEW p \in Pid
          PROVE  /\ process'[p] = NoProcess => ~alive'[p]
                 /\ process'[p].by = "node" => p \in DOMAIN Bystander /\ process'[p].id = Bystander[p]
                 /\ \A f \in Edo : process'[p].by = f =>
                      \E i \in 1..Size(f) : process'[p].id = Recorded[f][i]
      <4>1. CASE process'[p].by = e
        <5>1. p \in Restored(e)'
          BY <4>1 DEF Restored
        <5>2. e # "node" /\ NoProcess.by # e
          BY SummonAssumption DEF NoProcess
        <5> QED BY <1>2, <2>1, <4>1, <5>1, <5>2, CriuCreates
      <4>2. CASE process'[p].by # e
        <5>1. process'[p] = process[p] /\ alive'[p] = alive[p]
          <6>1. p \in Pid \ Restored(e)'
            BY <4>2 DEF Restored
          <6> QED BY <1>2, <2>1, <6>1, CriuCreates
        <5>2. /\ process[p] = NoProcess => ~alive[p]
              /\ process[p].by = "node" => p \in DOMAIN Bystander /\ process[p].id = Bystander[p]
              /\ \A f \in Edo : process[p].by = f =>
                   \E i \in 1..Size(f) : process[p].id = Recorded[f][i]
          BY <1>1 DEF TableInv
        <5> QED BY <5>1, <5>2
      <4> QED BY <4>1, <4>2
    <3> QED BY <1>1, <1>2, <2>1, <2>2, <3>1, <3>2, <3>3, CriuCreates DEF TableInv
  <2> QED BY <2>3, <2>4, <2>5, TypedNext
<1>3. CASE Goto(e, "err") /\ UNCHANGED <<driverVars, process>>
  <2>1. UNCHANGED summonVars /\ pc[e] = "criu" /\ "err" \in Label
    BY DEF Criu, Label, Ended
  <2>2. ~Before(e)' /\ ~After(e)'
    BY <1>1, <1>3 DEF CommandInv, Goto, Before, After, GroupOnly, SingleOnly
  <2>3. CommandInv' /\ \A f \in Edo : (Before(f)' => Before(f)) /\ (After(f)' => After(f))
    BY <1>3, <2>1, <2>2, Moves DEF SingleOnly
  <2>4. DriverTypeOK' /\ TableInv'
    BY <1>1, <1>3, <2>3, DriverSteps, TableKept DEF driverVars, DriverTypeOK
  <2> QED BY <2>3, <2>4, TypedNext
<1> QED BY <1>2, <1>3 DEF Criu

(* A step that stays within what CRIU has restored. *)
LEMMA Within ==
  ASSUME TypeInv, NEW e \in Edo, UNCHANGED process, DriverTypeOK',
         \A q \in Pid : alive'[q] => alive[q],
         \A f \in Edo \ {e} : pc'[f] = pc[f],
         Before(e)' => Before(e), After(e)' => After(e), CommandInv'
  PROVE  TypeInv'
<1>1. \A f \in Edo : (Before(f)' => Before(f)) /\ (After(f)' => After(f))
  BY DEF Before, After
<1> QED BY <1>1, TableKept, TypedNext

LEMMA TreeStep ==
  ASSUME TypeInv, NEW e \in Edo, Tree(e)
  PROVE  TypeInv'
<1>1. CommandInv /\ DriverTypeOK /\ Command[e] \in {"group", "single", "cpu"} /\ Size(e) \in Nat \ {0}
  BY CommandFacts, SnapshotFacts
<1>2. /\ UNCHANGED <<driverVars, process, mapped, thread, joined>> /\ pc[e] = "tree"
      /\ Goto(e, "map") \/ Goto(e, "err")
  BY DEF Tree
<1>3. seen' \in [Edo -> SUBSET Pid]
  BY <1>1 DEF Tree, CommandInv, Restored
<1>4. pc' \in [Edo -> Label] /\ PathInv' /\ ~Before(e)' /\ (After(e)' => After(e))
  BY <1>1, <1>2 DEF Goto, CommandInv, PathInv, Before, After, GroupOnly, SingleOnly, Label, Ended
<1>5. FoundInv'
  BY <1>1, <1>2 DEF Goto, CommandInv, FoundInv, FoundBy, Before, SingleOnly, Used, Restored, Size
<1>6. CommandInv'
  BY <1>1, <1>2, <1>3, <1>4, <1>5 DEF CommandInv, MatchedOnce, Goto
<1> QED BY <1>1, <1>2, <1>4, <1>6, Within, DriverSteps DEF driverVars, DriverTypeOK, Goto, CommandInv

LEMMA KillStep ==
  ASSUME TypeInv, NEW e \in Edo, Kill(e)
  PROVE  TypeInv'
<1>1. CommandInv /\ DriverTypeOK
  BY CommandFacts
<1>2. UNCHANGED <<driverVars, process, seen, mapped>> /\ Exit(e, "killed")
  BY DEF Kill
<1>3. pc' \in [Edo -> Label] /\ PathInv' /\ ~Before(e)' /\ ~After(e)'
  BY <1>1, <1>2 DEF Exit, Goto, CommandInv, PathInv, Before, After, GroupOnly, SingleOnly, Label, Ended
<1>4. FoundInv'
  BY <1>1, <1>2 DEF Exit, Goto, CommandInv, FoundInv, FoundBy, Before, SingleOnly, Used, Restored, Size
<1>5. CommandInv'
  BY <1>1, <1>2, <1>3, <1>4 DEF CommandInv, MatchedOnce, Exit, Goto
<1> QED BY <1>1, <1>2, <1>3, <1>5, Within, DriverSteps DEF driverVars, DriverTypeOK, Exit, Goto, CommandInv

LEMMA TargetTypes ==
  ASSUME TypeInv, NEW p \in Pid, TargetStep(p)
  PROVE  TypeInv'
<1>1. CommandInv /\ DriverTypeOK
  BY CommandFacts
<1>2. UNCHANGED <<pc, process, summonVars>> /\ (Complete(p) \/ Break(p) \/ Die(p))
  BY DEF TargetStep
<1>3. CommandInv'
  <2>1. /\ pc' = pc /\ process' = process /\ seen' = seen /\ mapped' = mapped
        /\ thread' = thread /\ joined' = joined
    BY <1>2 DEF summonVars
  <2>2. PathInv' /\ MatchedOnce'
    BY <1>1, <2>1 DEF CommandInv, PathInv, MatchedOnce
  <2>3. FoundInv'
    BY <1>1, <2>1 DEF CommandInv, FoundInv, FoundBy, Before, Used, Restored
  <2> QED BY <1>1, <2>1, <2>2, <2>3 DEF CommandInv
<1>4. DriverTypeOK' /\ (\A q \in Pid : alive'[q] => alive[q])
  BY <1>1, <1>2, DriverSteps
<1>5. \A e \in Edo : (Before(e)' => Before(e)) /\ (After(e)' => After(e))
  BY <1>2 DEF Before, After
<1> QED BY <1>2, <1>3, <1>4, <1>5, TableKept, TypedNext

LEMMA MapStep ==
  ASSUME TypeInv, NEW e \in Edo, Map(e)
  PROVE  TypeInv'
<1>1. CommandInv /\ DriverTypeOK /\ Size(e) \in Nat \ {0}
  BY CommandFacts, SnapshotFacts
<1>2. UNCHANGED <<driverVars, process, joined>> /\ pc[e] = "map"
  BY DEF Map
<1> DEFINE id == Recorded[e][Len(mapped[e]) + 1]
<1>3. /\ mapped \in [Edo -> Seq(Pid)] /\ Len(mapped[e]) < Size(e) /\ Len(mapped[e]) \in Nat
      /\ thread \in [Edo -> Seq({"running", "ok", "err"})] /\ seen \in [Edo -> SUBSET Pid]
  BY <1>1, <1>2 DEF CommandInv, FoundInv, FoundBy
<1>4. Candidates(e, id) \subseteq Pid /\ FindByIdentity(id) \subseteq Pid
  BY <1>3 DEF Candidates, FindByIdentity
<1>5. CASE Goto(e, "err") /\ UNCHANGED <<seen, mapped, thread>>
  <2>1. pc' \in [Edo -> Label] /\ PathInv' /\ ~Before(e)' /\ ~After(e)'
    BY <1>1, <1>2, <1>5 DEF Goto, CommandInv, PathInv, Before, After, GroupOnly, SingleOnly, Label, Ended
  <2>2. FoundInv'
    BY <1>1, <1>2, <1>5 DEF Goto, CommandInv, FoundInv, FoundBy, Before, SingleOnly, Used, Restored, Size
  <2>3. CommandInv'
    BY <1>1, <1>2, <1>5, <2>1, <2>2 DEF CommandInv, MatchedOnce, Goto
  <2> QED BY <1>1, <1>2, <1>5, <2>1, <2>3, Within, DriverSteps
          DEF driverVars, DriverTypeOK, Goto, CommandInv
<1>6. ASSUME NEW p \in Candidates(e, id), mapped' = [mapped EXCEPT ![e] = Append(@, p)],
             IF Len(mapped[e]) + 1 = Size(e)
             THEN /\ Goto(e, "restoring")
                  /\ thread' = [thread EXCEPT ![e] = Spawned(e)]
                  /\ seen' = [seen EXCEPT ![e] = {}]
             ELSE /\ seen' = [seen EXCEPT ![e] = @ \cup FindByIdentity(id)]
                  /\ UNCHANGED <<pc, thread>>
      PROVE  TypeInv'
  <2>1. /\ mapped' \in [Edo -> Seq(Pid)] /\ Len(mapped'[e]) = Len(mapped[e]) + 1
        /\ \A i \in 1..Len(mapped[e]) : mapped'[e][i] = mapped[e][i]
        /\ mapped'[e][Len(mapped[e]) + 1] = p
        /\ \A f \in Edo \ {e} : mapped'[f] = mapped[f]
    BY <1>3, <1>4, <1>6
  <2>2. p \notin Used(e) /\ p \in Pid
    BY <1>4, <1>6 DEF Candidates
  <2>3. MatchedOnce'
    <3>1. \A i \in 1..Len(mapped[e]) : mapped[e][i] # p
      BY <2>2 DEF Used
    <3>2. \A i, j \in 1..Len(mapped'[e]) : mapped'[e][i] = mapped'[e][j] => i = j
      <4>1. \A i, j \in 1..Len(mapped[e]) : mapped[e][i] = mapped[e][j] => i = j
        BY <1>1 DEF CommandInv, MatchedOnce
      <4>2. \A i \in 1..Len(mapped'[e]) : i \in 1..Len(mapped[e]) \/ i = Len(mapped[e]) + 1
        BY <1>3, <2>1
      <4> QED BY <2>1, <3>1, <4>1, <4>2
    <3> QED BY <1>1, <2>1, <3>2 DEF CommandInv, MatchedOnce
  <2>4. Spawned(e) \in Seq({"running", "ok", "err"}) /\ Len(Spawned(e)) = Size(e)
    BY <1>1 DEF Spawned
  <2>5. /\ thread' \in [Edo -> Seq({"running", "ok", "err"})] /\ seen' \in [Edo -> SUBSET Pid]
        /\ \A f \in Edo \ {e} : thread'[f] = thread[f] /\ pc'[f] = pc[f]
        /\ pc' \in [Edo -> Label] /\ pc'[e] \in {"map", "restoring"}
    BY <1>1, <1>2, <1>3, <1>4, <1>6, <2>4 DEF Goto, CommandInv, Label
  <2>6. /\ pc'[e] = "map" => Len(mapped'[e]) < Size(e) /\ thread'[e] = thread[e]
        /\ pc'[e] = "restoring" => Len(mapped'[e]) = Size(e) /\ Len(thread'[e]) = Size(e)
    BY <1>1, <1>2, <1>3, <1>6, <2>1, <2>4 DEF Goto, CommandInv
  <2>7. PathInv' /\ ~Before(e)' /\ After(e)
    BY <1>1, <1>2, <2>5 DEF CommandInv, PathInv, Before, After, GroupOnly, SingleOnly
  <2>8. FoundInv'
    <3>1. FoundBy(e)'
      BY <1>1, <1>2, <2>1, <2>5, <2>6, <2>7 DEF CommandInv, FoundInv, FoundBy, SingleOnly
    <3>2. ASSUME NEW f \in Edo \ {e} PROVE FoundBy(f)'
      <4>1. FoundBy(f) /\ UNCHANGED <<pc[f], mapped[f], thread[f], joined[f]>>
        BY <1>1, <1>2, <2>1, <2>5 DEF CommandInv, FoundInv
      <4>2. (Used(f) \subseteq Restored(f)) => (Used(f) \subseteq Restored(f))'
        BY <1>2, <4>1 DEF Used, Restored
      <4> QED BY <4>1, <4>2 DEF FoundBy, Before
    <3> QED BY <1>1, <1>2, <2>1, <2>5, <3>1, <3>2 DEF CommandInv, FoundInv
  <2>9. joined'[e] = 0 /\ Len(mapped'[e]) <= Size(e)
    BY <1>1, <1>2, <1>3, <2>1 DEF CommandInv, FoundInv, FoundBy
  <2>10. \A f \in Edo :
          /\ Len(mapped'[f]) <= Size(f)
          /\ pc'[f] \in {"restoring", "unlocking"} => joined'[f] < Len(thread'[f])
    <3>1. ASSUME NEW f \in Edo \ {e}
          PROVE  /\ Len(mapped'[f]) <= Size(f)
                 /\ pc'[f] \in {"restoring", "unlocking"} => joined'[f] < Len(thread'[f])
      BY <1>1, <1>2, <2>1, <2>5 DEF CommandInv
    <3>2. pc'[e] \in {"restoring", "unlocking"} => joined'[e] < Len(thread'[e])
      BY <1>1, <2>5, <2>6, <2>9
    <3> QED BY <2>9, <3>1, <3>2
  <2>11. CommandInv'
    BY <2>3, <2>5, <2>7, <2>8, <2>10 DEF CommandInv
  <2> QED BY <1>1, <1>2, <2>5, <2>7, <2>11, Within, DriverSteps DEF driverVars, DriverTypeOK
<1> QED BY <1>5, <1>6 DEF Map

LEMMA WorkerStep ==
  ASSUME TypeInv, NEW e \in Edo, NEW i \in 1..Size(e), Worker(e, i)
  PROVE  TypeInv'
<1>1. CommandInv /\ DriverTypeOK /\ Size(e) \in Nat \ {0}
  BY CommandFacts, SnapshotFacts
<1>2. /\ UNCHANGED <<pc, process, seen, mapped, joined>> /\ pc[e] \in {"restoring", "unlocking"}
      /\ i \in 1..Len(thread[e]) /\ \E result \in {"ok", "err"} : Returns(e, i, result)
      /\ UNCHANGED driverVars \/ Restore(mapped[e][i]) \/ Unlock(mapped[e][i])
  BY DEF Worker, Refused
<1>3. mapped[e][i] \in Pid
  BY <1>1, <1>2 DEF CommandInv, FoundInv, FoundBy
<1>4. DriverTypeOK' /\ (\A q \in Pid : alive'[q] => alive[q])
  BY <1>1, <1>2, <1>3, DriverSteps
<1>5. /\ thread' \in [Edo -> Seq({"running", "ok", "err"})] /\ Len(thread'[e]) = Len(thread[e])
      /\ \A f \in Edo \ {e} : thread'[f] = thread[f]
  BY <1>1, <1>2 DEF CommandInv, FoundInv, FoundBy, Returns
<1>6. PathInv' /\ MatchedOnce' /\ (Before(e)' => Before(e)) /\ (After(e)' => After(e))
  BY <1>1, <1>2 DEF CommandInv, PathInv, MatchedOnce, Before, After
<1>7. FoundInv'
  BY <1>1, <1>2, <1>5 DEF CommandInv, FoundInv, FoundBy, Before, Used, Restored
<1>8. CommandInv'
  BY <1>1, <1>2, <1>5, <1>6, <1>7 DEF CommandInv
<1> QED BY <1>2, <1>4, <1>6, <1>8, Within

LEMMA JoinStep ==
  ASSUME TypeInv, NEW e \in Edo, Join(e)
  PROVE  TypeInv'
<1>1. CommandInv /\ DriverTypeOK /\ Size(e) \in Nat \ {0}
  BY CommandFacts, SnapshotFacts
<1>2. /\ UNCHANGED <<driverVars, process, seen, mapped>> /\ pc[e] \in {"restoring", "unlocking"}
      /\ AllJoined(e) \/ Exit(e, "err")
           \/ (joined[e] + 1 # Size(e) /\ joined' = [joined EXCEPT ![e] = @ + 1]
               /\ UNCHANGED <<pc, thread>>)
  BY DEF Join, Joins, JoinNext
<1>3. /\ pc \in [Edo -> Label] /\ thread \in [Edo -> Seq({"running", "ok", "err"})]
      /\ mapped \in [Edo -> Seq(Pid)] /\ joined \in [Edo -> Nat]
      /\ Len(mapped[e]) = Size(e) /\ Len(thread[e]) = Size(e) /\ joined[e] < Size(e)
  BY <1>1, <1>2 DEF CommandInv, FoundInv, FoundBy
<1>4. Spawned(e) \in Seq({"running", "ok", "err"}) /\ Len(Spawned(e)) = Size(e)
  BY <1>1 DEF Spawned
<1>5. /\ pc' \in [Edo -> Label] /\ thread' \in [Edo -> Seq({"running", "ok", "err"})]
      /\ joined' \in [Edo -> Nat]
      /\ \A f \in Edo \ {e} : pc'[f] = pc[f] /\ thread'[f] = thread[f] /\ joined'[f] = joined[f]
      /\ \/ /\ pc'[e] \in {"restoring", "unlocking"} /\ Len(thread'[e]) = Size(e)
            /\ joined'[e] < Size(e)
         \/ pc'[e] \in {"ok", "err"} /\ thread'[e] = <<>> /\ joined'[e] = 0
  <2>1. CASE AllJoined(e)
    <3>1. /\ joined' = [joined EXCEPT ![e] = 0]
          /\ \/ /\ pc' = [pc EXCEPT ![e] = "unlocking"]
                /\ thread' = [thread EXCEPT ![e] = Spawned(e)]
             \/ pc' = [pc EXCEPT ![e] = "ok"] /\ thread' = [thread EXCEPT ![e] = <<>>]
      BY <2>1 DEF AllJoined, Goto
    <3>2. "unlocking" \in Label /\ "ok" \in Label /\ <<>> \in Seq({"running", "ok", "err"})
      BY DEF Label, Ended
    <3>3. joined' \in [Edo -> Nat] /\ joined'[e] = 0 /\ joined'[e] < Size(e)
      BY <1>1, <1>3, <3>1
    <3>4. \A f \in Edo \ {e} : pc'[f] = pc[f] /\ thread'[f] = thread[f] /\ joined'[f] = joined[f]
      BY <1>3, <3>1
    <3>5. CASE pc' = [pc EXCEPT ![e] = "unlocking"] /\ thread' = [thread EXCEPT ![e] = Spawned(e)]
      <4>1. /\ pc' \in [Edo -> Label] /\ thread' \in [Edo -> Seq({"running", "ok", "err"})]
            /\ pc'[e] = "unlocking" /\ thread'[e] = Spawned(e)
        BY <1>3, <1>4, <3>2, <3>5
      <4> QED BY <1>4, <3>3, <3>4, <4>1
    <3>6. CASE pc' = [pc EXCEPT ![e] = "ok"] /\ thread' = [thread EXCEPT ![e] = <<>>]
      <4>1. /\ pc' \in [Edo -> Label] /\ thread' \in [Edo -> Seq({"running", "ok", "err"})]
            /\ pc'[e] = "ok" /\ thread'[e] = <<>>
        BY <1>3, <3>2, <3>6
      <4> QED BY <3>3, <3>4, <4>1
    <3> QED BY <3>1, <3>5, <3>6
  <2>2. CASE Exit(e, "err")
    BY <1>3, <2>2 DEF Exit, Goto, Label, Ended
  <2>3. CASE joined[e] + 1 # Size(e) /\ joined' = [joined EXCEPT ![e] = @ + 1]
             /\ UNCHANGED <<pc, thread>>
    BY <1>1, <1>2, <1>3, <2>3
  <2> QED BY <1>2, <2>1, <2>2, <2>3
<1>6. PathInv' /\ MatchedOnce' /\ ~Before(e)' /\ After(e)
  BY <1>1, <1>2, <1>5 DEF CommandInv, PathInv, MatchedOnce, Before, After, GroupOnly, SingleOnly
<1>7. FoundInv'
  <2>1. \A f \in Edo \ {e} : FoundBy(f)'
    BY <1>1, <1>2, <1>5, FoundKept DEF CommandInv, FoundInv, Restored
  <2>2. FoundBy(e)'
    BY <1>2, <1>3, <1>5 DEF FoundBy, Before, SingleOnly
  <2> QED BY <1>2, <1>3, <1>5, <2>1, <2>2 DEF FoundInv
<1>8. \A f \in Edo : /\ Len(mapped'[f]) <= Size(f)
                     /\ pc'[f] \in {"restoring", "unlocking"} => joined'[f] < Len(thread'[f])
  BY <1>1, <1>2, <1>3, <1>5 DEF CommandInv
<1>9. CommandInv'
  BY <1>1, <1>2, <1>5, <1>6, <1>7, <1>8 DEF CommandInv
<1> QED BY <1>1, <1>2, <1>5, <1>6, <1>9, Within, DriverSteps DEF driverVars, DriverTypeOK

LEMMA PidfileStep ==
  ASSUME TypeInv, NEW e \in Edo, Pidfile(e)
  PROVE  TypeInv'
<1>1. CommandInv /\ DriverTypeOK /\ Command[e] \in {"single", "cpu"} /\ Size(e) \in Nat \ {0}
  BY CommandFacts, SnapshotFacts DEF Pidfile, CommandInv, PathInv
<1>2. UNCHANGED <<driverVars, process, seen, thread, joined>> /\ pc[e] = "pidfile"
  BY DEF Pidfile
<1>3. /\ pc \in [Edo -> Label] /\ thread \in [Edo -> Seq({"running", "ok", "err"})]
      /\ mapped \in [Edo -> Seq(Pid)] /\ joined \in [Edo -> Nat] /\ Restored(e) \subseteq Pid
  BY <1>1 DEF CommandInv, FoundInv, Restored
<1>4. CASE Goto(e, "err") /\ UNCHANGED mapped
  <2>1. "err" \in Label \ SingleOnly /\ ~Before(e)' /\ ~After(e)'
    BY <1>3, <1>4 DEF Goto, Label, Ended, Before, After, SingleOnly, GroupOnly
  <2>2. CommandInv' /\ \A f \in Edo : (Before(f)' => Before(f)) /\ (After(f)' => After(f))
    BY <1>2, <1>4, <2>1, Moves DEF summonVars
  <2> QED BY <1>1, <1>2, <2>2, TableKept, TypedNext, DriverSteps DEF driverVars, DriverTypeOK
<1>5. ASSUME NEW p \in Restored(e), mapped' = [mapped EXCEPT ![e] = <<p>>],
             Goto(e, IF Command[e] = "cpu" THEN "ok" ELSE "load")
      PROVE  TypeInv'
  <2>1. /\ mapped' \in [Edo -> Seq(Pid)] /\ Len(mapped'[e]) = 1 /\ mapped'[e][1] = p
        /\ \A f \in Edo \ {e} : mapped'[f] = mapped[f]
    BY <1>3, <1>5
  <2>2. /\ pc' \in [Edo -> Label] /\ \A f \in Edo \ {e} : pc'[f] = pc[f]
        /\ pc'[e] = IF Command[e] = "cpu" THEN "ok" ELSE "load"
    BY <1>3, <1>5 DEF Goto, Label, Ended
  <2>3. PathInv' /\ ~Before(e)' /\ After(e)
    BY <1>1, <1>2, <2>2 DEF CommandInv, PathInv, Before, After, GroupOnly, SingleOnly
  <2>4. Used(e)' \subseteq Restored(e)'
    BY <1>2, <2>1 DEF Used, Restored
  <2>5. MatchedOnce'
    <3>1. \A i, j \in 1..Len(mapped'[e]) : i = j
      BY <2>1
    <3>2. ASSUME NEW f \in Edo \ {e}
          PROVE  \A i, j \in 1..Len(mapped'[f]) : mapped'[f][i] = mapped'[f][j] => i = j
      BY <1>1, <2>1 DEF CommandInv, MatchedOnce
    <3> QED BY <3>1, <3>2 DEF MatchedOnce
  <2>6. FoundInv'
    <3>1. \A f \in Edo \ {e} : FoundBy(f)'
      BY <1>1, <1>2, <2>1, <2>2, FoundKept DEF CommandInv, FoundInv, Restored
    <3>2. joined[e] = 0 /\ thread[e] = <<>>
      BY <1>1, <1>2 DEF CommandInv, FoundInv, FoundBy
    <3>3. FoundBy(e)'
      BY <1>1, <1>2, <2>1, <2>2, <2>3, <2>4, <3>2 DEF FoundBy, SingleOnly
    <3> QED BY <1>2, <1>3, <2>1, <3>1, <3>3 DEF FoundInv
  <2>7. \A f \in Edo : /\ Len(mapped'[f]) <= Size(f)
                       /\ pc'[f] \in {"restoring", "unlocking"} => joined'[f] < Len(thread'[f])
    <3>1. ASSUME NEW f \in Edo \ {e}
          PROVE  /\ Len(mapped'[f]) <= Size(f)
                 /\ pc'[f] \in {"restoring", "unlocking"} => joined'[f] < Len(thread'[f])
      BY <1>1, <1>2, <2>1, <2>2 DEF CommandInv
    <3>2. Len(mapped'[e]) <= Size(e) /\ pc'[e] \notin {"restoring", "unlocking"}
      BY <1>1, <2>1, <2>2
    <3> QED BY <3>1, <3>2
  <2>8. CommandInv'
    BY <1>1, <1>2, <2>2, <2>3, <2>5, <2>6, <2>7 DEF CommandInv
  <2> QED BY <1>1, <1>2, <2>2, <2>3, <2>8, Within, DriverSteps DEF driverVars, DriverTypeOK
<1> QED BY <1>4, <1>5 DEF Pidfile

(* A step of `edo summon' that drives its process, or waits for it.          *)
LEMMA SingleSteps ==
  ASSUME TypeInv, NEW e \in Edo, NEW l \in SingleOnly \cup {"err"}, pc[e] \in SingleOnly, Goto(e, l),
         UNCHANGED <<process, summonVars>>, DriverTypeOK', \A q \in Pid : alive'[q] => alive[q]
  PROVE  TypeInv'
<1>1. CommandInv
  BY CommandFacts
<1>2. /\ l \in Label \ {"restoring", "unlocking", "map", "tree", "load", "pidfile", "ok"}
      /\ pc[e] \notin {"restoring", "unlocking"} /\ pc'[e] = l
  BY <1>1 DEF SingleOnly, Label, Ended, CommandInv, Goto
<1>3. Command[e] = "single" /\ ~Before(e)' /\ After(e)
  BY <1>1, <1>2 DEF CommandInv, PathInv, Before, After, SingleOnly
<1>4. CommandInv' /\ \A f \in Edo : (Before(f)' => Before(f)) /\ (After(f)' => After(f))
  BY <1>2, <1>3, Moves DEF SingleOnly
<1> QED BY <1>4, TableKept, TypedNext

LEMMA SummonUpStep ==
  ASSUME TypeInv, NEW e \in Edo, SummonUp(e)
  PROVE  TypeInv'
<1>1. CommandInv /\ DriverTypeOK
  BY CommandFacts
<1>2. ASSUME NEW at \in SingleOnly, NEW s, NEW next \in SingleOnly, Wait(e, at, s, next)
      PROVE  TypeInv'
  <2>1. PICK l \in SingleOnly \cup {"err"} : Goto(e, l)
    BY <1>2 DEF Wait
  <2>2. pc[e] \in SingleOnly /\ UNCHANGED <<process, summonVars, driverVars>>
    BY <1>2 DEF Wait
  <2> QED BY <1>1, <2>1, <2>2, SingleSteps DEF driverVars, DriverTypeOK
<1>3. ASSUME NEW at \in SingleOnly, NEW op, NEW next \in SingleOnly, NEW from, NEW to,
             Drive(e, at, op, from, to, next),
             \A p : Call(p, from, to) => Restore(p) \/ Unlock(p)
      PROVE  TypeInv'
  <2>1. PICK l \in SingleOnly \cup {"err"} : Goto(e, l)
    BY <1>3 DEF Drive
  <2>2. /\ pc[e] \in SingleOnly /\ UNCHANGED <<process, summonVars>>
        /\ UNCHANGED driverVars \/ Restore(mapped[e][1]) \/ Unlock(mapped[e][1])
    BY <1>3 DEF Drive, Refused
  <2>3. mapped[e][1] \in Pid
    BY <1>1, <2>2 DEF CommandInv, FoundInv, FoundBy
  <2> QED BY <1>1, <2>1, <2>2, <2>3, SingleSteps, DriverSteps
<1>4. ASSUME Try(e, "logStarted", "restore", "journal") \/ Try(e, "logReady", "ok", "journal")
      PROVE  TypeInv'
  BY <1>4, TrySteps
<1> QED BY <1>2, <1>3, <1>4 DEF SummonUp, SingleOnly, Restore, Unlock

LEMMA NextTypes ==
  ASSUME TypeInv, [Next]_vars
  PROVE  TypeInv'
<1>1. ASSUME NEW e \in Edo, MainStep(e)
      PROVE  TypeInv'
  BY <1>1, TrySteps, CriuStep, TreeStep, MapStep, JoinStep, PidfileStep, SummonUpStep DEF MainStep
<1>2. CASE UNCHANGED vars
  <2>1. CommandInv /\ DriverTypeOK
    BY CommandFacts
  <2>2. /\ pc' = pc /\ process' = process /\ seen' = seen /\ mapped' = mapped
        /\ thread' = thread /\ joined' = joined /\ UNCHANGED driverVars
    BY <1>2 DEF vars, summonVars
  <2>3. PathInv' /\ MatchedOnce'
    BY <2>1, <2>2 DEF CommandInv, PathInv, MatchedOnce
  <2>4. FoundInv'
    BY <2>1, <2>2 DEF CommandInv, FoundInv, FoundBy, Before, Used, Restored
  <2>5. CommandInv' /\ DriverTypeOK' /\ TableInv'
    BY <2>1, <2>2, <2>3, <2>4, TableKept
       DEF CommandInv, driverVars, DriverTypeOK, Before, After
  <2> QED BY <2>5, TypedNext
<1> QED BY <1>1, <1>2, KillStep, WorkerStep, TargetTypes DEF Next, Done

(* The commands' state keeps its types: no thread without a PID to call, no   *)
(* join of a thread that is not there.                                        *)
THEOREM TypeCorrect == Spec => []TypeOK
<1>1. TypeInv => TypeOK
  BY DEF TypeInv
<1> QED BY <1>1, InitTypes, NextTypes, PTL DEF Spec

(* No PID is matched to two of the recorded processes, however many of them   *)
(* have the same executable and command line.                                 *)
THEOREM EachMatchedOnce == Spec => []MatchedOnce
<1>1. TypeInv => MatchedOnce
  BY DEF TypeInv
<1> QED BY <1>1, InitTypes, NextTypes, PTL DEF Spec

-----------------------------------------------------------------------------
(* Whom a command drives.                                                    *)

(* A process of the node that looks like a worker of e is one.                *)
LEMMA LooksLikeOwn ==
  ASSUME NoReplica, TableInv, NEW e \in Edo, Command[e] = "group",
         NEW i \in 1..Size(e), NEW p \in Pid, Matches(p, Recorded[e][i])
  PROVE  p \in Restored(e)
<1>1. process[p] # NoProcess /\ process[p].id = Recorded[e][i]
  BY DEF Matches
<1>2. process[p].by \in Edo \cup {"node"}
  BY <1>1, TableFacts
<1>3. process[p].by # "node"
  BY <1>1 DEF NoReplica, TableInv
<1>4. \A f \in Edo \ {e} : process[p].by # f
  BY <1>1 DEF NoReplica, TableInv
<1> QED BY <1>2, <1>3, <1>4 DEF Restored

(* The steps by what they do to the lists of PIDs and to the process table.   *)
LEMMA ListSteps ==
  ASSUME TypeInv, [Next]_vars
  PROVE  \/ UNCHANGED <<process, mapped>>
         \/ \E e \in Edo : (Map(e) \/ Pidfile(e)) /\ UNCHANGED process
         \/ \E e \in Edo : Criu(e) /\ CriuSucceeds(e) /\ pc[e] = "criu" /\ UNCHANGED mapped
BY DEF Next, MainStep, Kill, Worker, TargetStep, Done, vars, summonVars, Read, Load, Try, Criu, Tree,
       Map, Join, Pidfile, SummonUp, Wait, Drive

LEMMA InitDrives == Init => DrivesInv
BY InitTypes DEF Init, DrivesInv, DrivesRestored, Used

LEMMA NextDrives ==
  ASSUME NoReplica, DrivesInv, [Next]_vars
  PROVE  DrivesInv'
<1>1. TypeInv' /\ CommandInv /\ TableInv /\ DrivesRestored
  BY NextTypes, CommandFacts DEF DrivesInv
<1>2. CASE UNCHANGED <<process, mapped>>
  BY <1>1, <1>2 DEF DrivesInv, DrivesRestored, Used, Restored
<1>3. ASSUME NEW e \in Edo, Map(e), UNCHANGED process
      PROVE  DrivesRestored'
  <2> DEFINE n == Len(mapped[e])
  <2>1. /\ pc[e] = "map" /\ Command[e] = "group" /\ n \in Nat /\ n + 1 \in 1..Size(e)
        /\ mapped \in [Edo -> Seq(Pid)] /\ seen[e] \subseteq Pid
    BY <1>1, <1>3, SnapshotFacts DEF Map, CommandInv, PathInv, GroupOnly, FoundInv, FoundBy
  <2>2. CASE mapped' = mapped
    BY <1>1, <1>3, <2>2 DEF DrivesRestored, Used, Restored
  <2>3. ASSUME NEW p \in Candidates(e, Recorded[e][n + 1]),
               mapped' = [mapped EXCEPT ![e] = Append(@, p)]
        PROVE  DrivesRestored'
    <3>1. p \in Pid /\ Matches(p, Recorded[e][n + 1])
      BY <2>1, <2>3 DEF Candidates, FindByIdentity
    <3>2. p \in Restored(e)
      BY <1>1, <2>1, <3>1, LooksLikeOwn
    <3>3. Used(e)' \subseteq Used(e) \cup {p}
      BY <2>1, <2>3, <3>1 DEF Used
    <3>4. \A f \in Edo \ {e} : Used(f)' = Used(f)
      BY <2>1, <2>3 DEF Used
    <3> QED BY <1>1, <1>3, <3>2, <3>3, <3>4 DEF DrivesRestored, Restored
  <2> QED BY <1>3, <2>2, <2>3 DEF Map
<1>4. ASSUME NEW e \in Edo, Pidfile(e), UNCHANGED process
      PROVE  DrivesRestored'
  <2>1. mapped \in [Edo -> Seq(Pid)]
    BY <1>1 DEF CommandInv, FoundInv
  <2>2. CASE mapped' = mapped
    BY <1>1, <1>4, <2>2 DEF DrivesRestored, Used, Restored
  <2>3. ASSUME NEW p \in Restored(e), mapped' = [mapped EXCEPT ![e] = <<p>>]
        PROVE  DrivesRestored'
    <3>1. Used(e)' \subseteq {p}
      BY <2>1, <2>3 DEF Used
    <3>2. \A f \in Edo \ {e} : Used(f)' = Used(f)
      BY <2>1, <2>3 DEF Used
    <3> QED BY <1>1, <1>4, <3>1, <3>2 DEF DrivesRestored, Restored
  <2> QED BY <1>4, <2>2, <2>3 DEF Pidfile
<1>5. ASSUME NEW e \in Edo, CriuSucceeds(e), pc[e] = "criu", UNCHANGED mapped
      PROVE  DrivesRestored'
  <2>1. \A f \in Edo \ {e} : Restored(f)' = Restored(f)
    BY <1>5, CriuRestores DEF DrivesInv
  <2>2. Used(e) = {}
    BY <1>1, <1>5 DEF CommandInv, FoundInv, FoundBy, Before, Used
  <2> QED BY <1>1, <1>5, <2>1, <2>2 DEF DrivesRestored, Used
<1> QED BY <1>1, <1>2, <1>3, <1>4, <1>5, ListSteps DEF DrivesInv

(* Every PID that a command restores and unlocks is of a process it had CRIU  *)
(* create, if executable and command line tell the workers of a group from    *)
(* the node's other processes.                                                *)
THEOREM DrivesItsOwn ==
  ASSUME NoReplica
  PROVE  Spec => []DrivesRestored
<1>1. DrivesInv => DrivesRestored
  BY DEF DrivesInv
<1> QED BY <1>1, InitDrives, NextDrives, PTL DEF Spec

-----------------------------------------------------------------------------
(* The processes of a command, whose list is complete.                       *)

LEMMA FoundAll ==
  ASSUME DrivesInv, NEW e \in Edo, After(e), Len(mapped[e]) = Size(e)
  PROVE  \A p \in Restored(e) : \E i \in 1..Size(e) : p = mapped[e][i]
<1> DEFINE n == Size(e)
<1> DEFINE m == [i \in 1..n |-> mapped[e][i]]
<1>1. /\ CommandInv /\ TableInv /\ n \in Nat /\ mapped[e] \in Seq(Pid)
      /\ Used(e) \subseteq Restored(e)
  BY CommandFacts, SnapshotFacts DEF DrivesInv, DrivesRestored, CommandInv, FoundInv
<1>2. IsFiniteSet(Restored(e)) /\ Cardinality(Restored(e)) = n
  BY <1>1 DEF TableInv
<1>3. IsFiniteSet(1..n) /\ Cardinality(1..n) = n
  BY <1>1, FS_Interval
<1>4. m \in [1..n -> Restored(e)]
  BY <1>1 DEF Used
<1>5. m \in Injection(1..n, Restored(e))
  <2>1. \A i, j \in 1..n : m[i] = m[j] => i = j
    BY <1>1 DEF CommandInv, MatchedOnce
  <2> QED BY <1>4, <2>1 DEF Injection, IsInjective
<1>6. m \in Surjection(1..n, Restored(e))
  BY <1>2, <1>3, <1>5, FS_Injection
<1>7. \A p \in Restored(e) : \E i \in 1..n : m[i] = p
  BY <1>6 DEF Surjection
<1> QED BY <1>7

LEMMA OwnPids ==
  ASSUME DrivesInv, NEW e \in Edo, NEW i \in 1..Len(mapped[e])
  PROVE  mapped[e][i] \in Restored(e) /\ mapped[e][i] \in Pid
BY DEF DrivesInv, DrivesRestored, Used, Restored

(* A call that returns has been done, and only for the PID it was made for.   *)
LEMMA CallDone ==
  ASSUME Synchronous, DrivesInv, NEW p \in Pid, NEW from, NEW to, Call(p, from, to)
  PROVE  /\ cuda[p] = from /\ cuda'[p] = to /\ UNCHANGED pending
         /\ \A q \in Pid \ {p} : cuda'[q] = cuda[q]
<1>1. cuda \in [Pid -> ProcessState]
  BY DEF DrivesInv, TypeInv, TypeOK, DriverTypeOK
<1> QED BY <1>1 DEF Synchronous, Call, Ready

(* What no command does: a process keeps its state, or breaks.               *)
Breaks(p) == cuda[p] \in {"Locked", "Checkpointed"} /\ cuda'[p] = "Failed"

LEMMA SingleOwn ==
  ASSUME DrivesInv, NEW e \in Edo, pc[e] = "logReady"
  PROVE  mapped[e][1] \in Restored(e)
<1>1. FoundBy(e) /\ "logReady" \in SingleOnly
  BY CommandFacts DEF DrivesInv, CommandInv, FoundInv, SingleOnly
<1>2. Len(mapped[e]) = 1
  BY <1>1 DEF FoundBy
<1> QED BY <1>2, OwnPids

LEMMA StatesKept ==
  ASSUME NEW f \in Edo, Restored(f)' = Restored(f),
         \A p \in Restored(f) : cuda'[p] = cuda[p] \/ Breaks(p)
  PROVE  /\ NoneRuns(f) => NoneRuns(f)'
         /\ NoneFrozen(f) => NoneFrozen(f)'
         /\ AllRun(f) => AllRun(f)'
<1>1. ASSUME NEW p \in Restored(f)
      PROVE  /\ cuda[p] # "Running" => cuda'[p] # "Running"
             /\ cuda[p] # "Checkpointed" => cuda'[p] # "Checkpointed"
             /\ cuda[p] = "Running" => cuda'[p] = "Running"
  BY <1>1 DEF Breaks
<1>2. NoneRuns(f) => NoneRuns(f)'
  BY <1>1 DEF NoneRuns
<1>3. NoneFrozen(f) => NoneFrozen(f)'
  BY <1>1 DEF NoneFrozen
<1>4. AllRun(f) => AllRun(f)'
  BY <1>1 DEF AllRun
<1> QED BY <1>2, <1>3, <1>4

LEMMA StageKept ==
  ASSUME DrivesInv, NEW f \in Edo, StageBy(f), pc'[f] = pc[f], mapped'[f] = mapped[f],
         thread'[f] = thread[f], joined'[f] = joined[f], Restored(f)' = Restored(f),
         \A p \in Restored(f) : cuda'[p] = cuda[p] \/ Breaks(p)
  PROVE  StageBy(f)'
<1>1. CommandInv /\ Size(f) \in Nat \ {0}
  BY CommandFacts, SnapshotFacts DEF DrivesInv
<1>2. ASSUME pc[f] \in {"restoring", "unlocking"}, NEW i \in 1..Size(f)
      PROVE  mapped[f][i] \in Restored(f)
  BY <1>1, <1>2, OwnPids DEF CommandInv, FoundInv, FoundBy
<1>3. pc[f] = "logReady" => mapped[f][1] \in Restored(f)
  BY SingleOwn
<1>4. /\ NoneRuns(f) => NoneRuns(f)'
      /\ NoneFrozen(f) => NoneFrozen(f)'
      /\ AllRun(f) => AllRun(f)'
  BY StatesKept
<1>5. pc[f] = "restoring" => \A i \in 1..Size(f) :
        /\ thread'[f][i] = "ok" => cuda'[mapped'[f][i]] # "Checkpointed"
        /\ i <= joined'[f] => thread'[f][i] = "ok"
  BY <1>2 DEF StageBy, Breaks
<1>6. pc[f] = "unlocking" => \A i \in 1..Size(f) :
        /\ thread'[f][i] = "ok" => cuda'[mapped'[f][i]] = "Running"
        /\ i <= joined'[f] => thread'[f][i] = "ok"
  BY <1>2 DEF StageBy, Breaks
<1>7. pc[f] = "logReady" => cuda'[mapped'[f][1]] = "Running"
  BY <1>3 DEF StageBy, Breaks
<1> QED BY <1>4, <1>5, <1>6, <1>7 DEF StageBy

LEMMA OthersKept ==
  ASSUME DrivesInv, StageInv, NEW e \in Edo, UNCHANGED process,
         \A f \in Edo \ {e} : /\ pc'[f] = pc[f] /\ mapped'[f] = mapped[f]
                              /\ thread'[f] = thread[f] /\ joined'[f] = joined[f],
         \A p \in Pid \ Restored(e) : cuda'[p] = cuda[p]
  PROVE  \A f \in Edo \ {e} : StageBy(f)'
<1> SUFFICES ASSUME NEW f \in Edo \ {e} PROVE StageBy(f)'
  OBVIOUS
<1>1. Restored(f)' = Restored(f) /\ \A p \in Restored(f) : p \in Pid \ Restored(e)
  BY DEF Restored
<1> QED BY <1>1, StageKept DEF StageInv

(* A command that goes on, without a call, to a stage that asks for nothing.  *)
LEMMA StageMoves ==
  ASSUME DrivesInv, NEW e \in Edo, StageBy(e), Restored(e)' = Restored(e), UNCHANGED cuda,
         pc'[e] \notin {"restoring", "unlocking", "logReady", "ok"},
         pc'[e] \in {"tree", "map"} => pc[e] \in {"tree", "map"}
  PROVE  StageBy(e)'
BY DEF StageBy, NoneRuns, NoneFrozen, AllRun

-----------------------------------------------------------------------------
(* The stages, step by step.                                                 *)

LEMMA SummonFacts ==
  ASSUME SummonInv, NEW e \in Edo
  PROVE  /\ TypeInv /\ DrivesInv /\ CommandInv /\ TableInv /\ DriverInv /\ StageInv /\ StageBy(e)
         /\ pc \in [Edo -> Label] /\ thread \in [Edo -> Seq({"running", "ok", "err"})]
         /\ joined \in [Edo -> Nat] /\ mapped \in [Edo -> Seq(Pid)]
         /\ cuda \in [Pid -> ProcessState]
BY CommandFacts DEF SummonInv, DrivesInv, StageInv, CommandInv, FoundInv, DriverTypeOK

(* What a step that does nothing but move e has to show.                      *)
LEMMA StageOfOne ==
  ASSUME SummonInv, NEW e \in Edo, StageBy(e)', UNCHANGED process,
         \A f \in Edo \ {e} : /\ pc'[f] = pc[f] /\ mapped'[f] = mapped[f]
                              /\ thread'[f] = thread[f] /\ joined'[f] = joined[f],
         UNCHANGED pending, \A p \in Pid \ Restored(e) : cuda'[p] = cuda[p]
  PROVE  StageInv' /\ DriverInv'
<1>1. \A f \in Edo \ {e} : StageBy(f)'
  BY OthersKept DEF SummonInv
<1>2. \A p \in Pid : process[p] = NoProcess => cuda[p] = "Running" /\ p \notin Restored(e)
  BY TableFacts, SummonAssumption DEF SummonInv, DriverInv, DrivesInv, TypeInv, Restored
<1> QED BY <1>1, <1>2 DEF SummonInv, StageInv, DriverInv

LEMMA TryStage ==
  ASSUME SummonInv, NEW e \in Edo,
         \/ Read(e) \/ Load(e)
         \/ Try(e, "logStarted", "restore", "journal") \/ Try(e, "logReady", "ok", "journal")
  PROVE  StageInv' /\ DriverInv'
<1>1. UNCHANGED <<driverVars, process, summonVars>>
  BY DEF Read, Load, Try
<1>2. PICK l \in {"load", "criu", "logStarted", "restore", "ok", "err"} :
        Goto(e, l) /\ (l = "ok" => pc[e] = "logReady")
  BY DEF Read, Load, Try
<1>3. /\ pc'[e] = l /\ \A f \in Edo \ {e} : pc'[f] = pc[f]
      /\ Restored(e)' = Restored(e)
  BY <1>1, <1>2, SummonFacts DEF Goto, Restored
<1>4. CASE l # "ok"
  <2>1. StageBy(e)'
    BY <1>1, <1>2, <1>3, <1>4, StageMoves, SummonFacts DEF driverVars
  <2> QED BY <1>1, <1>3, <2>1, StageOfOne DEF driverVars, summonVars
<1>5. CASE l = "ok"
  <2>1. /\ Command[e] = "single" /\ After(e) /\ Len(mapped[e]) = 1
        /\ pc[e] = "logReady"
    BY <1>2, <1>5, SummonFacts DEF CommandInv, PathInv, FoundInv, FoundBy, SingleOnly, After
  <2>5. Size(e) = 1
    BY <2>1, SnapshotFacts DEF SummonInv, KindInv, Accepts, Ended
  <2>2. \A p \in Restored(e) : p = mapped[e][1]
    <3>1. \A p \in Restored(e) : \E i \in 1..Size(e) : p = mapped[e][i]
      BY <2>1, <2>5, FoundAll, SummonFacts
    <3> QED BY <2>1, <2>5, <3>1
  <2>3. AllRun(e)
    BY <2>1, <2>2, SummonFacts DEF StageBy, AllRun
  <2>4. StageBy(e)'
    BY <1>1, <1>3, <1>5, <2>1, <2>3 DEF StageBy, AllRun, driverVars
  <2> QED BY <1>1, <1>3, <2>4, StageOfOne DEF driverVars, summonVars
<1> QED BY <1>4, <1>5

LEMMA CriuStage ==
  ASSUME SummonInv, NEW e \in Edo, Criu(e)
  PROVE  StageInv' /\ DriverInv'
<1>1. UNCHANGED summonVars /\ pc[e] = "criu"
  BY DEF Criu
<1>2. CASE Goto(e, "err") /\ UNCHANGED <<driverVars, process>>
  <2>1. /\ pc'[e] = "err" /\ \A f \in Edo \ {e} : pc'[f] = pc[f]
        /\ Restored(e)' = Restored(e)
    BY <1>2, SummonFacts DEF Goto, Restored
  <2>2. StageBy(e)'
    BY <1>1, <1>2, <2>1, StageMoves, SummonFacts DEF driverVars
  <2> QED BY <1>1, <1>2, <2>1, <2>2, StageOfOne DEF driverVars, summonVars
<1>3. CASE CriuSucceeds(e) /\ Goto(e, IF Command[e] = "group" THEN "tree" ELSE "pidfile")
  <2>1. /\ pc'[e] = IF Command[e] = "group" THEN "tree" ELSE "pidfile"
        /\ \A f \in Edo \ {e} : pc'[f] = pc[f]
    BY <1>3, SummonFacts DEF Goto
  <2>2. /\ \A p \in Restored(e)' :
             /\ process[p] = NoProcess /\ p \in Pid
             /\ Command[e] = "group" => cuda'[p] = "Checkpointed"
        /\ \A p \in Pid \ Restored(e)' : process'[p] = process[p] /\ cuda'[p] = cuda[p]
        /\ UNCHANGED pending
    <3>1. TypeInv /\ DriverInv /\ UNCHANGED pending /\ Restored(e)' \subseteq Pid
      BY <1>3, SummonFacts DEF CriuSucceeds, Restored
    <3>2. /\ \A p \in Restored(e)' :
               /\ process[p] = NoProcess
               /\ Kind[e] # "cpu-criu" => cuda'[p] = "Checkpointed"
          /\ \A p \in Pid \ Restored(e)' : process'[p] = process[p] /\ cuda'[p] = cuda[p]
      BY <1>1, <1>3, <3>1, CriuCreates
    <3>3. Command[e] = "group" => Kind[e] = "cuda-criu-group"
      BY <1>1 DEF SummonInv, KindInv, Accepts, Ended
    <3> QED BY <3>1, <3>2, <3>3 DEF DriverInv
  <2>3. StageBy(e)'
    BY <2>1, <2>2 DEF StageBy, NoneRuns, AllRun
  <2>4. ASSUME NEW f \in Edo \ {e}
        PROVE  StageBy(f)'
    <3>1. Restored(f)' = Restored(f)
      BY <1>1, <1>3, SummonFacts, CriuRestores
    <3>2. \A p \in Restored(f) : cuda'[p] = cuda[p]
      BY <2>2, <3>1 DEF Restored
    <3> QED BY <1>1, <2>1, <3>1, <3>2, SummonFacts, StageKept DEF summonVars
  <2>5. DriverInv'
    <3>1. \A p \in Pid : process'[p] = NoProcess => p \notin Restored(e)'
      BY SummonAssumption DEF Restored, NoProcess
    <3> QED BY <2>2, <3>1, SummonFacts DEF DriverInv
  <2> QED BY <2>3, <2>4, <2>5 DEF StageInv
<1> QED BY <1>2, <1>3 DEF Criu

LEMMA TreeStage ==
  ASSUME SummonInv, NEW e \in Edo, Tree(e)
  PROVE  StageInv' /\ DriverInv'
<1>1. /\ UNCHANGED <<driverVars, process, mapped, thread, joined>> /\ pc[e] = "tree"
      /\ Goto(e, "map") \/ Goto(e, "err")
  BY DEF Tree
<1>2. /\ pc'[e] \in {"map", "err"} /\ \A f \in Edo \ {e} : pc'[f] = pc[f]
      /\ Restored(e)' = Restored(e)
  BY <1>1, SummonFacts DEF Goto, Restored
<1>3. StageBy(e)'
  BY <1>1, <1>2, StageMoves, SummonFacts DEF driverVars
<1> QED BY <1>1, <1>2, <1>3, StageOfOne DEF driverVars

LEMMA MapStage ==
  ASSUME SummonInv, NEW e \in Edo, Map(e)
  PROVE  StageInv' /\ DriverInv'
<1>1. UNCHANGED <<driverVars, process, joined>> /\ pc[e] = "map" /\ Restored(e)' = Restored(e)
  BY DEF Map, Restored
<1>2. /\ pc'[e] \in {"map", "err"} \/ (pc'[e] = "restoring" /\ thread'[e] = Spawned(e))
      /\ \A f \in Edo \ {e} : pc'[f] = pc[f] /\ mapped'[f] = mapped[f] /\ thread'[f] = thread[f]
  BY SummonFacts DEF Map, Goto
<1>3. CASE pc'[e] \in {"map", "err"}
  <2>1. StageBy(e)'
    BY <1>1, <1>3, StageMoves, SummonFacts DEF driverVars
  <2> QED BY <1>1, <1>2, <2>1, StageOfOne DEF driverVars
<1>4. CASE pc'[e] = "restoring" /\ thread'[e] = Spawned(e)
  <2>1. Command[e] = "group" /\ NoneRuns(e) /\ joined'[e] = 0
    BY <1>1, SummonFacts DEF CommandInv, PathInv, GroupOnly, StageBy, FoundInv, FoundBy
  <2>2. \A i \in 1..Size(e) : thread'[e][i] = "running" /\ ~(i <= joined'[e])
    BY <1>4, <2>1, SnapshotFacts DEF Spawned
  <2>3. StageBy(e)'
    BY <1>1, <1>4, <2>1, <2>2 DEF StageBy, NoneRuns, driverVars
  <2> QED BY <1>1, <1>2, <2>3, StageOfOne DEF driverVars
<1> QED BY <1>2, <1>3, <1>4

LEMMA PidfileStage ==
  ASSUME SummonInv, NEW e \in Edo, Pidfile(e)
  PROVE  StageInv' /\ DriverInv'
<1>1. /\ UNCHANGED <<driverVars, process, thread, joined>> /\ Restored(e)' = Restored(e)
      /\ pc[e] = "pidfile"
  BY DEF Pidfile, Restored
<1>2. /\ pc'[e] \in {"load", "err"} \/ (pc'[e] = "ok" /\ Command[e] = "cpu")
      /\ \A f \in Edo \ {e} : pc'[f] = pc[f] /\ mapped'[f] = mapped[f]
  BY SummonFacts DEF Pidfile, Goto
<1>3. StageBy(e)'
  <2>1. CASE pc'[e] \in {"load", "err"}
    BY <1>1, <2>1, StageMoves, SummonFacts DEF driverVars
  <2>2. CASE pc'[e] = "ok" /\ Command[e] = "cpu"
    BY <1>1, <2>2, SummonFacts DEF StageBy, AllRun, driverVars
  <2> QED BY <1>2, <2>1, <2>2
<1> QED BY <1>1, <1>2, <1>3, StageOfOne DEF driverVars

LEMMA KillStage ==
  ASSUME SummonInv, NEW e \in Edo, Kill(e)
  PROVE  StageInv' /\ DriverInv'
<1>1. UNCHANGED <<driverVars, process, mapped>> /\ Restored(e)' = Restored(e)
  BY DEF Kill, Restored
<1>2. /\ pc'[e] = "killed"
      /\ \A f \in Edo \ {e} : pc'[f] = pc[f] /\ thread'[f] = thread[f] /\ joined'[f] = joined[f]
  BY SummonFacts DEF Kill, Exit, Goto
<1>3. StageBy(e)'
  BY <1>1, <1>2, StageMoves, SummonFacts DEF driverVars
<1> QED BY <1>1, <1>2, <1>3, StageOfOne DEF driverVars

LEMMA TargetStage ==
  ASSUME SummonInv, NEW p \in Pid, TargetStep(p)
  PROVE  StageInv' /\ DriverInv'
<1>1. UNCHANGED <<pc, process, summonVars>> /\ (Complete(p) \/ Break(p) \/ Die(p))
  BY DEF TargetStep
<1>2. /\ pending = [q \in Pid |-> "None"] /\ cuda \in [Pid -> ProcessState]
      /\ process[p] = NoProcess => ~alive[p]
  BY CommandFacts DEF SummonInv, DriverInv, DrivesInv, DriverTypeOK, TableInv
<1>3. pending' = [q \in Pid |-> "None"] /\ \A q \in Pid : cuda'[q] = cuda[q] \/ Breaks(q)
  BY <1>1, <1>2 DEF Complete, Break, Die, Breaks
<1>4. \A q \in Pid : process[q] = NoProcess => cuda'[q] = "Running"
  BY <1>3 DEF SummonInv, DriverInv, Breaks
<1>5. ASSUME NEW f \in Edo
      PROVE  StageBy(f)'
  <2>1. Restored(f)' = Restored(f) /\ Restored(f) \subseteq Pid
    BY <1>1 DEF Restored
  <2> QED BY <1>1, <1>3, <2>1, SummonFacts, StageKept DEF summonVars
<1> QED BY <1>1, <1>3, <1>4, <1>5 DEF StageInv, DriverInv

(* A thread drives one process of its own group.                             *)
LEMMA WorkerStage ==
  ASSUME Synchronous, SummonInv, NEW e \in Edo, NEW i \in 1..Size(e), Worker(e, i)
  PROVE  StageInv' /\ DriverInv'
<1>1. /\ UNCHANGED <<pc, process, mapped, joined>> /\ Restored(e)' = Restored(e)
      /\ pc[e] \in {"restoring", "unlocking"} /\ thread[e][i] = "running"
  BY DEF Worker, Restored
<1>2. /\ Command[e] = "group" /\ Len(mapped[e]) = Size(e) /\ Len(thread[e]) = Size(e)
      /\ mapped[e][i] \in Restored(e) /\ mapped[e][i] \in Pid
      /\ \A j \in 1..Size(e) : mapped[e][j] \in Pid
      /\ \A j \in 1..Size(e) : j # i => mapped[e][j] # mapped[e][i]
  BY <1>1, SummonFacts, OwnPids
     DEF CommandInv, PathInv, GroupOnly, FoundInv, FoundBy, MatchedOnce
<1>3. /\ \A f \in Edo \ {e} : thread'[f] = thread[f]
      /\ \A j \in 1..Size(e) : j # i => thread'[e][j] = thread[e][j]
  BY <1>1, <1>2, SummonFacts DEF Worker, Returns
<1>4. /\ pc[e] = "restoring" => NoneRuns(e) /\ \A j \in 1..Size(e) :
            /\ thread[e][j] = "ok" => cuda[mapped[e][j]] # "Checkpointed"
            /\ j <= joined[e] => thread[e][j] = "ok" /\ j # i
      /\ pc[e] = "unlocking" => NoneFrozen(e) /\ \A j \in 1..Size(e) :
            /\ thread[e][j] = "ok" => cuda[mapped[e][j]] = "Running"
            /\ j <= joined[e] => thread[e][j] = "ok" /\ j # i
  BY <1>1, <1>2, SummonFacts DEF StageBy
<1>5. CASE pc[e] = "restoring" /\ Restore(mapped[e][i])
  <2>1. /\ cuda'[mapped[e][i]] = "Locked" /\ UNCHANGED pending
        /\ \A q \in Pid \ {mapped[e][i]} : cuda'[q] = cuda[q]
    BY <1>2, <1>5, SummonFacts, CallDone DEF Restore
  <2>2. NoneRuns(e)'
    BY <1>1, <1>4, <1>5, <2>1 DEF NoneRuns, Restored
  <2>3. StageBy(e)'
    BY <1>1, <1>2, <1>3, <1>4, <1>5, <2>1, <2>2 DEF StageBy
  <2> QED BY <1>1, <1>2, <1>3, <2>1, <2>3, StageOfOne
<1>6. CASE pc[e] = "unlocking" /\ Unlock(mapped[e][i])
  <2>1. /\ cuda'[mapped[e][i]] = "Running" /\ UNCHANGED pending
        /\ \A q \in Pid \ {mapped[e][i]} : cuda'[q] = cuda[q]
    BY <1>2, <1>6, SummonFacts, CallDone DEF Unlock
  <2>2. NoneFrozen(e)'
    BY <1>1, <1>4, <1>6, <2>1 DEF NoneFrozen, Restored
  <2>3. StageBy(e)'
    BY <1>1, <1>2, <1>3, <1>4, <1>6, <2>1, <2>2 DEF StageBy
  <2> QED BY <1>1, <1>2, <1>3, <2>1, <2>3, StageOfOne
<1>7. CASE UNCHANGED driverVars /\ Returns(e, i, "err")
  <2>1. thread'[e][i] = "err" /\ UNCHANGED <<cuda, pending>>
    BY <1>2, <1>7, SummonFacts DEF Returns, driverVars
  <2>2. (NoneRuns(e) => NoneRuns(e)') /\ (NoneFrozen(e) => NoneFrozen(e)')
    BY <1>1, <2>1 DEF NoneRuns, NoneFrozen
  <2>3. StageBy(e)'
    BY <1>1, <1>2, <1>3, <1>4, <2>1, <2>2 DEF StageBy
  <2> QED BY <1>1, <1>3, <2>1, <2>3, StageOfOne
<1> QED BY <1>5, <1>6, <1>7 DEF Worker, Refused

(* The last join finds every thread done, and there is one for each process.  *)
LEMMA JoinStage ==
  ASSUME SummonInv, NEW e \in Edo, Join(e)
  PROVE  StageInv' /\ DriverInv'
<1>1. /\ UNCHANGED <<driverVars, process, seen, mapped>> /\ pc[e] \in {"restoring", "unlocking"}
      /\ Restored(e)' = Restored(e)
  BY DEF Join, Joins, Restored
<1>2. /\ Command[e] = "group" /\ Len(mapped[e]) = Size(e) /\ After(e)
      /\ Size(e) \in Nat \ {0} /\ joined[e] \in Nat
  BY <1>1, SummonFacts, SnapshotFacts
     DEF CommandInv, PathInv, GroupOnly, FoundInv, FoundBy, After
<1>3. \A f \in Edo \ {e} : pc'[f] = pc[f] /\ thread'[f] = thread[f] /\ joined'[f] = joined[f]
  BY SummonFacts DEF Join, JoinNext, AllJoined, Exit, Goto
<1>4. CASE Exit(e, "err")
  <2>1. pc'[e] = "err"
    BY <1>4, SummonFacts DEF Exit, Goto
  <2>2. StageBy(e)'
    BY <1>1, <2>1, StageMoves, SummonFacts DEF driverVars
  <2> QED BY <1>1, <1>3, <2>2, StageOfOne DEF driverVars
<1>5. CASE Joins(e, "ok") /\ joined[e] + 1 # Size(e) /\ joined' = [joined EXCEPT ![e] = @ + 1]
           /\ UNCHANGED <<pc, thread>>
  <2>1. joined'[e] = joined[e] + 1 /\ thread[e][joined[e] + 1] = "ok"
    BY <1>5, SummonFacts DEF Joins
  <2>2. \A i \in 1..Size(e) : i <= joined'[e] => i <= joined[e] \/ i = joined[e] + 1
    BY <1>2, <2>1
  <2>3. \A i \in 1..Size(e) : i <= joined'[e] => thread[e][i] = "ok"
    BY <1>1, <2>1, <2>2, SummonFacts DEF StageBy
  <2>4. NoneRuns(e)' = NoneRuns(e) /\ NoneFrozen(e)' = NoneFrozen(e)
    BY <1>1 DEF NoneRuns, NoneFrozen, driverVars
  <2>5. StageBy(e)'
    BY <1>1, <1>2, <1>5, <2>3, <2>4, SummonFacts DEF StageBy, driverVars
  <2> QED BY <1>1, <1>3, <2>5, StageOfOne DEF driverVars
<1>6. CASE Joins(e, "ok") /\ joined[e] + 1 = Size(e) /\ AllJoined(e)
  <2>1. \A i \in 1..Size(e) : i <= joined[e] \/ i = joined[e] + 1
    BY <1>2, <1>6
  <2>2. \A i \in 1..Size(e) : thread[e][i] = "ok"
    BY <1>1, <1>6, <2>1, SummonFacts DEF StageBy, Joins
  <2>3. \A p \in Restored(e) : \E i \in 1..Size(e) : p = mapped[e][i]
    BY <1>2, FoundAll, SummonFacts
  <2>4. CASE pc[e] = "restoring"
    <3>1. pc'[e] = "unlocking" /\ thread'[e] = Spawned(e) /\ joined'[e] = 0
      BY <1>6, <2>4, SummonFacts DEF AllJoined, Goto
    <3>2. NoneFrozen(e)'
      <4>1. \A i \in 1..Size(e) : cuda[mapped[e][i]] # "Checkpointed"
        BY <2>2, <2>4, SummonFacts DEF StageBy
      <4> QED BY <1>1, <2>3, <4>1 DEF NoneFrozen, driverVars
    <3>3. \A i \in 1..Size(e) : thread'[e][i] = "running" /\ ~(i <= joined'[e])
      BY <1>2, <3>1 DEF Spawned
    <3>4. StageBy(e)'
      BY <1>2, <3>1, <3>2, <3>3 DEF StageBy
    <3> QED BY <1>1, <1>3, <3>4, StageOfOne DEF driverVars
  <2>5. CASE pc[e] = "unlocking"
    <3>1. pc'[e] = "ok"
      BY <1>6, <2>5, SummonFacts DEF AllJoined, Goto
    <3>2. AllRun(e)' /\ NoneFrozen(e)'
      <4>1. \A i \in 1..Size(e) : cuda[mapped[e][i]] = "Running"
        BY <2>2, <2>5, SummonFacts DEF StageBy
      <4>2. \A p \in Restored(e)' : cuda'[p] = "Running"
        BY <1>1, <2>3, <4>1 DEF driverVars
      <4> QED BY <4>2 DEF AllRun, NoneFrozen
    <3>3. StageBy(e)'
      BY <1>2, <3>1, <3>2 DEF StageBy
    <3> QED BY <1>1, <1>3, <3>3, StageOfOne DEF driverVars
  <2> QED BY <1>1, <2>4, <2>5
<1> QED BY <1>4, <1>5, <1>6 DEF Join, JoinNext

(* A call of `edo summon', for the one process there is.                     *)
LEMMA DriveStage ==
  ASSUME Synchronous, SummonInv, NEW e \in Edo,
         NEW at \in SingleOnly \ {"logReady"}, NEW next \in SingleOnly \ {"logReady"},
         NEW op, NEW from, NEW to, Drive(e, at, op, from, to, next)
  PROVE  StageInv' /\ DriverInv'
<1>1. /\ UNCHANGED <<process, summonVars>> /\ pc[e] = at /\ Restored(e)' = Restored(e)
  BY DEF Drive, Restored
<1>2. /\ pc'[e] \in {next, "err"} /\ \A f \in Edo \ {e} : pc'[f] = pc[f]
  BY SummonFacts DEF Drive, Goto
<1>3. /\ Command[e] = "single" /\ mapped[e][1] \in Restored(e) /\ mapped[e][1] \in Pid
  BY <1>1, SummonFacts, OwnPids DEF CommandInv, PathInv, FoundInv, FoundBy
<1>4. UNCHANGED pending /\ \A q \in Pid \ {mapped[e][1]} : cuda'[q] = cuda[q]
  BY <1>3, SummonFacts, CallDone DEF Drive, Refused, driverVars
<1>5. StageBy(e)'
  BY <1>2, <1>3 DEF StageBy, SingleOnly
<1> QED BY <1>1, <1>2, <1>3, <1>4, <1>5, StageOfOne DEF summonVars

LEMMA SummonUpStage ==
  ASSUME Synchronous, SummonInv, NEW e \in Edo, SummonUp(e)
  PROVE  StageInv' /\ DriverInv'
<1>1. ASSUME NEW at \in SingleOnly, NEW s, NEW next \in SingleOnly, Wait(e, at, s, next),
             next = "logReady" => s = "Running"
      PROVE  StageInv' /\ DriverInv'
  <2>1. /\ UNCHANGED <<driverVars, process, summonVars>> /\ pc[e] = at /\ Restored(e)' = Restored(e)
    BY <1>1 DEF Wait, Restored
  <2>2. /\ pc'[e] = "err" \/ (pc'[e] = next /\ cuda[mapped[e][1]] = s)
        /\ \A f \in Edo \ {e} : pc'[f] = pc[f]
    BY <1>1, SummonFacts DEF Wait, Sees, Goto
  <2>3. Command[e] = "single"
    BY <1>1, <2>1, SummonFacts DEF CommandInv, PathInv
  <2>4. StageBy(e)'
    BY <1>1, <2>1, <2>2, <2>3 DEF StageBy, SingleOnly, summonVars, driverVars
  <2> QED BY <2>1, <2>2, <2>4, StageOfOne DEF summonVars, driverVars
<1> QED BY <1>1, TryStage, DriveStage DEF SummonUp, SingleOnly

LEMMA InitSummon == Init => SummonInv
<1> SUFFICES ASSUME Init PROVE SummonInv
  OBVIOUS
<1>1. DrivesInv /\ TypeInv
  BY InitDrives, InitTypes
<1>2. DriverInv
  BY <1>1 DEF Init, DriverInv, NoProcess
<1>3. \A e \in Edo : Restored(e) = {} /\ pc[e] = "read"
  BY <1>1, CommandFacts DEF Init, TableInv, Before
<1>4. StageInv
  BY <1>3 DEF StageInv, StageBy, NoneRuns, AllRun
<1>5. KindInv
  BY <1>3 DEF KindInv
<1> QED BY <1>1, <1>2, <1>4, <1>5 DEF SummonInv

(* The kind is looked at before anything else, and no command starts again.   *)
LEMMA NextKind ==
  ASSUME TypeInv, KindInv, [Next]_vars
  PROVE  KindInv'
<1>1. pc \in [Edo -> Label]
  BY DEF TypeInv, TypeOK
<1>2. ASSUME NEW e \in Edo, MainStep(e) \/ Kill(e)
      PROVE  KindInv'
  <2>1. /\ \A f \in Edo \ {e} : pc'[f] = pc[f]
        /\ \/ pc[e] \notin Ended \cup {"read"}
           \/ pc'[e] \in Ended
           \/ Accepts(e)
    BY <1>1, <1>2 DEF MainStep, Kill, Read, Load, Try, Criu, Tree, Map, Join, JoinNext, Joins,
       AllJoined, Exit, Pidfile, SummonUp, Wait, Drive, Goto, Ended
  <2> QED BY <2>1 DEF KindInv, Accepts
<1>3. CASE UNCHANGED pc
  BY <1>3 DEF KindInv, Accepts
<1> QED BY <1>2, <1>3 DEF Next, Worker, TargetStep, Done, vars

LEMMA NextSummon ==
  ASSUME NoReplica, Synchronous, SummonInv, [Next]_vars
  PROVE  SummonInv'
<1>1. DrivesInv'
  BY NextDrives DEF SummonInv
<1>2. ASSUME NEW e \in Edo, MainStep(e)
      PROVE  StageInv' /\ DriverInv'
  BY <1>2, TryStage, CriuStage, TreeStage, MapStage, JoinStage, PidfileStage, SummonUpStage
     DEF MainStep
<1>3. ASSUME UNCHANGED vars
      PROVE  StageInv' /\ DriverInv'
  <2>1. \A f \in Edo : Restored(f)' = Restored(f)
    BY <1>3 DEF vars, Restored
  <2>2. StageInv'
    BY <1>3, <2>1, StageKept, SummonFacts DEF StageInv, vars, driverVars, summonVars
  <2> QED BY <1>3, <2>2 DEF SummonInv, DriverInv, vars, driverVars
<1>4. StageInv' /\ DriverInv'
  BY <1>2, <1>3, KillStage, WorkerStage, TargetStage DEF Next, Done
<1> QED BY <1>1, <1>4, NextKind DEF SummonInv, DrivesInv

(* A worker of a group runs again only when the GPU state of every other one  *)
(* is back, for any number of workers, whatever order the threads run in and  *)
(* whichever of them fails.                                                   *)
THEOREM UnlocksWait ==
  ASSUME NoReplica, Synchronous
  PROVE  Spec => []Barrier
<1>1. SummonInv => Barrier
  BY DEF SummonInv, StageInv, StageBy, NoneRuns, NoneFrozen, Barrier
<1> QED BY <1>1, InitSummon, NextSummon, PTL DEF Spec

(* Exit status 0 of summon and of summon-group means that every process of    *)
(* the snapshot is there and runs, or has died since.                         *)
THEOREM SuccessMeansRunning ==
  ASSUME NoReplica, Synchronous
  PROVE  Spec => []OkRuns
<1>1. SummonInv => OkRuns
  BY DEF SummonInv, StageInv, StageBy, AllRun, OkRuns
<1> QED BY <1>1, InitSummon, NextSummon, PTL DEF Spec

=============================================================================
