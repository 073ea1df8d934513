-------------------------- MODULE FreezeGroupProofs -------------------------
(* What holds of FreezeGroup for any PIDs, groups, directories, faults, and  *)
(* for a synchronous as for an asynchronous driver.                          *)
EXTENDS FreezeGroup, TLAPS

-----------------------------------------------------------------------------
(* The stores' operations keep their types.                                  *)

LEMMA StoreOperationTypes ==
  ASSUME StoreTypeOK, NEW d \in Dir, NEW e \in Edo, NEW c \in Capture, NEW keep \in BOOLEAN,
         \/ UNCHANGED storeVars
         \/ CreateDirectory(d)
         \/ ClearLinkRemaps
         \/ DumpSucceeds(d, c, keep)
         \/ DumpFails(d)
         \/ OpenManifest(d, e)
         \/ FillManifest(d)
  PROVE  StoreTypeOK'
<1> USE DEF StoreTypeOK
<1>1. CASE UNCHANGED storeVars
  BY <1>1 DEF storeVars
<1>2. CASE CreateDirectory(d)
  BY <1>2 DEF CreateDirectory
<1>3. CASE ClearLinkRemaps
  BY <1>3 DEF ClearLinkRemaps
<1>4. CASE DumpSucceeds(d, c, keep)
  BY <1>4 DEF DumpSucceeds
<1>5. CASE DumpFails(d)
  BY <1>5 DEF DumpFails, Manifest
<1>6. CASE OpenManifest(d, e)
  BY <1>6 DEF OpenManifest, Manifest
<1>7. CASE FillManifest(d)
  <2>1. CASE manifest[d] = NoManifest
    BY <1>7, <2>1 DEF FillManifest
  <2>2. CASE manifest[d] # NoManifest
    <3>1. manifest[d].by \in Edo /\ manifest[d].of \in SUBSET Capture
      BY <2>2 DEF Manifest
    <3> QED BY <1>7, <2>2, <3>1 DEF FillManifest, Manifest
  <2> QED BY <2>1, <2>2
<1> QED BY <1>1, <1>2, <1>3, <1>4, <1>5, <1>6, <1>7

(* The driver's calls and steps keep its types.                              *)
LEMMA CallTypes ==
  ASSUME DriverTypeOK, NEW p \in Pid,
         \/ Lock(p) \/ Checkpoint(p) \/ Restore(p) \/ Unlock(p)
         \/ UNCHANGED driverVars
  PROVE  DriverTypeOK'
BY DEF DriverTypeOK, Lock, Checkpoint, Restore, Unlock, Call, driverVars, ProcessState

LEMMA TargetStepTypes ==
  ASSUME DriverTypeOK, NEW p \in Pid, Complete(p) \/ Break(p) \/ Die(p)
  PROVE  DriverTypeOK'
BY DEF DriverTypeOK, Complete, Break, Die, ProcessState

-----------------------------------------------------------------------------
(* Where the loops stand: `locked' is the number of PIDs the lock loop has   *)
(* been through, and a recovery stays among them.                            *)

LoopAt(e, l, i, n) ==
  /\ l \in {"start", "waitRunning"} => n = 0
  /\ l \in {"lock", "waitLocked"} => i = n + 1
  /\ l \in {"checkpoint", "waitCheckpointed"} \cup Dumping => n = Len(Group[e])
  /\ l \in Recovering => i <= n

LoopInv == \A e \in Edo : LoopAt(e, pc[e], idx[e], locked[e])

LEMMA GroupFacts ==
  ASSUME NEW e \in Edo
  PROVE  /\ Group[e] \in Seq(Pid)
         /\ Len(Group[e]) \in Nat \ {0}
         /\ Out[e] \in Dir
         /\ \A i \in 1..Len(Group[e]) : Group[e][i] \in Pid
         /\ \A i, j \in 1..Len(Group[e]) : Group[e][i] = Group[e][j] => i = j
<1>1. Group[e] \in Seq(Pid) /\ Len(Group[e]) \in Nat \ {0} /\ Out[e] \in Dir
  BY GroupAssumption DEF Parsed
<1>2. \A i \in 1..Len(Group[e]) : Group[e][i] \in Pid
  BY <1>1
<1>3. ASSUME NEW i \in 1..Len(Group[e]), NEW j \in 1..Len(Group[e]),
             Group[e][i] = Group[e][j], i # j
      PROVE  FALSE
  <2>1. Group[e][i] \in Nat /\ Group[e][j] \in Nat
    BY <1>2, GroupAssumption
  <2>2. CASE i < j
    BY <1>3, <2>1, <2>2, GroupAssumption DEF Parsed
  <2>3. CASE j < i
    BY <1>3, <2>1, <2>3, GroupAssumption DEF Parsed
  <2> QED BY <1>1, <1>3, <2>2, <2>3
<1> QED BY <1>1, <1>2, <1>3

EdoTypeOK ==
  /\ pc \in [Edo -> Label]
  /\ idx \in [Edo -> Nat] /\ \A e \in Edo : idx[e] \in 1..Len(Group[e])
  /\ locked \in [Edo -> Nat] /\ \A e \in Edo : locked[e] <= Len(Group[e])
  /\ goal \in [Edo -> {"none", "abort", "resume"}]
  /\ LoopInv

(* The moves of the program counter keep the loops in order.                 *)
LEMMA GotoTypes ==
  ASSUME EdoTypeOK, NEW e \in Edo, NEW l \in Label, Goto(e, l), locked' = locked,
         LoopAt(e, l, idx[e], locked[e])
  PROVE  EdoTypeOK'
<1>1. LoopInv'
  BY DEF EdoTypeOK, LoopInv, LoopAt, Goto
<1> QED BY <1>1 DEF EdoTypeOK, Goto

LEMMA RecoverTypes ==
  ASSUME EdoTypeOK, NEW e \in Edo, NEW g \in {"abort", "resume"},
         Recover(e, g), locked' = locked
  PROVE  EdoTypeOK'
<1>1. \A f \in Edo : Len(Group[f]) \in Nat \ {0}
  BY GroupFacts
<1>2. LoopAt(e, pc'[e], idx'[e], locked'[e])
  BY <1>1 DEF EdoTypeOK, LoopAt, Recover, Dumping, Recovering
<1>3. LoopInv'
  BY <1>2 DEF EdoTypeOK, LoopInv, LoopAt, Recover
<1> QED BY <1>1, <1>3 DEF EdoTypeOK, Recover, Label, Recovering, Ended

LEMMA NextRoundTypes ==
  ASSUME EdoTypeOK, NEW e \in Edo, NEW n \in 1..Len(Group[e]), NEW m \in 0..Len(Group[e]),
         NEW again \in Label, NEW after \in Label, NextRound(e, n, again, after),
         locked' = [locked EXCEPT ![e] = m],
         idx[e] <= n,
         idx[e] # n => LoopAt(e, again, idx[e] + 1, m),
         idx[e] = n => LoopAt(e, after, 1, m)
  PROVE  EdoTypeOK'
<1>1. \A f \in Edo : Len(Group[f]) \in Nat \ {0}
  BY GroupFacts
<1>2. LoopAt(e, pc'[e], idx'[e], locked'[e])
  BY DEF EdoTypeOK, NextRound
<1>3. LoopInv'
  BY <1>2 DEF EdoTypeOK, LoopInv, LoopAt, NextRound
<1>4. idx'[e] \in 1..Len(Group[e])
  BY <1>1 DEF EdoTypeOK, NextRound
<1>5. idx' \in [Edo -> Nat] /\ \A f \in Edo : idx'[f] \in 1..Len(Group[f])
  BY <1>4 DEF EdoTypeOK, NextRound
<1>6. locked' \in [Edo -> Nat] /\ \A f \in Edo : locked'[f] <= Len(Group[f])
  BY <1>1 DEF EdoTypeOK
<1>7. pc' \in [Edo -> Label] /\ goal' \in [Edo -> {"none", "abort", "resume"}]
  BY DEF EdoTypeOK, NextRound
<1> QED BY <1>3, <1>5, <1>6, <1>7 DEF EdoTypeOK

(* A step of an edo process keeps the types and the loops of all of them.    *)
LEMMA EdoStepTypes ==
  ASSUME EdoTypeOK, NEW e \in Edo, EdoStep(e) \/ Kill(e)
  PROVE  EdoTypeOK'
<1>1. /\ \A f \in Edo : Len(Group[f]) \in Nat \ {0}
      /\ idx[e] \in 1..Len(Group[e]) /\ locked[e] \in 0..Len(Group[e])
      /\ locked = [locked EXCEPT ![e] = locked[e]]
  BY GroupFacts DEF EdoTypeOK
<1>2. LoopAt(e, pc[e], idx[e], locked[e])
  BY DEF EdoTypeOK, LoopInv
<1>3. ASSUME NEW l \in Label, Goto(e, l), locked' = locked, LoopAt(e, l, idx[e], locked[e])
      PROVE  EdoTypeOK'
  BY <1>3, GotoTypes
<1>4. ASSUME Abort(e) PROVE EdoTypeOK'
  BY <1>4, RecoverTypes DEF Abort
<1> USE DEF LoopAt, Label, Ended, Recovering, Dumping, Writing
<1>5. CASE Start(e)
  BY <1>2, <1>3, <1>5 DEF Start
<1>6. CASE WaitRunning(e)
  <2>1. CASE Sees(Cur(e), "Running") /\ NextRound(e, Len(Group[e]), "waitRunning", "lock")
    <3>1. idx[e] # Len(Group[e]) => LoopAt(e, "waitRunning", idx[e] + 1, locked[e])
      BY <1>1, <1>2, <1>6 DEF WaitRunning
    <3>2. LoopAt(e, "lock", 1, locked[e])
      BY <1>1, <1>2, <1>6 DEF WaitRunning
    <3>3. "waitRunning" \in Label /\ "lock" \in Label
      OBVIOUS
    <3> HIDE DEF LoopAt, Label, Ended, Recovering, Dumping, Writing
    <3> QED BY <1>1, <1>6, <2>1, <3>1, <3>2, <3>3, NextRoundTypes DEF WaitRunning
  <2> QED BY <1>2, <1>3, <1>6, <2>1 DEF WaitRunning
<1>7. CASE LockCall(e)
  BY <1>2, <1>3, <1>4, <1>7 DEF LockCall
<1>8. CASE WaitLocked(e)
  <2>1. CASE /\ locked' = [locked EXCEPT ![e] = @ + 1]
             /\ NextRound(e, Len(Group[e]), "lock", "checkpoint")
    <3>1. idx[e] = locked[e] + 1 /\ locked[e] + 1 \in 0..Len(Group[e])
      BY <1>1, <1>2, <1>8 DEF WaitLocked
    <3>2. idx[e] # Len(Group[e]) => LoopAt(e, "lock", idx[e] + 1, locked[e] + 1)
      BY <1>1, <3>1
    <3>3. idx[e] = Len(Group[e]) => LoopAt(e, "checkpoint", 1, locked[e] + 1)
      BY <1>1, <3>1
    <3>4. /\ "lock" \in Label /\ "checkpoint" \in Label
          /\ Len(Group[e]) \in 1..Len(Group[e]) /\ idx[e] <= Len(Group[e])
          /\ locked' = [locked EXCEPT ![e] = locked[e] + 1]
      BY <1>1, <2>1
    <3> HIDE DEF LoopAt, Label, Ended, Recovering, Dumping, Writing
    <3> QED BY <2>1, <3>1, <3>2, <3>3, <3>4, NextRoundTypes
  <2> QED BY <1>4, <1>8, <2>1 DEF WaitLocked
<1>9. CASE CheckpointCall(e)
  BY <1>2, <1>3, <1>4, <1>9 DEF CheckpointCall
<1>10. CASE WaitCheckpointed(e)
  <2>1. CASE NextRound(e, Len(Group[e]), "checkpoint", "prepare") /\ UNCHANGED locked
    <3>1. idx[e] # Len(Group[e]) => LoopAt(e, "checkpoint", idx[e] + 1, locked[e])
      BY <1>1, <1>2, <1>10 DEF WaitCheckpointed
    <3>2. idx[e] = Len(Group[e]) => LoopAt(e, "prepare", 1, locked[e])
      BY <1>1, <1>2, <1>10 DEF WaitCheckpointed
    <3>3. "checkpoint" \in Label /\ "prepare" \in Label
      OBVIOUS
    <3> HIDE DEF LoopAt, Label, Ended, Recovering, Dumping, Writing
    <3> QED BY <1>1, <1>10, <2>1, <3>1, <3>2, <3>3, NextRoundTypes DEF WaitCheckpointed
  <2> QED BY <1>4, <1>10, <2>1 DEF WaitCheckpointed
<1>11. CASE Prepare(e)
  BY <1>2, <1>3, <1>4, <1>11 DEF Prepare
<1>12. CASE Create(e)
  BY <1>2, <1>3, <1>4, <1>12 DEF Create
<1>13. CASE Clear(e)
  BY <1>2, <1>3, <1>13 DEF Clear
<1>14. CASE Criu(e)
  BY <1>4, <1>14, RecoverTypes DEF Criu
<1>15. CASE RecoverState(e)
  BY <1>2, <1>3, <1>15 DEF RecoverState, RecoverFails
<1>16. CASE RecoverRestore(e)
  BY <1>2, <1>3, <1>16 DEF RecoverRestore, RecoverFails
<1>17. CASE RecoverWaitLocked(e)
  BY <1>2, <1>3, <1>17 DEF RecoverWaitLocked, RecoverFails
<1>18. CASE RecoverUnlock(e)
  BY <1>2, <1>3, <1>18 DEF RecoverUnlock, RecoverFails
<1>19. CASE RecoverWaitRunning(e)
  <2>1. CASE NextRound(e, locked[e], "recState", AfterRecovery(e))
    <3>1. locked[e] \in 1..Len(Group[e]) /\ idx[e] <= locked[e]
      BY <1>1, <1>2, <1>19 DEF RecoverWaitRunning
    <3>2. AfterRecovery(e) \in {"write", "err"} /\ locked' = [locked EXCEPT ![e] = locked[e]]
      BY <1>1, <1>19 DEF AfterRecovery, RecoverWaitRunning
    <3>3. idx[e] # locked[e] => LoopAt(e, "recState", idx[e] + 1, locked[e])
      BY <1>1, <3>1
    <3>4. LoopAt(e, AfterRecovery(e), 1, locked[e])
      BY <3>2
    <3>5. AfterRecovery(e) \in Label /\ "recState" \in Label /\ locked[e] \in 0..Len(Group[e])
      BY <1>1, <3>2
    <3> HIDE DEF LoopAt, Label, Ended, Recovering, Dumping, Writing
    <3> QED BY <2>1, <3>1, <3>2, <3>3, <3>4, <3>5, NextRoundTypes
  <2> QED BY <1>2, <1>3, <1>19, <2>1 DEF RecoverWaitRunning, RecoverFails
<1>20. CASE Write(e)
  BY <1>2, <1>3, <1>20 DEF Write
<1>21. CASE Fill(e)
  BY <1>2, <1>3, <1>21 DEF Fill
<1>22. CASE Chmod(e)
  BY <1>2, <1>3, <1>22 DEF Chmod
<1>23. CASE Kill(e)
  BY <1>2, <1>3, <1>23 DEF Kill
<1> QED BY <1>5, <1>6, <1>7, <1>8, <1>9, <1>10, <1>11, <1>12, <1>13, <1>14, <1>15,
           <1>16, <1>17, <1>18, <1>19, <1>20, <1>21, <1>22, <1>23 DEF EdoStep

-----------------------------------------------------------------------------
(* What a step of e can do to the driver: nothing, or one of its four calls, *)
(* each at its own label.                                                    *)

Calls(e) ==
  \/ UNCHANGED driverVars
  \/ Lock(Cur(e)) /\ pc[e] = "lock" /\ Goto(e, "waitLocked") /\ UNCHANGED locked
  \/ Checkpoint(Cur(e)) /\ pc[e] = "checkpoint" /\ Goto(e, "waitCheckpointed") /\ UNCHANGED locked
  \/ Restore(Cur(e)) /\ pc[e] = "recRestore" /\ Goto(e, "recWaitLocked") /\ UNCHANGED locked
  \/ Unlock(Cur(e)) /\ pc[e] = "recUnlock" /\ Goto(e, "recWaitRunning") /\ UNCHANGED locked

LEMMA EdoStepCalls ==
  ASSUME NEW e \in Edo, EdoStep(e) \/ Kill(e)
  PROVE  Calls(e)
BY DEF EdoStep, Calls, Start, WaitRunning, LockCall, WaitLocked, CheckpointCall,
       WaitCheckpointed, Prepare, Create, Clear, Criu, RecoverState, RecoverRestore,
       RecoverWaitLocked, RecoverUnlock, RecoverWaitRunning, Write, Fill, Chmod, Kill,
       Refused

(* And to the directories: nothing, or one of the store's operations.        *)
LEMMA EdoStepStores ==
  ASSUME StoreTypeOK, NEW e \in Edo, EdoStep(e) \/ Kill(e)
  PROVE  StoreTypeOK'
<1>1. Out[e] \in Dir
  BY GroupFacts
<1>2. [by |-> e, quiescent |-> Quiescent(e)] \in Capture
  BY DEF Capture, Quiescent, Sees
<1>3. \/ UNCHANGED storeVars
      \/ CreateDirectory(Out[e])
      \/ ClearLinkRemaps
      \/ DumpSucceeds(Out[e], [by |-> e, quiescent |-> Quiescent(e)], TRUE)
      \/ DumpFails(Out[e])
      \/ OpenManifest(Out[e], e)
      \/ FillManifest(Out[e])
  BY DEF EdoStep, Start, WaitRunning, LockCall, WaitLocked, CheckpointCall,
         WaitCheckpointed, Prepare, Create, Clear, Criu, RecoverState, RecoverRestore,
         RecoverWaitLocked, RecoverUnlock, RecoverWaitRunning, Write, Fill, Chmod, Kill
<1> QED BY <1>1, <1>2, <1>3, StoreOperationTypes

TypeInv == DriverTypeOK /\ StoreTypeOK /\ EdoTypeOK

LEMMA InitTypes == Init => TypeInv
<1> SUFFICES ASSUME Init PROVE TypeInv
  OBVIOUS
<1>1. DriverTypeOK
  BY DEF Init, DriverInit, DriverTypeOK, ProcessState
<1>2. StoreTypeOK
  BY DEF Init, StoreInit, StoreTypeOK, Manifest
<1>3. \A e \in Edo : Len(Group[e]) \in Nat \ {0}
  BY GroupFacts
<1>4. LoopInv
  BY DEF Init, LoopInv, LoopAt, Dumping, Recovering
<1> QED BY <1>1, <1>2, <1>3, <1>4 DEF Init, TypeInv, EdoTypeOK, Label

LEMMA NextTypes == TypeInv /\ [Next]_vars => TypeInv'
<1> SUFFICES ASSUME TypeInv, [Next]_vars PROVE TypeInv'
  OBVIOUS
<1> USE DEF TypeInv
<1>1. ASSUME NEW e \in Edo, EdoStep(e) \/ Kill(e) PROVE TypeInv'
  <2>1. Cur(e) \in Pid
    BY GroupFacts DEF EdoTypeOK, Cur
  <2>2. DriverTypeOK'
    BY <1>1, <2>1, EdoStepCalls, CallTypes DEF Calls
  <2> QED BY <1>1, <2>2, EdoStepStores, EdoStepTypes
<1>2. ASSUME NEW p \in Pid, TargetStep(p) PROVE TypeInv'
  BY <1>2, TargetStepTypes
     DEF TargetStep, storeVars, edoVars, StoreTypeOK, EdoTypeOK, LoopInv, LoopAt
<1>3. CASE UNCHANGED vars
  BY <1>3 DEF vars, driverVars, storeVars, edoVars, DriverTypeOK, StoreTypeOK, EdoTypeOK,
              LoopInv, LoopAt
<1> QED BY <1>1, <1>2, <1>3 DEF Next, Done

(* The variables stay in their types; in particular an edo process never     *)
(* goes past the end of its list of PIDs, in any of its loops.               *)
THEOREM TypeCorrect == Spec => []TypeOK
<1>1. TypeInv => TypeOK
  BY DEF TypeInv, EdoTypeOK, TypeOK
<1> QED BY <1>1, InitTypes, NextTypes, PTL DEF Spec

-----------------------------------------------------------------------------
(* Exclusion. The driver refuses to lock a process that is not RUNNING or    *)
(* has a transition in progress; so the set a coordinator holds grows only   *)
(* by a process no other holds, provided that whatever is held is not        *)
(* RUNNING. The strengthening is about the transition: a held process may    *)
(* have one in progress, but never the one back to RUNNING.                  *)

HeldNotReleased ==
  \A e \in Edo : \A p \in Held(e) :
    pending[p] # "Running" /\ (cuda[p] # "Running" \/ pending[p] # "None")

HeldInv == TypeInv /\ Exclusive /\ HeldNotReleased

LEMMA HeldMembers ==
  ASSUME NEW e \in Edo
  PROVE  /\ Held(e) \subseteq Pid
         /\ \A p : p \in Held(e) <=> \E i \in 1..Len(Group[e]) : HoldsAt(e, i) /\ p = Group[e][i]
BY GroupFacts DEF Held

(* What a step of e does to what is held: the lock call adds the current PID, *)
(* the unlock call drops it, nothing else adds any, and what the others hold  *)
(* stays.                                                                     *)
LEMMA EdoStepPositions ==
  ASSUME TypeInv, NEW e \in Edo, EdoStep(e) \/ Kill(e), NEW i \in 1..Len(Group[e]),
         HoldsAt(e, i)'
  PROVE  HoldsAt(e, i) \/ (pc[e] = "lock" /\ pc'[e] = "waitLocked" /\ i = idx[e])
<1>1. /\ Len(Group[e]) \in Nat \ {0} /\ idx[e] \in Nat /\ locked[e] \in Nat
      /\ idx[e] \in 1..Len(Group[e]) /\ locked[e] <= Len(Group[e])
      /\ LoopAt(e, pc[e], idx[e], locked[e])
      /\ pc \in [Edo -> Label] /\ idx \in [Edo -> Nat] /\ locked \in [Edo -> Nat]
  BY GroupFacts DEF TypeInv, EdoTypeOK, LoopInv
<1> USE <1>1 DEF HoldsAt, LoopAt, Label, Ended, Recovering, Dumping, Writing
<1>2. CASE Start(e) \/ WaitRunning(e)
  BY <1>2 DEF Start, WaitRunning, Goto, NextRound
<1>3. CASE LockCall(e)
  BY <1>3 DEF LockCall, Goto, Abort, Recover
<1>4. CASE WaitLocked(e)
  BY <1>4 DEF WaitLocked, NextRound, Abort, Recover
<1>5. CASE CheckpointCall(e)
  BY <1>5 DEF CheckpointCall, Goto, Abort, Recover
<1>6. CASE WaitCheckpointed(e)
  BY <1>6 DEF WaitCheckpointed, NextRound, Abort, Recover
<1>7. CASE Prepare(e) \/ Create(e) \/ Clear(e)
  BY <1>7 DEF Prepare, Create, Clear, Goto, Abort, Recover
<1>8. CASE Criu(e)
  BY <1>8 DEF Criu, Abort, Recover
<1>9. CASE RecoverState(e)
  BY <1>9 DEF RecoverState, Goto, RecoverFails
<1>10. CASE RecoverRestore(e) \/ RecoverWaitLocked(e)
  BY <1>10 DEF RecoverRestore, RecoverWaitLocked, Goto, RecoverFails
<1>11. CASE RecoverUnlock(e)
  BY <1>11 DEF RecoverUnlock, Goto, RecoverFails
<1>12. CASE RecoverWaitRunning(e)
  BY <1>12 DEF RecoverWaitRunning, NextRound, AfterRecovery, Goto, RecoverFails
<1>13. CASE Write(e) \/ Fill(e) \/ Chmod(e) \/ Kill(e)
  BY <1>13 DEF Write, Fill, Chmod, Kill, Goto
<1> QED BY <1>2, <1>3, <1>4, <1>5, <1>6, <1>7, <1>8, <1>9, <1>10, <1>11, <1>12, <1>13
        DEF EdoStep

(* What the other commands have in hand, and where they are, stays.           *)
LEMMA EdoStepOthers ==
  ASSUME NEW e \in Edo, NEW f \in Edo, e # f, TypeInv, EdoStep(e) \/ Kill(e)
  PROVE  pc'[f] = pc[f] /\ idx'[f] = idx[f] /\ locked'[f] = locked[f] /\ goal'[f] = goal[f]
<1> USE DEF TypeInv, EdoTypeOK
<1>1. CASE Start(e) \/ WaitRunning(e) \/ LockCall(e) \/ WaitLocked(e)
  BY <1>1 DEF Start, WaitRunning, LockCall, WaitLocked, Goto, NextRound, Abort, Recover
<1>2. CASE CheckpointCall(e) \/ WaitCheckpointed(e) \/ Prepare(e) \/ Create(e)
  BY <1>2 DEF CheckpointCall, WaitCheckpointed, Prepare, Create, Goto, NextRound, Abort, Recover
<1>3. CASE Clear(e) \/ Criu(e) \/ Write(e) \/ Fill(e) \/ Chmod(e) \/ Kill(e)
  BY <1>3 DEF Clear, Criu, Write, Fill, Chmod, Kill, Goto, Abort, Recover
<1>4. CASE \/ RecoverState(e) \/ RecoverRestore(e) \/ RecoverWaitLocked(e)
           \/ RecoverUnlock(e) \/ RecoverWaitRunning(e)
  BY <1>4 DEF RecoverState, RecoverRestore, RecoverWaitLocked, RecoverUnlock,
              RecoverWaitRunning, NextRound, Goto, RecoverFails
<1> QED BY <1>1, <1>2, <1>3, <1>4 DEF EdoStep

LEMMA EdoStepFrame ==
  ASSUME NEW e \in Edo, NEW f \in Edo, e # f, TypeInv, EdoStep(e) \/ Kill(e)
  PROVE  Held(f)' = Held(f)
BY EdoStepOthers DEF Held, HoldsAt

(* The unlock call is made for a PID that is held, and drops it: parse_pids   *)
(* has removed duplicates, so no later position names the same PID.           *)
LEMMA UnlockDrops ==
  ASSUME TypeInv, NEW e \in Edo, pc[e] = "recUnlock",
         Goto(e, "recWaitRunning"), UNCHANGED locked
  PROVE  Cur(e) \in Held(e) /\ Cur(e) \notin Held(e)'
<1>1. /\ idx[e] \in 1..Len(Group[e]) /\ idx[e] \in Nat /\ idx[e] <= locked[e]
      /\ pc'[e] = "recWaitRunning" /\ idx'[e] = idx[e]
  BY DEF TypeInv, EdoTypeOK, LoopInv, LoopAt, Goto, Recovering
<1>2. HoldsAt(e, idx[e])
  BY <1>1 DEF HoldsAt, Recovering
<1>3. Cur(e) \in Held(e)
  BY <1>1, <1>2 DEF Held, Cur
<1>4. ASSUME NEW i \in 1..Len(Group[e]), HoldsAt(e, i)', Group[e][i] = Group[e][idx[e]]
      PROVE  FALSE
  <2>1. i = idx[e]
    BY <1>1, <1>4, GroupFacts
  <2> QED BY <1>1, <1>4, <2>1 DEF HoldsAt, Recovering, Dumping
<1> QED BY <1>3, <1>4 DEF Held, Cur

LEMMA EdoStepHeld ==
  ASSUME TypeInv, NEW e \in Edo, EdoStep(e) \/ Kill(e)
  PROVE  \/ UNCHANGED driverVars /\ Held(e)' \subseteq Held(e)
         \/ Lock(Cur(e)) /\ Held(e)' \subseteq Held(e) \cup {Cur(e)}
         \/ (Checkpoint(Cur(e)) \/ Restore(Cur(e))) /\ Held(e)' \subseteq Held(e)
         \/ Unlock(Cur(e)) /\ Cur(e) \in Held(e) /\ Held(e)' \subseteq Held(e) \ {Cur(e)}
<1>1. Calls(e)
  BY EdoStepCalls
<1>2. ASSUME NEW p \in Held(e)', p \notin Held(e)
      PROVE  pc[e] = "lock" /\ pc'[e] = "waitLocked" /\ p = Cur(e)
  BY <1>2, EdoStepPositions DEF Held, Cur
<1>3. CASE pc[e] = "lock" /\ pc'[e] = "waitLocked"
  <2>1. Lock(Cur(e))
    BY <1>3 DEF EdoStep, Start, WaitRunning, LockCall, WaitLocked, CheckpointCall,
         WaitCheckpointed, Prepare, Create, Clear, Criu, RecoverState, RecoverRestore,
         RecoverWaitLocked, RecoverUnlock, RecoverWaitRunning, Write, Fill, Chmod, Kill,
         Goto, Abort, Recover, TypeInv, EdoTypeOK
  <2> QED BY <1>2, <2>1
<1>4. CASE ~(pc[e] = "lock" /\ pc'[e] = "waitLocked")
  <2>1. Held(e)' \subseteq Held(e)
    BY <1>2, <1>4
  <2>2. ~(pc[e] = "lock" /\ Goto(e, "waitLocked"))
    BY <1>4 DEF Goto, TypeInv, EdoTypeOK
  <2> QED BY <1>1, <2>1, <2>2, UnlockDrops DEF Calls
<1> QED BY <1>3, <1>4

LEMMA NextHeld == HeldInv /\ [Next]_vars => HeldInv'
<1> SUFFICES ASSUME HeldInv, [Next]_vars PROVE HeldInv'
  OBVIOUS
<1> USE DEF HeldInv
<1>1. TypeInv'
  BY NextTypes
<1>2. ASSUME NEW e \in Edo, EdoStep(e) \/ Kill(e)
      PROVE  Exclusive' /\ HeldNotReleased'
  <2>1. \A f \in Edo : f # e => Held(f)' = Held(f)
    BY <1>2, EdoStepFrame
  <2>2. Cur(e) \in Pid /\ cuda \in [Pid -> ProcessState]
           /\ pending \in [Pid -> {"None", "Running", "Locked", "Checkpointed"}]
    BY GroupFacts DEF TypeInv, EdoTypeOK, DriverTypeOK, Cur
  <2>3. \A f \in Edo : Held(f) \subseteq Pid
    BY HeldMembers
  <2>4. CASE UNCHANGED driverVars /\ Held(e)' \subseteq Held(e)
    <3>1. Exclusive'
      BY <2>1, <2>4 DEF Exclusive
    <3>2. HeldNotReleased'
      BY <2>1, <2>4 DEF HeldNotReleased, driverVars
    <3> QED BY <3>1, <3>2
  <2>5. CASE Lock(Cur(e)) /\ Held(e)' \subseteq Held(e) \cup {Cur(e)}
    <3>1. \A f \in Edo : Cur(e) \notin Held(f)
      BY <2>5 DEF HeldNotReleased, Lock, Call, Ready
    <3>2. Exclusive'
      BY <2>1, <2>5, <3>1 DEF Exclusive
    <3>3. /\ \A p \in Pid \ {Cur(e)} : cuda'[p] = cuda[p] /\ pending'[p] = pending[p]
          /\ pending'[Cur(e)] # "Running"
          /\ cuda'[Cur(e)] # "Running" \/ pending'[Cur(e)] # "None"
      BY <2>2, <2>5 DEF Lock, Call, Ready
    <3>4. HeldNotReleased'
      BY <2>1, <2>3, <2>5, <3>3 DEF HeldNotReleased
    <3> QED BY <3>2, <3>4
  <2>6. CASE (Checkpoint(Cur(e)) \/ Restore(Cur(e))) /\ Held(e)' \subseteq Held(e)
    <3>1. Exclusive'
      BY <2>1, <2>6 DEF Exclusive
    <3>2. /\ \A p \in Pid \ {Cur(e)} : cuda'[p] = cuda[p] /\ pending'[p] = pending[p]
          /\ pending'[Cur(e)] # "Running"
          /\ cuda'[Cur(e)] # "Running" \/ pending'[Cur(e)] # "None"
      BY <2>2, <2>6 DEF Checkpoint, Restore, Call, Ready
    <3>3. HeldNotReleased'
      BY <2>1, <2>3, <2>6, <3>2 DEF HeldNotReleased
    <3> QED BY <3>1, <3>3
  <2>7. CASE Unlock(Cur(e)) /\ Cur(e) \in Held(e) /\ Held(e)' \subseteq Held(e) \ {Cur(e)}
    <3>1. Exclusive'
      BY <2>1, <2>7 DEF Exclusive
    <3>2. \A f \in Edo : Cur(e) \notin Held(f)'
      BY <2>1, <2>7 DEF Exclusive
    <3>3. \A p \in Pid \ {Cur(e)} : cuda'[p] = cuda[p] /\ pending'[p] = pending[p]
      BY <2>2, <2>7 DEF Unlock, Call
    <3>4. HeldNotReleased'
      BY <2>1, <2>3, <2>7, <3>2, <3>3 DEF HeldNotReleased
    <3> QED BY <3>1, <3>4
  <2> QED BY <1>2, <2>4, <2>5, <2>6, <2>7, EdoStepHeld
<1>3. ASSUME NEW p \in Pid, TargetStep(p)
      PROVE  Exclusive' /\ HeldNotReleased'
  <2>1. \A e \in Edo : Held(e)' = Held(e)
    BY <1>3 DEF TargetStep, edoVars, Held, HoldsAt
  <2>2. Exclusive'
    BY <2>1 DEF Exclusive
  <2>3. HeldNotReleased'
    <3>1. CASE Complete(p)
      BY <2>1, <3>1, HeldMembers DEF Complete, HeldNotReleased, TypeInv, DriverTypeOK
    <3>2. CASE Break(p)
      BY <2>1, <3>2, HeldMembers DEF Break, HeldNotReleased, TypeInv, DriverTypeOK
    <3>3. CASE Die(p)
      BY <2>1, <3>3 DEF Die, HeldNotReleased
    <3> QED BY <1>3, <3>1, <3>2, <3>3 DEF TargetStep
  <2> QED BY <2>2, <2>3
<1>4. CASE UNCHANGED vars
  <2>1. \A e \in Edo : Held(e)' = Held(e)
    BY <1>4 DEF vars, edoVars, Held, HoldsAt
  <2> QED BY <1>1, <1>4, <2>1 DEF vars, driverVars, Exclusive, HeldNotReleased
<1> QED BY <1>1, <1>2, <1>3, <1>4 DEF Next, Done

LEMMA InitHeld == Init => HeldInv
<1> SUFFICES ASSUME Init PROVE HeldInv
  OBVIOUS
<1>1. \A e \in Edo : Held(e) = {}
  BY DEF Init, Held, HoldsAt, Dumping, Recovering
<1> QED BY <1>1, InitTypes DEF HeldInv, Exclusive, HeldNotReleased

(* At any time a CUDA process is in the hands of at most one freeze-group,    *)
(* for any number of them, any groups and any faults: the driver's refusal of *)
(* a lock is exclusion enough.                                                *)
THEOREM MutualExclusion == Spec => []Exclusive
<1>1. HeldInv => Exclusive
  BY DEF HeldInv
<1> QED BY <1>1, InitHeld, NextHeld, PTL DEF Spec

(* What a freeze-group holds stays stopped until it releases it: no recovery  *)
(* of another, and no late transition of the driver, lets it run.             *)
THEOREM HeldStaysStopped == Spec => []HeldStopped
<1>1. HeldInv => HeldStopped
  BY DEF HeldInv, HeldNotReleased, HeldStopped
<1> QED BY <1>1, InitHeld, NextHeld, PTL DEF Spec

-----------------------------------------------------------------------------
(* The error paths give everything back but the PID whose wait for LOCKED      *)
(* failed, as long as the recovery itself works. Whatever comes before it may  *)
(* fail: load, the calls, each of the three waits, the dump, the manifest.     *)
(* When the recovery fails, is killed or meets a member that has died,         *)
(* recover_many leaves the rest of its list stopped; a late transition may     *)
(* come after the call was given up; and of two groups that share a process,   *)
(* one can lock it while the other, having let it go, still waits to see it    *)
(* run.                                                                        *)

RollbackWorks ==
  /\ ~AsyncDriver
  /\ Faulty \cap {"restore", "unlock", "state", "driver", "die", "kill"} = {}

DisjointGroups == \A e, f \in Edo : e # f => Members(e) \cap Members(f) = {}

(* What a call has left, where the next step relies on it.                     *)
StateBy(e) ==
  /\ pc[e] \in {"waitLocked", "recWaitLocked", "recUnlock"} => cuda[Cur(e)] = "Locked"
  /\ pc[e] = "recRestore" => cuda[Cur(e)] = "Checkpointed"
  /\ pc[e] = "recWaitRunning" => cuda[Cur(e)] = "Running"

Calm == \A p \in Pid : alive[p] /\ pending[p] = "None" /\ cuda[p] # "Failed"

StrandInv == HeldInv /\ Calm /\ (\A e \in Edo : StateBy(e)) /\ RolledBack

(* With such faults the driver answers at once, and a wait for the state that  *)
(* a process is in does not fail.                                              *)
LEMMA NoSurprise ==
  ASSUME RollbackWorks, Calm, NEW p \in Pid
  PROVE  /\ \A from, to : Call(p, from, to) =>
              /\ cuda[p] = from /\ cuda' = [cuda EXCEPT ![p] = to]
              /\ pending' = pending /\ alive' = alive
         /\ ~StateFails(p)
         /\ \A s : (WaitFails(p, s) <=> cuda[p] # s) /\ (Sees(p, s) <=> cuda[p] = s)
         /\ \A s : \A op \in {"restore", "unlock"} : Refused(p, s, op) => cuda[p] # s
         /\ \A s, op : Refused(p, s, op) => UNCHANGED driverVars
BY DEF RollbackWorks, Calm, Call, WaitFails, StateFails, Refused, Ready, Sees

(* A command that holds its current PID, or has just let it run.               *)
LEMMA CurrentHeld ==
  ASSUME TypeInv, NEW e \in Edo
  PROVE  /\ Cur(e) \in Pid /\ Cur(e) \in Members(e)
         /\ pc[e] \in {"waitLocked"} \cup (Recovering \ {"recWaitRunning"}) => Cur(e) \in Held(e)
<1>1. /\ idx[e] \in 1..Len(Group[e]) /\ idx[e] \in Nat /\ locked[e] \in Nat
      /\ LoopAt(e, pc[e], idx[e], locked[e])
  BY DEF TypeInv, EdoTypeOK, LoopInv
<1>2. pc[e] \in {"waitLocked"} \cup (Recovering \ {"recWaitRunning"}) => HoldsAt(e, idx[e])
  BY <1>1 DEF HoldsAt, LoopAt, Recovering
<1> QED BY <1>1, <1>2, GroupFacts DEF Held, Cur, Members

(* Only an unlock that succeeds, or a failed wait for LOCKED, drops a PID; a   *)
(* granted lock adds one.                                                      *)
LEMMA OwnPositions ==
  ASSUME RollbackWorks, StrandInv, NEW e \in Edo, EdoStep(e), NEW i \in 1..Len(Group[e]),
         HoldsAt(e, i)
  PROVE  \/ HoldsAt(e, i)'
         \/ Unlock(Cur(e)) /\ i = idx[e]
         \/ LeftLocked(e, Group[e][i])'
<1>1. /\ idx[e] \in Nat /\ locked[e] \in Nat /\ Len(Group[e]) \in Nat
      /\ idx[e] \in 1..Len(Group[e]) /\ locked[e] <= Len(Group[e])
      /\ LoopAt(e, pc[e], idx[e], locked[e])
      /\ pc \in [Edo -> Label] /\ idx \in [Edo -> Nat] /\ locked \in [Edo -> Nat]
      /\ Cur(e) \in Pid /\ StateBy(e)
  BY GroupFacts, CurrentHeld DEF StrandInv, HeldInv, TypeInv, EdoTypeOK, LoopInv
<1>2. /\ ~StateFails(Cur(e))
      /\ \A s : (WaitFails(Cur(e), s) <=> cuda[Cur(e)] # s) /\ (Sees(Cur(e), s) <=> cuda[Cur(e)] = s)
      /\ \A s : \A op \in {"restore", "unlock"} : Refused(Cur(e), s, op) => cuda[Cur(e)] # s
      /\ cuda[Cur(e)] # "Failed"
  BY <1>1, NoSurprise DEF StrandInv, Calm
<1> USE <1>1 DEF HoldsAt, LoopAt, Recovering, Dumping
<1>3. CASE Start(e) \/ WaitRunning(e) \/ Write(e) \/ Fill(e) \/ Chmod(e)
  BY <1>3 DEF Start, WaitRunning, Write, Fill, Chmod
<1>4. CASE LockCall(e)
  BY <1>4 DEF LockCall, Goto, Abort, Recover
<1>5. CASE WaitLocked(e)
  <2>1. pc[e] = "waitLocked" /\ idx[e] = locked[e] + 1 /\ i <= locked[e] + 1
    BY <1>5 DEF WaitLocked
  <2>2. CASE Sees(Cur(e), "Locked") /\ locked' = [locked EXCEPT ![e] = @ + 1]
             /\ NextRound(e, Len(Group[e]), "lock", "checkpoint")
    BY <2>1, <2>2 DEF NextRound
  <2>3. CASE "pollLocked" \in Faulty /\ Abort(e) /\ UNCHANGED driverVars
    <3>1. /\ pc'[e] = IF locked[e] = 0 THEN "err" ELSE "recState"
          /\ idx'[e] = 1 /\ locked' = locked /\ cuda' = cuda
      BY <2>3 DEF Abort, Recover, driverVars
    <3>2. goal'[e] = "abort"
      BY <2>3 DEF Abort, Recover, StrandInv, HeldInv, TypeInv, EdoTypeOK
    <3>3. CASE i <= locked[e]
      BY <3>1, <3>3
    <3>4. CASE i = locked[e] + 1
      <4>1. cuda[Group[e][i]] = "Locked"
        BY <2>1, <3>4 DEF StateBy, Cur
      <4> QED BY <2>1, <2>3, <3>1, <3>2, <3>4, <4>1 DEF LeftLocked
    <3> QED BY <2>1, <3>3, <3>4
  <2> QED BY <1>2, <1>5, <2>1, <2>2, <2>3 DEF WaitLocked, StateBy
<1>6. CASE CheckpointCall(e)
  BY <1>6 DEF CheckpointCall, Goto, Abort, Recover
<1>7. CASE WaitCheckpointed(e)
  BY <1>7 DEF WaitCheckpointed, NextRound, Abort, Recover
<1>8. CASE Prepare(e) \/ Create(e) \/ Clear(e)
  BY <1>8 DEF Prepare, Create, Clear, Goto, Abort, Recover
<1>9. CASE Criu(e)
  <2>1. \E g : Recover(e, g) /\ locked' = locked
    BY <1>9 DEF Criu, Abort
  <2> QED BY <1>9, <2>1 DEF Criu, Recover
<1>10. CASE RecoverState(e)
  <2>1. cuda[Cur(e)] # "Running"
    BY <1>1, <1>10, CurrentHeld DEF RecoverState, StrandInv, HeldInv, HeldNotReleased, Calm
  <2> QED BY <1>2, <1>10, <2>1 DEF RecoverState, Goto
<1>11. CASE RecoverRestore(e) \/ RecoverWaitLocked(e)
  BY <1>2, <1>11 DEF RecoverRestore, RecoverWaitLocked, StateBy, Goto
<1>12. CASE RecoverUnlock(e)
  BY <1>2, <1>12 DEF RecoverUnlock, StateBy, Goto
<1>13. CASE RecoverWaitRunning(e)
  BY <1>2, <1>13 DEF RecoverWaitRunning, StateBy, NextRound
<1> QED BY <1>3, <1>4, <1>5, <1>6, <1>7, <1>8, <1>9, <1>10, <1>11, <1>12, <1>13 DEF EdoStep

LEMMA OwnState ==
  ASSUME RollbackWorks, StrandInv, NEW e \in Edo, EdoStep(e)
  PROVE  StateBy(e)'
<1>1. /\ pc \in [Edo -> Label] /\ idx \in [Edo -> Nat] /\ cuda \in [Pid -> ProcessState]
      /\ Cur(e) \in Pid /\ StateBy(e)
      /\ \A from, to : Call(Cur(e), from, to) => cuda' = [cuda EXCEPT ![Cur(e)] = to]
  BY CurrentHeld, NoSurprise DEF StrandInv, HeldInv, TypeInv, EdoTypeOK, DriverTypeOK
<1> USE <1>1 DEF StateBy, Cur, Goto
<1>2. CASE Start(e) \/ WaitRunning(e) \/ Prepare(e) \/ Create(e) \/ Clear(e)
  BY <1>2 DEF Start, WaitRunning, Prepare, Create, Clear, NextRound, Abort, Recover
<1>3. CASE LockCall(e)
  BY <1>3 DEF LockCall, Lock, Abort, Recover
<1>4. CASE WaitLocked(e) \/ WaitCheckpointed(e)
  BY <1>4 DEF WaitLocked, WaitCheckpointed, NextRound, Abort, Recover
<1>5. CASE CheckpointCall(e) \/ Criu(e)
  BY <1>5 DEF CheckpointCall, Criu, Abort, Recover
<1>6. CASE RecoverState(e) \/ RecoverWaitLocked(e)
  BY <1>6 DEF RecoverState, RecoverWaitLocked, RecoverFails, Sees, driverVars
<1>7. CASE RecoverRestore(e)
  BY <1>7 DEF RecoverRestore, RecoverFails, Restore
<1>8. CASE RecoverUnlock(e)
  BY <1>8 DEF RecoverUnlock, RecoverFails, Unlock
<1>9. CASE RecoverWaitRunning(e)
  BY <1>9 DEF RecoverWaitRunning, NextRound, RecoverFails, AfterRecovery
<1>10. CASE Write(e) \/ Fill(e) \/ Chmod(e)
  BY <1>10 DEF Write, Fill, Chmod
<1> QED BY <1>2, <1>3, <1>4, <1>5, <1>6, <1>7, <1>8, <1>9, <1>10 DEF EdoStep

(* A recovery that was called on an error stays one until it ends.             *)
LEMMA StaysGivenUp ==
  ASSUME TypeInv, NEW e \in Edo, EdoStep(e),
         pc[e] \in Recovering \cup {"err"}, goal[e] = "abort"
  PROVE  /\ pc'[e] \in Recovering \cup {"err"} /\ goal'[e] = "abort"
         /\ locked' = locked /\ idx[e] <= locked[e]
<1> USE DEF TypeInv, EdoTypeOK, LoopInv, LoopAt, Recovering
<1>1. CASE RecoverState(e) \/ RecoverWaitLocked(e)
  BY <1>1 DEF RecoverState, RecoverWaitLocked, RecoverFails, Goto
<1>2. CASE RecoverRestore(e) \/ RecoverUnlock(e)
  BY <1>2 DEF RecoverRestore, RecoverUnlock, RecoverFails, Goto
<1>3. CASE RecoverWaitRunning(e)
  BY <1>3 DEF RecoverWaitRunning, NextRound, AfterRecovery, RecoverFails, Goto
<1>4. ~(Start(e) \/ WaitRunning(e) \/ LockCall(e) \/ WaitLocked(e) \/ CheckpointCall(e)
        \/ WaitCheckpointed(e) \/ Prepare(e) \/ Create(e) \/ Clear(e) \/ Criu(e)
        \/ Write(e) \/ Fill(e) \/ Chmod(e))
  BY DEF Start, WaitRunning, LockCall, WaitLocked, CheckpointCall, WaitCheckpointed,
         Prepare, Create, Clear, Criu, Write, Fill, Chmod
<1> QED BY <1>1, <1>2, <1>3, <1>4 DEF EdoStep

LEMMA NextStrand ==
  ASSUME RollbackWorks, DisjointGroups
  PROVE  StrandInv /\ [Next]_vars => StrandInv'
<1> SUFFICES ASSUME StrandInv, [Next]_vars
             PROVE  Calm' /\ (\A e \in Edo : StateBy(e)') /\ RolledBack'
  BY NextHeld DEF StrandInv
<1>1. TypeInv /\ Calm /\ RolledBack /\ \A e \in Edo : StateBy(e)
  BY DEF StrandInv, HeldInv
<1>2. ASSUME NEW e \in Edo, EdoStep(e)
      PROVE  Calm' /\ (\A f \in Edo : StateBy(f)') /\ RolledBack'
  <2>1. /\ Cur(e) \in Pid /\ Cur(e) \in Members(e) /\ Calls(e)
        /\ cuda \in [Pid -> ProcessState]
    BY <1>1, <1>2, CurrentHeld, EdoStepCalls DEF TypeInv, DriverTypeOK
  <2>2. \/ UNCHANGED driverVars
        \/ \E from, to \in {"Running", "Locked", "Checkpointed"} :
              /\ cuda[Cur(e)] = from /\ cuda' = [cuda EXCEPT ![Cur(e)] = to]
              /\ pending' = pending /\ alive' = alive
              /\ from = "Running" => pc[e] = "lock" /\ Goto(e, "waitLocked") /\ UNCHANGED locked
    BY <1>1, <2>1, NoSurprise DEF Calls, Lock, Checkpoint, Restore, Unlock
  <2>3. Calm'
    BY <1>1, <2>1, <2>2 DEF Calm, driverVars
  <2>4. ASSUME NEW f \in Edo, f # e PROVE StateBy(f)'
    <3>1. Cur(f) \in Pid /\ Cur(f) # Cur(e) /\ pc'[f] = pc[f] /\ Cur(f)' = Cur(f)
      BY <1>1, <1>2, <2>1, <2>4, CurrentHeld, EdoStepOthers DEF DisjointGroups, Cur
    <3>2. cuda'[Cur(f)] = cuda[Cur(f)]
      BY <2>1, <2>2, <3>1 DEF driverVars
    <3> QED BY <1>1, <3>1, <3>2 DEF StateBy
  <2>5. ASSUME NEW p \in Pid, alive'[p], cuda'[p] # "Running"
        PROVE  \E f \in Edo : p \in Held(f)' \/ LeftLocked(f, p)'
    <3>1. CASE cuda[p] # "Running"
      <4>1. PICK f \in Edo : p \in Held(f) \/ LeftLocked(f, p)
        BY <1>1, <2>2, <2>5, <3>1 DEF RolledBack, driverVars
      <4>2. CASE f # e /\ p \in Held(f)
        BY <1>1, <1>2, <4>2, EdoStepFrame
      <4>4. CASE LeftLocked(f, p)
        <5>1. locked[f] \in Nat /\ locked[f] + 1 \in 1..Len(Group[f])
          BY <1>1, <4>4, GroupFacts DEF LeftLocked, TypeInv, EdoTypeOK
        <5>2. p \in Members(f)
          BY <4>4, <5>1 DEF LeftLocked, Members
        <5>3. /\ Cur(e) # p /\ locked'[f] = locked[f] /\ goal'[f] = "abort"
              /\ pc'[f] \in Recovering \cup {"err"}
          <6>1. CASE f # e
            BY <1>1, <1>2, <2>1, <4>4, <5>2, <6>1, EdoStepOthers DEF DisjointGroups, LeftLocked
          <6>2. CASE f = e
            <7>1. /\ pc'[e] \in Recovering \cup {"err"} /\ goal'[e] = "abort"
                  /\ locked' = locked /\ idx[e] <= locked[e]
              BY <1>1, <1>2, <4>4, <6>2, StaysGivenUp DEF LeftLocked
            <7>2. idx[e] \in 1..Len(Group[e]) /\ idx[e] # locked[e] + 1
              BY <1>1, <5>1, <6>2, <7>1 DEF TypeInv, EdoTypeOK
            <7>3. Group[e][idx[e]] # Group[e][locked[e] + 1]
              BY <5>1, <6>2, <7>2, GroupFacts
            <7> QED BY <4>4, <6>2, <7>1, <7>3 DEF LeftLocked, Cur
          <6> QED BY <6>1, <6>2
        <5>4. cuda'[p] = cuda[p]
          BY <2>1, <2>2, <5>3 DEF driverVars
        <5> QED BY <4>4, <5>3, <5>4 DEF LeftLocked
      <4>3. CASE f = e /\ p \in Held(f)
        <5>1. PICK i \in 1..Len(Group[e]) : HoldsAt(e, i) /\ p = Group[e][i]
          BY <4>1, <4>3 DEF Held
        <5>2. Unlock(Cur(e)) => cuda'[Cur(e)] = "Running"
          BY <1>1, <2>1, NoSurprise DEF Unlock
        <5>3. ~(Unlock(Cur(e)) /\ i = idx[e])
          BY <2>5, <5>1, <5>2 DEF Cur
        <5> QED BY <1>2, <5>1, <5>3, OwnPositions DEF Held
      <4> QED BY <4>1, <4>2, <4>3, <4>4
    <3>2. CASE cuda[p] = "Running"
      <4>1. p = Cur(e) /\ pc[e] = "lock" /\ Goto(e, "waitLocked") /\ UNCHANGED locked
        BY <2>1, <2>2, <2>5, <3>2 DEF driverVars
      <4>2. idx[e] \in 1..Len(Group[e]) /\ idx[e] = locked[e] + 1 /\ pc \in [Edo -> Label]
        BY <1>1, <4>1 DEF TypeInv, EdoTypeOK, LoopInv, LoopAt
      <4>3. pc'[e] = "waitLocked" /\ idx'[e] = idx[e] /\ locked'[e] = locked[e]
        BY <4>1, <4>2 DEF Goto
      <4>4. HoldsAt(e, idx[e])'
        BY <4>2, <4>3 DEF HoldsAt
      <4> QED BY <4>1, <4>2, <4>3, <4>4 DEF Held, Cur
    <3> QED BY <3>1, <3>2
  <2> QED BY <1>2, <2>3, <2>4, <2>5, OwnState DEF RolledBack
<1>3. ~ \E e \in Edo : Kill(e)
  BY DEF RollbackWorks, Kill
<1>4. ~ \E p \in Pid : TargetStep(p)
  BY <1>1 DEF RollbackWorks, Calm, TargetStep, Complete, Break, Die
<1>5. CASE UNCHANGED vars
  BY <1>1, <1>5 DEF vars, driverVars, edoVars, Calm, StateBy, Cur, RolledBack, LeftLocked,
                 Held, HoldsAt
<1> QED BY <1>2, <1>3, <1>4, <1>5 DEF Next, Done

LEMMA InitStrand == Init => StrandInv
<1> SUFFICES ASSUME Init PROVE StrandInv
  OBVIOUS
<1> QED BY InitHeld DEF StrandInv, Init, DriverInit, Calm, StateBy, RolledBack

(* A freeze-group that fails gives back what it had stopped, whatever fails of *)
(* load, the driver's calls on the way down, the three waits, the dump and the *)
(* manifest: a process that is stopped has somebody who is going to release    *)
(* it. The one exception is the member whose wait for LOCKED failed: it is not *)
(* in `locked' yet and stays LOCKED (main.rs:295-303).                         *)
THEOREM FailureGivesBack ==
  ASSUME RollbackWorks, DisjointGroups
  PROVE  Spec => []RolledBack
<1>1. StrandInv => RolledBack
  BY DEF StrandInv
<1> QED BY <1>1, InitStrand, NextStrand, PTL DEF Spec

=============================================================================
