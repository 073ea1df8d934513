------------------------ MODULE ProcessRegistryProofs -----------------------
(* What holds of ProcessRegistry for any PIDs, runs and resolvers: a name     *)
(* never resolves to another process than the one its run started, and is not *)
(* refused while this one lives.                                              *)
EXTENDS ProcessRegistry, TLAPS

Started == {"sleep", "stat", "exe", "cmdline", "open", "fill"}
Compared == {"stat", "exe", "cmdline", "compare"}

(* Runs and resolvers have their own labels.                                  *)
LabelInv ==
  /\ \A e \in Run : pc[e] \in RunLabel \cup Reading \cup Ended
  /\ \A r \in Resolver : pc[r] \in ResolverLabel \cup Reading \cup {"ok", "err"}

(* A run that has not ended has its child in the process table, alive or a    *)
(* zombie, so that nobody else can have the PID; and no other process is its. *)
ChildInv ==
  \A e \in Run :
    /\ pc[e] = "spawn" => child[e] = Nobody
    /\ pc[e] \in Started \cup {"ok"} => child[e] \in Pid
    /\ pc[e] \in Started => proc[child[e]].by = e
    /\ \A p \in Pid : proc[p].by = e => child[e] = p

(* Someone says that a process of `by' began at `born': the process itself,   *)
(* what its run has read of it, a record, or a resolver of what it met.       *)
ByProcess(by, born) == \E p \in Pid : proc[p] # NoProcess /\ proc[p].by = by /\ proc[p].born = born
ByRun(by, born)     == by \in Run /\ read[by].born = born
ByFile(by, born)    == \E n \in Name : file[n] \in Written /\ file[n].by = by /\ file[n].id.born = born
ByRecord(by, born)  == \E r \in Resolver : rec[r] \in Written /\ rec[r].by = by /\ rec[r].id.born = born
ByReader(by, born)  == \E r \in Resolver : met[r] = by /\ read[r].born = born

Claimed(by, born) ==
  \/ ByProcess(by, born) \/ ByRun(by, born) \/ ByFile(by, born)
  \/ ByRecord(by, born) \/ ByReader(by, born)

(* Those who say it of the same start time say it of the same run.            *)
ClaimInv ==
  \A born \in 1..MaxStarts : \A f \in Run \cup {"node"} :
    Claimed(f, born) =>
      /\ born <= starts
      /\ \A g \in Run \cup {"node"} : Claimed(g, born) => f = g

(* As far as it has been read, this is the identity of the process of e, if   *)
(* it lives and e is prompt.                                                  *)
Fits(e, id, l) ==
  Lives(e) /\ e \in Prompt =>
    /\ proc[child[e]].program = App[e]
    /\ l # "stat" => id.born = proc[child[e]].born
    /\ l \notin {"stat", "exe"} => id.exe = App[e]
    /\ l \notin {"stat", "exe", "cmdline"} => id.cmdline = App[e]

IsRecordOf(c, e) == c.by = e /\ c.pid = child[e] /\ Fits(e, c.id, "compare")

ReadInv ==
  \A e \in Run :
    /\ pc[e] \in {"stat", "exe", "cmdline", "open", "fill"} => Fits(e, read[e], pc[e])
    /\ pc[e] \in {"exe", "cmdline", "open", "fill"} => read[e].born # 0

(* While a run is the sole one to have opened its record, nobody else fills   *)
(* it, and if it has succeeded the record is of its process.                  *)
FileInv ==
  \A n \in Name : \A e \in Run : sole[n] = e =>
    /\ RunName[e] = n /\ pc[e] \in {"fill"} \cup Ended
    /\ \A f \in Run \ {e} : RunName[f] = n => pc[f] # "fill"
    /\ pc[e] = "fill" => file[n] = Torn
    /\ pc[e] = "ok" => file[n] \in Written /\ IsRecordOf(file[n], e)

ResolverInv ==
  \A r \in Resolver :
    /\ \A e \in owed[r] : pc[e] = "ok"
    /\ pc[r] = "record" => owed[r] = {} /\ read[r] = NoIdentity
    /\ pc[r] \in Compared =>
         /\ rec[r] \in Record /\ (rec[r].by # Nobody => rec[r] \in Written)
         /\ \A e \in owed[r] : IsRecordOf(rec[r], e) /\ Fits(e, read[r], pc[r])
    /\ pc[r] \in {"exe", "cmdline", "compare"} => read[r].born # 0 /\ met[r] # Nobody

RegistryInv ==
  /\ TypeOK /\ LabelInv /\ ChildInv /\ ClaimInv /\ ReadInv /\ FileInv /\ ResolverInv
  /\ NoImpostor /\ StaysResolvable

-----------------------------------------------------------------------------
(* The table.                                                                *)

Entry == [by : Run \cup {"node"}, born : 1..MaxStarts, program : Program, zombie : BOOLEAN]

LEMMA EntryExecs ==
  ASSUME NEW x \in Entry, NEW g \in Program, NEW y, y = [x EXCEPT !.program = g]
  PROVE  y \in Entry /\ y.by = x.by /\ y.born = x.born /\ y.program = g
BY DEF Entry

LEMMA EntryExits ==
  ASSUME NEW x \in Entry, NEW y, y = [x EXCEPT !.zombie = TRUE]
  PROVE  y \in Entry /\ y.by = x.by /\ y.born = x.born /\ y.program = x.program /\ y.zombie = TRUE
BY DEF Entry

LEMMA ProcessFacts ==
  ASSUME TypeOK, NEW p \in Pid
  PROVE  /\ proc[p] = NoProcess <=> proc[p].by = Nobody
         /\ proc[p] # NoProcess =>
              /\ proc[p] \in Entry
              /\ proc[p].by \in Run \cup {"node"}
              /\ proc[p].born \in 1..MaxStarts
              /\ proc[p].program \in Program
              /\ proc[p].zombie \in BOOLEAN
BY RegistryAssumption DEF TypeOK, Process, NoProcess, Nobody, Entry

LEMMA RecordFacts ==
  ASSUME TypeOK
  PROVE  /\ \A t \in Run \cup Resolver : read[t] \in Identity
         /\ \A n \in Name : file[n] \notin {NoRecord, Torn} => file[n] \in Written
         /\ \A c \in Record : c.by \in Run \cup {Nobody} /\ c.pid \in Pid /\ c.id \in Identity
         /\ Written \subseteq Record
         /\ NoRecord \notin Written /\ Torn \notin Written
         /\ \A i \in Identity : i.born \in 0..MaxStarts
BY RegistryAssumption DEF TypeOK, Record, Written, Identity, NoRecord, Torn, Nobody

LEMMA InitRegistry == Init => RegistryInv
<1> SUFFICES ASSUME Init PROVE RegistryInv
  OBVIOUS
<1> USE RegistryAssumption DEF Init
<1>1. NoIdentity \in Identity /\ NoIdentity.born = 0
  BY DEF NoIdentity, Identity
<1>2. TypeOK
  BY <1>1 DEF TypeOK, Process, RunLabel, ResolverLabel
<1>3. LabelInv
  BY DEF LabelInv, RunLabel, ResolverLabel
<1>4. ChildInv
  BY DEF ChildInv, Started, NoProcess, Nobody
<1>5. ClaimInv
  <2>1. ASSUME NEW f \in Run \cup {"node"}, NEW born \in 1..MaxStarts PROVE ~Claimed(f, born)
    <3>1. NoRecord \notin Written
      BY <1>2, RecordFacts
    <3> QED BY <1>1, <3>1 DEF Claimed, ByProcess, ByRun, ByFile, ByRecord, ByReader, Nobody
  <2> QED BY <2>1 DEF ClaimInv
<1>6. ReadInv
  BY DEF ReadInv
<1>7. FileInv
  BY DEF FileInv
<1>8. ResolverInv
  BY DEF ResolverInv, Compared
<1>9. NoImpostor /\ StaysResolvable
  BY DEF NoImpostor, StaysResolvable
<1> QED BY <1>2, <1>3, <1>4, <1>5, <1>6, <1>7, <1>8, <1>9 DEF RegistryInv

(* The steps by what they do to the process table.                           *)
LEMMA TableSteps ==
  ASSUME RegistryInv, Next
  PROVE  \/ \E p \in Pid, g \in Program : Begin(p, "node", g)
         \/ \E p \in Pid, e \in Run : Begin(p, e, Wrapper[e]) /\ child[e] = Nobody
                                      /\ Spawn(e) /\ child' = [child EXCEPT ![e] = p]
         \/ \E e \in Run : Exec(e)
         \/ \E p \in Pid : Exit(p) \/ Reap(p)
         \/ UNCHANGED <<proc, starts>>
BY DEF RegistryInv, ChildInv, Next, NodeStarts, Spawn, Program, Kill, Sleep, Identify, Open, Fill, FindByNumber,
       FindByName, ReadIdentity, Compare, Again

(* The process of a run that has begun is no other than before, and what it   *)
(* execs is the application.                                                  *)
LEMMA LivesOn ==
  ASSUME RegistryInv, Next, NEW e \in Run, child[e] \in Pid
  PROVE  /\ child'[e] = child[e]
         /\ Lives(e)' => /\ Lives(e)
                         /\ proc'[child[e]].born = proc[child[e]].born
                         /\ proc'[child[e]].program \in {proc[child[e]].program, App[e]}
<1>1. child'[e] = child[e]
  <2>1. ASSUME NEW f \in Run, Spawn(f) PROVE child'[e] = child[e]
    BY <2>1, RegistryAssumption DEF Spawn, RegistryInv, ChildInv, TypeOK
  <2>2. CASE UNCHANGED child
    BY <2>2
  <2> QED BY <2>1, <2>2 DEF Next, NodeStarts, Exec, Exit, Reap, Kill, Sleep, Identify, Open,
         Fill, FindByNumber, FindByName, ReadIdentity, Compare, Again, runVars
<1>2. ASSUME Lives(e)'
      PROVE  /\ Lives(e)
             /\ proc'[child[e]].born = proc[child[e]].born
             /\ proc'[child[e]].program \in {proc[child[e]].program, App[e]}
  <2> DEFINE p == child[e]
  <2>1. proc'[p] # NoProcess /\ proc'[p].by = e /\ ~proc'[p].zombie
    BY <1>1, <1>2 DEF Lives, Runs
  <2>2. proc[p] # NoProcess <=> proc[p].by # Nobody
    BY ProcessFacts DEF RegistryInv
  <2>3. proc \in [Pid -> Process] /\ e \notin {Nobody, "node"}
    BY RegistryAssumption DEF RegistryInv, TypeOK
  <2>4. ASSUME NEW q \in Pid, NEW f \in Run \cup {"node"}, NEW g, Begin(q, f, g), f = e => child[e] = Nobody
        PROVE  Lives(e) /\ proc'[p] = proc[p]
    BY <2>1, <2>2, <2>3, <2>4, RegistryAssumption DEF Begin, Lives, Runs
  <2>5. ASSUME NEW f \in Run, Exec(f)
        PROVE  /\ Lives(e)
               /\ proc'[p].born = proc[p].born
               /\ proc'[p].program \in {proc[p].program, App[e]}
    <3>1. child[f] \in Pid /\ proc[child[f]] # NoProcess /\ proc[child[f]].by = f
      BY <2>5 DEF Exec, Lives, Runs, RegistryInv, TypeOK
    <3>2. proc[child[f]] \in Entry /\ App[f] \in Program
      BY <3>1, ProcessFacts DEF RegistryInv, Program
    <3>3. CASE child[f] # p
      BY <2>1, <2>2, <2>3, <2>5, <3>3, RegistryAssumption DEF Exec, Lives, Runs
    <3>4. CASE child[f] = p
      <4>1. proc'[p] = [proc[p] EXCEPT !.program = App[f]]
        BY <2>3, <2>5, <3>4 DEF Exec
      <4>2. proc'[p].by = f /\ proc'[p].born = proc[p].born /\ proc'[p].program = App[f]
        <5>1. proc[p] \in Entry /\ proc[p].by = f
          BY <3>1, <3>2, <3>4
        <5> QED BY <3>2, <4>1, <5>1, EntryExecs
      <4>3. f = e
        BY <2>1, <4>2
      <4> QED BY <2>5, <4>2, <4>3 DEF Exec
    <3> QED BY <3>3, <3>4
  <2>6. ASSUME NEW q \in Pid, Exit(q) \/ Reap(q)
        PROVE  Lives(e) /\ proc'[p] = proc[p]
    <3>1. CASE q # p
      BY <2>1, <2>2, <2>3, <2>6, <3>1, RegistryAssumption DEF Exit, Reap, Lives, Runs
    <3>2. CASE q = p
      <4>1. proc[p] # NoProcess
        BY <2>6, <3>2 DEF Exit, Reap, Runs
      <4>2. proc[p] \in Entry
        BY <4>1, ProcessFacts DEF RegistryInv
      <4>3. proc'[p] = [proc[p] EXCEPT !.zombie = TRUE]
        BY <2>1, <2>3, <2>6, <3>2 DEF Exit, Reap
      <4>4. proc'[p].zombie
        BY <4>2, <4>3, EntryExits
      <4> QED BY <2>1, <4>4
    <3> QED BY <3>1, <3>2
  <2>7. CASE UNCHANGED proc
    BY <2>1, <2>7, RegistryAssumption DEF Lives, Runs
  <2> QED
    <3>1. CASE \E q \in Pid, f \in Run : Begin(q, f, Wrapper[f]) /\ child[f] = Nobody
      BY <2>4, <3>1
    <3>2. CASE \E q \in Pid, g \in Program : Begin(q, "node", g)
      BY <2>3, <2>4, <3>2
    <3> QED BY <2>1, <2>5, <2>6, <2>7, <3>1, <3>2, TableSteps
<1> QED BY <1>1, <1>2

(* What a process shows of itself, and when its run can rely on it.           *)
LEMMA ShownTypes ==
  ASSUME TypeOK, NEW p \in Pid
  PROVE  Shown(p) \in Program \cup {Unread}
BY ProcessFacts DEF Shown, Runs

LEMMA StepTable ==
  ASSUME RegistryInv, Next
  PROVE  proc' \in [Pid -> Process] /\ starts' \in 0..MaxStarts
<1>1. TypeOK /\ proc \in [Pid -> Process] /\ starts \in 0..MaxStarts
  BY DEF RegistryInv, TypeOK
<1>2. Entry \subseteq Process /\ NoProcess \in Process
  BY DEF Entry, Process
<1>3. ASSUME NEW q \in Pid, NEW f \in Run \cup {"node"}, NEW g \in Program, Begin(q, f, g)
      PROVE  proc' \in [Pid -> Process] /\ starts' \in 0..MaxStarts
  <2>1. starts + 1 \in 1..MaxStarts
    BY <1>1, <1>3, RegistryAssumption DEF Begin
  <2>2. [by |-> f, born |-> starts + 1, program |-> g, zombie |-> FALSE] \in Entry
    BY <2>1 DEF Entry
  <2> QED BY <1>1, <1>2, <1>3, <2>1, <2>2, RegistryAssumption DEF Begin
<1>4. ASSUME NEW e \in Run, Exec(e)
      PROVE  proc' \in [Pid -> Process] /\ starts' \in 0..MaxStarts
  <2>1. child[e] \in Pid /\ proc[child[e]] # NoProcess /\ App[e] \in Program
    BY <1>4 DEF Exec, Lives, Runs, RegistryInv, TypeOK, Program
  <2>2. proc[child[e]] \in Entry
    BY <1>1, <2>1, ProcessFacts
  <2>3. [proc[child[e]] EXCEPT !.program = App[e]] \in Process
    BY <1>2, <2>1, <2>2, EntryExecs
  <2> QED BY <1>1, <1>4, <2>1, <2>3 DEF Exec
<1>5. ASSUME NEW q \in Pid, Exit(q) \/ Reap(q)
      PROVE  proc' \in [Pid -> Process] /\ starts' \in 0..MaxStarts
  <2>1. proc[q] \in Entry
    BY <1>1, <1>5, ProcessFacts DEF Exit, Reap, Runs
  <2>2. [proc[q] EXCEPT !.zombie = TRUE] \in Process
    BY <1>2, <2>1, EntryExits
  <2> QED BY <1>1, <1>2, <1>5, <2>2 DEF Exit, Reap
<1>6. \A e \in Run : Wrapper[e] \in Program
  BY DEF Program
<1> QED BY <1>1, <1>3, <1>4, <1>5, <1>6, TableSteps

(* A run that reads /proc finds its child there, and a resolver has a record. *)
LEMMA StepReads ==
  ASSUME RegistryInv, NEW t \in Run \cup Resolver, NEW p \in Pid, NEW next,
         Stat(t, p, next) \/ Exe(t, p, next) \/ Cmdline(t, p, next)
  PROVE  read' \in [Run \cup Resolver -> Identity]
<1>1. TypeOK /\ read \in [Run \cup Resolver -> Identity]
  BY DEF RegistryInv, TypeOK
<1>2. CASE Stat(t, p, next)
  BY <1>1, <1>2, ProcessFacts, RegistryAssumption DEF Stat, NoIdentity, Identity
<1>3. CASE Exe(t, p, next)
  BY <1>1, <1>3, ShownTypes DEF Exe, Identity
<1>4. CASE Cmdline(t, p, next)
  BY <1>1, <1>4, ShownTypes DEF Cmdline, Identity
<1> QED BY <1>2, <1>3, <1>4

LEMMA NextTypes ==
  ASSUME RegistryInv, Next
  PROVE  TypeOK' /\ LabelInv'
<1>1. /\ pc \in [Run \cup Resolver -> RunLabel \cup ResolverLabel \cup Reading \cup Ended]
      /\ child \in [Run -> Pid \cup {Nobody}]
      /\ file \in [Name -> Written \cup {NoRecord, Torn}]
      /\ sole \in [Name -> Run \cup {Nobody}]
      /\ read \in [Run \cup Resolver -> Identity]
      /\ rec \in [Resolver -> Record \cup {NoRecord}]
      /\ met \in [Resolver -> Run \cup {"node", Nobody}]
      /\ owed \in [Resolver -> SUBSET Run]
      /\ LabelInv /\ NoIdentity \in Identity
  BY RegistryAssumption DEF RegistryInv, TypeOK, NoIdentity, Identity
<1>2. Run \cap Resolver = {} /\ RunName \in [Run -> Name]
  BY RegistryAssumption
<1> DEFINE Rest == /\ pc' \in [Run \cup Resolver -> RunLabel \cup ResolverLabel \cup Reading \cup Ended]
                   /\ child' \in [Run -> Pid \cup {Nobody}]
                   /\ file' \in [Name -> Written \cup {NoRecord, Torn}]
                   /\ sole' \in [Name -> Run \cup {Nobody}]
                   /\ read' \in [Run \cup Resolver -> Identity]
                   /\ rec' \in [Resolver -> Record \cup {NoRecord}]
                   /\ met' \in [Resolver -> Run \cup {"node", Nobody}]
                   /\ owed' \in [Resolver -> SUBSET Run]
                   /\ LabelInv'
<1>3. ASSUME NEW p \in Pid, NodeStarts(p) \/ Exit(p) \/ Reap(p)
      PROVE  Rest
  BY <1>1, <1>3 DEF NodeStarts, Exit, Reap, runVars, resolverVars, LabelInv
<1>4. ASSUME NEW e \in Run, Exec(e) \/ Kill(e) \/ Sleep(e) \/ Spawn(e)
      PROVE  Rest
  BY <1>1, <1>2, <1>4 DEF Exec, Kill, Sleep, Spawn, runVars, resolverVars, LabelInv, Goto,
         RunLabel, ResolverLabel, Reading, Ended
<1>5. ASSUME NEW e \in Run, Identify(e)
      PROVE  Rest
  <2>1. child[e] \in Pid
    BY <1>5 DEF Identify, Stat, Exe, Cmdline, RegistryInv, ChildInv, Started
  <2>2. read' \in [Run \cup Resolver -> Identity]
    BY <1>5, <2>1, StepReads DEF Identify
  <2> QED BY <1>1, <1>2, <1>5, <2>2 DEF Identify, Stat, Exe, Cmdline, runVars, resolverVars,
             LabelInv, Goto, RunLabel, ResolverLabel, Reading, Ended
<1>6. ASSUME NEW e \in Run, Open(e)
      PROVE  Rest
  BY <1>1, <1>2, <1>6 DEF Open, resolverVars, LabelInv, Goto, RunLabel, ResolverLabel, Reading, Ended
<1>7. ASSUME NEW e \in Run, Fill(e)
      PROVE  Rest
  <2>1. [by |-> e, pid |-> child[e], id |-> read[e]] \in Written
    BY <1>1, <1>7 DEF Fill, Written, Record, RegistryInv, ChildInv, ReadInv, Started
  <2> QED BY <1>1, <1>2, <1>7, <2>1
          DEF Fill, resolverVars, LabelInv, Goto, RunLabel, ResolverLabel, Reading, Ended
<1>8. ASSUME NEW r \in Resolver, FindByNumber(r)
      PROVE  Rest
  BY <1>1, <1>2, <1>8 DEF FindByNumber, runVars, LabelInv, Goto, Record, RunLabel, ResolverLabel,
         Reading, Ended
<1>9. ASSUME NEW r \in Resolver, FindByName(r)
      PROVE  Rest
  <2>1. \A n \in Name : Owed(n) \in SUBSET Run
    BY DEF Owed
  <2>2. Written \subseteq Record
    BY DEF Written
  <2> QED BY <1>1, <1>2, <1>9, <2>1, <2>2 DEF FindByName, runVars, LabelInv, Goto, RunLabel,
             ResolverLabel, Reading, Ended
<1>10. ASSUME NEW r \in Resolver, ReadIdentity(r)
      PROVE  Rest
  <2>1. rec[r].pid \in Pid
    <3>1. rec[r] \in Record
      BY <1>10 DEF ReadIdentity, Stat, Exe, Cmdline, RegistryInv, ResolverInv, Compared
    <3> QED BY <3>1 DEF Record
  <2>2. read' \in [Run \cup Resolver -> Identity]
    BY <1>10, <2>1, StepReads DEF ReadIdentity
  <2>3. proc[rec[r].pid].by \in Run \cup {"node", Nobody}
    BY <2>1, ProcessFacts DEF RegistryInv
  <2> QED BY <1>1, <1>2, <1>10, <2>2, <2>3 DEF ReadIdentity, Stat, Exe, Cmdline, runVars,
             LabelInv, Goto, RunLabel, ResolverLabel, Reading, Ended
<1>11. ASSUME NEW r \in Resolver, Compare(r) \/ Again(r)
      PROVE  Rest
  BY <1>1, <1>2, <1>11 DEF Compare, Again, runVars, resolverVars, LabelInv, Goto, RunLabel,
         ResolverLabel, Reading, Ended
<1> QED BY <1>3, <1>4, <1>5, <1>6, <1>7, <1>8, <1>9, <1>10, <1>11, StepTable DEF Next, TypeOK

(* What may happen to the entry of a PID in the table.                        *)
LEMMA StepEntries ==
  ASSUME RegistryInv, Next, NEW p \in Pid
  PROVE  \/ /\ proc'[p] = NoProcess /\ starts' = starts
            /\ \A e \in Run : proc[p].by = e => pc[e] \in Ended
         \/ /\ proc'[p].by = proc[p].by /\ proc'[p].born = proc[p].born
            /\ (proc'[p] = NoProcess <=> proc[p] = NoProcess) /\ starts' \in {starts, starts + 1}
         \/ /\ proc[p] = NoProcess /\ proc'[p].by = "node"
            /\ proc'[p].born = starts + 1 /\ starts' = starts + 1
         \/ \E e \in Run : /\ Spawn(e) /\ child' = [child EXCEPT ![e] = p] /\ proc[p] = NoProcess
                           /\ proc'[p].by = e /\ proc'[p].born = starts + 1
                           /\ starts' = starts + 1
<1>1. TypeOK /\ proc \in [Pid -> Process] /\ NoProcess \notin Entry
  BY RegistryAssumption DEF RegistryInv, TypeOK, NoProcess, Entry, Nobody
<1>2. CASE \E q \in Pid, g \in Program : Begin(q, "node", g)
  BY <1>1, <1>2 DEF Begin
<1>3. ASSUME NEW q \in Pid, NEW e \in Run, Begin(q, e, Wrapper[e]), Spawn(e),
             child' = [child EXCEPT ![e] = q]
      PROVE  \/ proc'[p] = proc[p] /\ starts' = starts + 1
             \/ /\ child' = [child EXCEPT ![e] = p] /\ proc[p] = NoProcess /\ proc'[p].by = e
                /\ proc'[p].born = starts + 1 /\ starts' = starts + 1
  BY <1>1, <1>3 DEF Begin
<1>4. ASSUME NEW e \in Run, Exec(e)
      PROVE  /\ proc'[p].by = proc[p].by /\ proc'[p].born = proc[p].born /\ starts' = starts
             /\ proc'[p] = NoProcess <=> proc[p] = NoProcess
  <2>1. child[e] \in Pid /\ proc[child[e]] # NoProcess /\ App[e] \in Program
    BY <1>4 DEF Exec, Lives, Runs, RegistryInv, TypeOK, Program
  <2>2. CASE child[e] # p
    BY <1>1, <1>4, <2>1, <2>2 DEF Exec
  <2>3. CASE child[e] = p
    <3>1. proc[p] \in Entry
      BY <1>1, <2>1, <2>3, ProcessFacts
    <3>2. proc'[p] = [proc[p] EXCEPT !.program = App[e]]
      BY <1>1, <1>4, <2>3 DEF Exec
    <3>3. proc'[p] \in Entry /\ proc'[p].by = proc[p].by /\ proc'[p].born = proc[p].born
      BY <2>1, <3>1, <3>2, EntryExecs
    <3> QED BY <1>1, <1>4, <3>1, <3>3 DEF Exec
  <2> QED BY <2>2, <2>3
<1>5. ASSUME NEW q \in Pid, Exit(q)
      PROVE  /\ starts' = starts
             /\ \/ proc'[p] = NoProcess /\ \A e \in Run : proc[p].by = e => pc[e] \in Ended
                \/ /\ proc'[p].by = proc[p].by /\ proc'[p].born = proc[p].born
                   /\ proc'[p] = NoProcess <=> proc[p] = NoProcess
  <2>1. CASE q # p
    BY <1>1, <1>5, <2>1 DEF Exit
  <2>2. CASE q = p /\ ~(proc[q].by \in Run /\ pc[proc[q].by] \notin Ended)
    BY <1>1, <1>5, <2>2 DEF Exit
  <2>3. CASE q = p /\ proc[q].by \in Run /\ pc[proc[q].by] \notin Ended
    <3>1. proc[p] \in Entry
      BY <1>1, <1>5, <2>3, ProcessFacts DEF Exit, Runs
    <3>2. proc'[p] = [proc[p] EXCEPT !.zombie = TRUE]
      BY <1>1, <1>5, <2>3 DEF Exit
    <3> QED BY <1>1, <1>5, <3>1, <3>2, EntryExits DEF Exit
  <2> QED BY <2>1, <2>2, <2>3
<1>6. ASSUME NEW q \in Pid, Reap(q)
      PROVE  /\ starts' = starts
             /\ \/ proc'[p] = NoProcess /\ \A e \in Run : proc[p].by = e => pc[e] \in Ended
                \/ proc'[p] = proc[p]
  BY <1>1, <1>6 DEF Reap
<1> QED BY <1>2, <1>3, <1>4, <1>5, <1>6, TableSteps

(* What a step does to a run that it is not of.                              *)
LEMMA StepRuns ==
  ASSUME RegistryInv, Next, NEW e \in Run
  PROVE  \/ Spawn(e) \/ Sleep(e) \/ Identify(e) \/ Open(e) \/ Fill(e) \/ Kill(e)
         \/ pc'[e] = pc[e] /\ child'[e] = child[e] /\ read'[e] = read[e]
<1>1. /\ pc \in [Run \cup Resolver -> RunLabel \cup ResolverLabel \cup Reading \cup Ended]
      /\ child \in [Run -> Pid \cup {Nobody}]
      /\ read \in [Run \cup Resolver -> Identity]
      /\ Run \cap Resolver = {}
  BY RegistryAssumption DEF RegistryInv, TypeOK
<1> DEFINE Same3 == pc'[e] = pc[e] /\ child'[e] = child[e] /\ read'[e] = read[e]
<1>2. ASSUME NEW f \in Run \ {e}, Spawn(f) \/ Sleep(f) \/ Open(f) \/ Fill(f) \/ Kill(f)
      PROVE  Same3
  BY <1>1, <1>2 DEF Spawn, Sleep, Open, Fill, Kill, Goto, runVars
<1>3. ASSUME NEW f \in Run \ {e}, Identify(f)
      PROVE  Same3
  BY <1>1, <1>3 DEF Identify, Stat, Exe, Cmdline, Goto, runVars
<1>4. ASSUME NEW r \in Resolver, FindByNumber(r) \/ FindByName(r) \/ Compare(r) \/ Again(r)
      PROVE  Same3
  BY <1>1, <1>4 DEF FindByNumber, FindByName, Compare, Again, Goto, runVars
<1>5. ASSUME NEW r \in Resolver, ReadIdentity(r)
      PROVE  Same3
  BY <1>1, <1>5 DEF ReadIdentity, Stat, Exe, Cmdline, Goto, runVars
<1>6. CASE UNCHANGED <<pc, child, read>>
  BY <1>6
<1> QED BY <1>2, <1>3, <1>4, <1>5, <1>6 DEF Next, NodeStarts, Exec, Exit, Reap, runVars

LEMMA NextChild ==
  ASSUME RegistryInv, Next
  PROVE  ChildInv'
<1>1. /\ pc \in [Run \cup Resolver -> RunLabel \cup ResolverLabel \cup Reading \cup Ended]
      /\ child \in [Run -> Pid \cup {Nobody}] /\ child' \in [Run -> Pid \cup {Nobody}]
      /\ ChildInv /\ Run \cap Resolver = {} /\ Nobody \notin Pid /\ "node" \notin Run
      /\ Nobody \notin Run
  BY NextTypes, RegistryAssumption DEF RegistryInv, TypeOK
<1>2. ASSUME NEW e \in Run
      PROVE  /\ pc'[e] = "spawn" => child'[e] = Nobody
             /\ pc'[e] \in Started \cup {"ok"} => child'[e] \in Pid
             /\ pc'[e] \in Started =>
                  (pc[e] \in Started /\ child'[e] = child[e]) \/ Spawn(e)
             /\ child'[e] = child[e] \/ Spawn(e)
  <2>1. CASE Spawn(e)
    BY <1>1, <2>1 DEF Spawn, Goto, Started
  <2>2. CASE Identify(e)
    <3>1. pc[e] \in Started
      BY <2>2 DEF Identify, Stat, Exe, Cmdline, Started
    <3>2. child'[e] = child[e] /\ pc'[e] # "spawn"
      BY <1>1, <2>2 DEF Identify, Stat, Exe, Cmdline, Goto, runVars
    <3> QED BY <1>1, <3>1, <3>2 DEF ChildInv
  <2>3. CASE Sleep(e) \/ Open(e) \/ Fill(e) \/ Kill(e)
    BY <1>1, <2>3 DEF Sleep, Open, Fill, Kill, Goto, runVars, Started, ChildInv, Ended
  <2>4. CASE pc'[e] = pc[e] /\ child'[e] = child[e]
    BY <1>1, <2>4 DEF ChildInv
  <2> QED BY <2>1, <2>2, <2>3, <2>4, StepRuns
<1>3. ASSUME NEW e \in Run, NEW p \in Pid, proc'[p].by = e
      PROVE  child'[e] = p
  <2>1. NoProcess.by # e
    BY <1>1 DEF NoProcess
  <2>2. CASE proc[p].by = e
    BY <1>1, <1>2, <2>2 DEF ChildInv, Spawn
  <2>3. CASE Spawn(e) /\ child' = [child EXCEPT ![e] = p]
    BY <1>1, <2>3
  <2> QED BY <1>1, <1>3, <2>1, <2>2, <2>3, StepEntries
<1>4. ASSUME NEW e \in Run, pc'[e] \in Started
      PROVE  proc'[child'[e]].by = e
  <2>1. CASE pc[e] \in Started /\ child'[e] = child[e]
    <3>1. child[e] \in Pid /\ proc[child[e]].by = e /\ pc[e] \notin Ended /\ pc[e] # "spawn"
      BY <1>1, <2>1 DEF ChildInv, Started, Ended
    <3>2. proc[child[e]] # NoProcess
      BY <1>1, <3>1 DEF NoProcess
    <3> QED BY <2>1, <3>1, <3>2, StepEntries
  <2>2. CASE Spawn(e)
    BY <1>1, <1>4, <2>2 DEF Spawn, Begin, Goto, Started, RegistryInv, TypeOK
  <2> QED BY <1>2, <1>4, <2>1, <2>2
<1> QED BY <1>2, <1>3, <1>4 DEF ChildInv

-----------------------------------------------------------------------------
(* Start times tell processes apart.                                         *)

(* What each of the three reads adds to an identity.                         *)
LEMMA ReadEffects ==
  ASSUME TypeOK, NEW t \in Run \cup Resolver, NEW p \in Pid, NEW next
  PROVE  /\ Stat(t, p, next) =>
              \/ pc'[t] = "err" /\ proc[p] = NoProcess /\ read' = read
              \/ /\ pc[t] = "stat" /\ pc'[t] = next /\ proc[p] # NoProcess
                 /\ read'[t].born = proc[p].born
         /\ Exe(t, p, next) =>
              /\ pc[t] = "exe" /\ pc'[t] = next /\ read'[t].born = read[t].born
              /\ read'[t].exe = Shown(p)
         /\ Cmdline(t, p, next) =>
              /\ pc[t] = "cmdline" /\ pc'[t] = next /\ read'[t].born = read[t].born
              /\ read'[t].exe = read[t].exe /\ read'[t].cmdline = Shown(p)
         /\ Stat(t, p, next) \/ Exe(t, p, next) \/ Cmdline(t, p, next) =>
              \A u \in (Run \cup Resolver) \ {t} : read'[u] = read[u] /\ pc'[u] = pc[u]
<1>1. /\ pc \in [Run \cup Resolver -> RunLabel \cup ResolverLabel \cup Reading \cup Ended]
      /\ read \in [Run \cup Resolver -> Identity] /\ read[t] \in Identity
  BY DEF TypeOK
<1>2. Stat(t, p, next) => read' = read \/ read'[t].born = proc[p].born
  BY <1>1 DEF Stat, NoIdentity
<1>3. Exe(t, p, next) => read'[t].born = read[t].born /\ read'[t].exe = Shown(p)
  BY <1>1 DEF Exe, Identity
<1>4. Cmdline(t, p, next) => /\ read'[t].born = read[t].born /\ read'[t].exe = read[t].exe
                             /\ read'[t].cmdline = Shown(p)
  BY <1>1 DEF Cmdline, Identity
<1> QED BY <1>1, <1>2, <1>3, <1>4 DEF Stat, Exe, Cmdline, Goto, NoIdentity

(* A process that begins is the only one to claim its start time.            *)
LEMMA BeginClaims ==
  ASSUME RegistryInv, NEW p \in Pid, NEW by, NEW g, Begin(p, by, g),
         UNCHANGED <<read, file, rec, met>>,
         NEW f \in Run \cup {"node"}, NEW born \in 1..MaxStarts, Claimed(f, born)'
  PROVE  Claimed(f, born) \/ (f = by /\ born = starts + 1)
<1>1. proc \in [Pid -> Process]
  BY DEF RegistryInv, TypeOK
<1> QED BY <1>1 DEF Begin, Claimed, ByProcess, ByRun, ByFile, ByRecord, ByReader

(* No other step makes a claim that was not made.                            *)
LEMMA OtherClaims ==
  ASSUME RegistryInv, Next, starts' = starts,
         NEW f \in Run \cup {"node"}, NEW born \in 1..MaxStarts, Claimed(f, born)'
  PROVE  Claimed(f, born)
<1>1. /\ TypeOK /\ starts \in Nat /\ Nobody \notin Run \cup {"node"}
      /\ file \in [Name -> Written \cup {NoRecord, Torn}]
      /\ read \in [Run \cup Resolver -> Identity]
      /\ rec \in [Resolver -> Record \cup {NoRecord}]
      /\ met \in [Resolver -> Run \cup {"node", Nobody}]
      /\ NoRecord \notin Written /\ Torn \notin Written
  BY RegistryAssumption, RecordFacts DEF RegistryInv, TypeOK, Nobody
<1>2. CASE ByProcess(f, born)'
  <2>1. PICK p \in Pid : proc'[p] # NoProcess /\ proc'[p].by = f /\ proc'[p].born = born
    BY <1>2 DEF ByProcess
  <2>2. proc[p] # NoProcess /\ proc[p].by = f /\ proc[p].born = born
    BY <1>1, <2>1, StepEntries
  <2> QED BY <2>2 DEF ByProcess, Claimed
<1>3. CASE ByRun(f, born)'
  <2>1. f \in Run /\ read'[f].born = born
    BY <1>3 DEF ByRun
  <2>2. CASE Identify(f)
    <3>1. child[f] \in Pid /\ proc[child[f]].by = f
      BY <2>1, <2>2 DEF Identify, Stat, Exe, Cmdline, RegistryInv, ChildInv, Started
    <3>2. read'[f].born = read[f].born \/ (proc[child[f]] # NoProcess /\ read'[f].born = proc[child[f]].born)
      BY <1>1, <2>1, <2>2, <3>1, ReadEffects DEF Identify
    <3> QED BY <2>1, <3>1, <3>2 DEF Claimed, ByRun, ByProcess
  <2>3. CASE Sleep(f) \/ Spawn(f) \/ Open(f)
    BY <2>1, <2>3 DEF Sleep, Spawn, Open, Claimed, ByRun
  <2>4. CASE Fill(f) \/ Kill(f)
    BY <1>1, <2>1, <2>4 DEF Fill, Kill, NoIdentity
  <2>5. CASE read'[f] = read[f]
    BY <2>1, <2>5 DEF Claimed, ByRun
  <2> QED BY <2>1, <2>2, <2>3, <2>4, <2>5, StepRuns
<1>4. CASE ByFile(f, born)'
  <2>1. PICK n \in Name : file'[n] \in Written /\ file'[n].by = f /\ file'[n].id.born = born
    BY <1>4 DEF ByFile, Written, Record, Identity
  <2>2. CASE file'[n] = file[n]
    BY <2>1, <2>2 DEF Claimed, ByFile
  <2>3. ASSUME NEW e \in Run, Fill(e), file'[n] # file[n] PROVE Claimed(f, born)
    <3>1. file'[n] = [by |-> e, pid |-> child[e], id |-> read[e]]
      BY <1>1, <2>1, <2>3 DEF Fill
    <3> QED BY <2>1, <3>1 DEF Claimed, ByRun
  <2>4. ASSUME NEW e \in Run, Open(e) PROVE file'[n] = file[n]
    BY <1>1, <2>1, <2>4 DEF Open
  <2> QED BY <2>2, <2>3, <2>4 DEF Next, NodeStarts, Exec, Exit, Reap, Spawn, Kill, Sleep, Identify,
         FindByNumber, FindByName, ReadIdentity, Compare, Again, runVars
<1>5. CASE ByRecord(f, born)'
  <2>1. PICK r \in Resolver : rec'[r] \in Written /\ rec'[r].by = f /\ rec'[r].id.born = born
    BY <1>5 DEF ByRecord, Written, Record, Identity
  <2>2. CASE rec'[r] = rec[r]
    BY <2>1, <2>2 DEF Claimed, ByRecord
  <2>3. ASSUME NEW q \in Resolver, FindByName(q), rec'[r] # rec[r] PROVE Claimed(f, born)
    <3>1. PICK n \in Name : file[n] \notin {NoRecord, Torn} /\ rec' = [rec EXCEPT ![q] = file[n]]
      BY <2>3 DEF FindByName
    <3>2. rec'[r] = file[n] /\ file[n] \in Written
      BY <1>1, <2>3, <3>1
    <3> QED BY <2>1, <3>2 DEF Claimed, ByFile
  <2>4. ASSUME NEW q \in Resolver, FindByNumber(q) \/ Again(q) PROVE rec'[r] = rec[r]
    BY <1>1, <2>1, <2>4 DEF FindByNumber, Again
  <2> QED BY <2>2, <2>3, <2>4 DEF Next, NodeStarts, Exec, Exit, Reap, Spawn, Kill, Sleep, Identify,
         Open, Fill, ReadIdentity, Compare, resolverVars
<1>6. CASE ByReader(f, born)'
  <2>1. PICK r \in Resolver : met'[r] = f /\ read'[r].born = born
    BY <1>6 DEF ByReader
  <2>2. CASE met'[r] = met[r] /\ read'[r].born = read[r].born
    BY <2>1, <2>2 DEF Claimed, ByReader
  <2>3. ASSUME NEW q \in Resolver, ReadIdentity(q) PROVE Claimed(f, born)
    <3>1. rec[q] \in Record
      BY <2>3 DEF ReadIdentity, Stat, Exe, Cmdline, RegistryInv, ResolverInv, Compared
    <3> DEFINE p == rec[q].pid
    <3>2. p \in Pid
      BY <3>1 DEF Record
    <3>3. CASE q # r
      BY <1>1, <2>2, <2>3, <3>2, <3>3, ReadEffects DEF ReadIdentity
    <3>4. CASE q = r /\ Stat(r, p, "exe") /\ met' = [met EXCEPT ![r] = proc[p].by]
      <4>1. met'[r] = proc[p].by /\ proc[p].by = f
        BY <1>1, <2>1, <3>4
      <4>2. proc[p] # NoProcess
        BY <1>1, <4>1 DEF NoProcess
      <4>3. read'[r].born = proc[p].born
        BY <1>1, <3>2, <3>4, <4>2, ReadEffects
      <4> QED BY <2>1, <3>2, <4>1, <4>2, <4>3 DEF Claimed, ByProcess
    <3>5. CASE q = r /\ (Exe(r, p, "cmdline") \/ Cmdline(r, p, "compare")) /\ met' = met
      BY <1>1, <2>2, <3>2, <3>5, ReadEffects
    <3> QED BY <2>3, <3>3, <3>4, <3>5 DEF ReadIdentity
  <2>4. ASSUME NEW q \in Resolver, Again(q) PROVE Claimed(f, born)
    BY <1>1, <2>1, <2>2, <2>4 DEF Again
  <2>5. ASSUME NEW e \in Run, Identify(e) PROVE Claimed(f, born)
    <3>1. child[e] \in Pid /\ e # r
      BY <2>5, RegistryAssumption DEF Identify, Stat, Exe, Cmdline, RegistryInv, ChildInv, Started
    <3>2. met' = met /\ read'[r] = read[r]
      BY <1>1, <2>5, <3>1, ReadEffects DEF Identify, resolverVars
    <3> QED BY <2>2, <3>2
  <2>6. ASSUME NEW e \in Run, Fill(e) \/ Kill(e) PROVE Claimed(f, born)
    BY <1>1, <2>1, <2>2, <2>6, RegistryAssumption DEF Fill, Kill, resolverVars
  <2>7. CASE UNCHANGED <<met, read>>
    BY <2>2, <2>7
  <2> QED BY <2>3, <2>4, <2>5, <2>6, <2>7 DEF Next, NodeStarts, Exec, Exit, Reap, Spawn, Sleep,
         Open, FindByNumber, FindByName, Compare, resolverVars
<1> QED BY <1>2, <1>3, <1>4, <1>5, <1>6 DEF Claimed

LEMMA NextClaims ==
  ASSUME RegistryInv, Next
  PROVE  ClaimInv'
<1> SUFFICES ASSUME NEW born \in 1..MaxStarts, NEW f \in Run \cup {"node"}, Claimed(f, born)'
             PROVE  /\ born <= starts'
                    /\ \A g \in Run \cup {"node"} : Claimed(g, born)' => f = g
  BY DEF ClaimInv
<1>1. ClaimInv /\ starts \in Nat
  BY RegistryAssumption DEF RegistryInv, TypeOK
<1>2. ASSUME NEW p \in Pid, NEW by, NEW g, Begin(p, by, g), UNCHANGED <<read, file, rec, met>>
      PROVE  /\ born <= starts'
             /\ \A h \in Run \cup {"node"} : Claimed(h, born)' => f = h
  <2>1. \A h \in Run \cup {"node"} : Claimed(h, born)' => Claimed(h, born) \/ (h = by /\ born = starts + 1)
    BY <1>2, BeginClaims
  <2>2. starts' = starts + 1
    BY <1>2 DEF Begin
  <2> QED BY <1>1, <2>1, <2>2 DEF ClaimInv
<1>3. CASE starts' = starts
  <2>1. \A h \in Run \cup {"node"} : Claimed(h, born)' => Claimed(h, born)
    BY <1>3, OtherClaims
  <2> QED BY <1>1, <1>3, <2>1 DEF ClaimInv
<1>4. \/ starts' = starts
      \/ \E p \in Pid, by \in Run \cup {"node"}, g \in Program :
            Begin(p, by, g) /\ UNCHANGED <<read, file, rec, met>>
  BY DEF Next, NodeStarts, Spawn, Program, resolverVars, runVars, Exec, Exit, Reap, Kill, Sleep, Identify,
       Open, Fill, FindByNumber, FindByName, ReadIdentity, Compare, Again
<1> QED BY <1>2, <1>3, <1>4

-----------------------------------------------------------------------------
(* What is read and recorded of a process that lives is its identity.         *)

LEMMA NextReads ==
  ASSUME RegistryInv, Next
  PROVE  ReadInv'
<1>1. /\ pc \in [Run \cup Resolver -> RunLabel \cup ResolverLabel \cup Reading \cup Ended]
      /\ read \in [Run \cup Resolver -> Identity]
      /\ TypeOK /\ ChildInv /\ ReadInv
  BY DEF RegistryInv, TypeOK
<1> DEFINE Later == {"stat", "exe", "cmdline", "open", "fill"}
<1> SUFFICES ASSUME NEW e \in Run, pc'[e] \in Later
             PROVE  /\ Fits(e, read[e], pc[e])'
                    /\ pc'[e] # "stat" => read'[e].born # 0
  BY DEF ReadInv
<1>2. CASE Sleep(e)
  BY <1>1, <1>2 DEF Sleep, Fits, Goto, Lives, Runs, runVars
<1>3. CASE Identify(e)
  <2>1. child[e] \in Pid /\ proc[child[e]].by = e /\ pc[e] \in Later
    BY <1>1, <1>3 DEF Identify, Stat, Exe, Cmdline, ChildInv, Started
  <2>2. Fits(e, read[e], pc[e]) /\ (pc[e] # "stat" => read[e].born # 0)
    BY <1>1, <2>1 DEF ReadInv
  <2>3. UNCHANGED <<proc, child>>
    BY <1>3 DEF Identify, runVars
  <2>4. Lives(e) => Shown(child[e]) = proc[child[e]].program
    BY DEF Lives, Shown
  <2>5. proc[child[e]] # NoProcess => proc[child[e]].born \in 1..MaxStarts
    BY <1>1, <2>1, ProcessFacts
  <2>6. CASE Stat(e, child[e], "exe")
    <3>1. pc'[e] = "exe" /\ proc[child[e]] # NoProcess /\ read'[e].born = proc[child[e]].born
      BY <1>1, <2>1, <2>6, ReadEffects
    <3>2. read'[e].born # 0
      BY <2>5, <3>1, RegistryAssumption
    <3> QED BY <2>2, <2>3, <3>1, <3>2 DEF Fits, Lives, Runs
  <2>7. CASE Exe(e, child[e], "cmdline")
    BY <1>1, <2>1, <2>2, <2>3, <2>4, <2>7, ReadEffects DEF Fits, Lives, Runs
  <2>8. CASE Cmdline(e, child[e], "open")
    BY <1>1, <2>1, <2>2, <2>3, <2>4, <2>8, ReadEffects DEF Fits, Lives, Runs
  <2> QED BY <1>3, <2>6, <2>7, <2>8 DEF Identify
<1>4. CASE Open(e)
  BY <1>1, <1>4 DEF Open, Fits, Goto, Lives, Runs, ReadInv
<1>5. CASE Spawn(e) \/ Fill(e) \/ Kill(e)
  BY <1>1, <1>5 DEF Spawn, Fill, Kill, Goto
<1>6. CASE pc'[e] = pc[e] /\ child'[e] = child[e] /\ read'[e] = read[e]
  <2>1. child[e] \in Pid /\ Fits(e, read[e], pc[e]) /\ (pc[e] # "stat" => read[e].born # 0)
    BY <1>1, <1>6 DEF ChildInv, ReadInv, Started
  <2> QED BY <1>6, <2>1, LivesOn DEF Fits
<1> QED BY <1>2, <1>3, <1>4, <1>5, <1>6, StepRuns

(* A run that has succeeded stays so, and a record of it stays true.          *)
LEMMA OkStays ==
  ASSUME RegistryInv, Next, NEW e \in Run, pc[e] = "ok"
  PROVE  /\ pc'[e] = "ok" /\ child'[e] = child[e] /\ child[e] \in Pid
         /\ \A c \in Record : IsRecordOf(c, e) => IsRecordOf(c, e)'
<1>1. pc'[e] = "ok" /\ child'[e] = child[e] /\ child[e] \in Pid
  BY StepRuns DEF Spawn, Sleep, Identify, Stat, Exe, Cmdline, Open, Fill, Kill, Ended, RegistryInv,
                  ChildInv
<1>2. ASSUME NEW c \in Record, IsRecordOf(c, e)
      PROVE  IsRecordOf(c, e)'
  BY <1>1, <1>2, LivesOn DEF IsRecordOf, Fits
<1> QED BY <1>1, <1>2

LEMMA NextFiles ==
  ASSUME RegistryInv, Next
  PROVE  FileInv'
<1>1. /\ pc \in [Run \cup Resolver -> RunLabel \cup ResolverLabel \cup Reading \cup Ended]
      /\ file \in [Name -> Written \cup {NoRecord, Torn}]
      /\ sole \in [Name -> Run \cup {Nobody}]
      /\ TypeOK /\ FileInv /\ Run \cap Resolver = {} /\ Nobody \notin Run
      /\ RunName \in [Run -> Name] /\ Written \subseteq Record
  BY RegistryAssumption, RecordFacts DEF RegistryInv, TypeOK
<1> SUFFICES ASSUME NEW n \in Name, NEW e \in Run, sole'[n] = e
             PROVE  /\ RunName[e] = n /\ pc'[e] \in {"fill"} \cup Ended
                    /\ \A f \in Run \ {e} : RunName[f] = n => pc'[f] # "fill"
                    /\ pc'[e] = "fill" => file'[n] = Torn
                    /\ pc'[e] = "ok" => file'[n] \in Written /\ IsRecordOf(file[n], e)'
  BY DEF FileInv
<1> DEFINE Goal == /\ RunName[e] = n /\ pc'[e] \in {"fill"} \cup Ended
                   /\ \A f \in Run \ {e} : RunName[f] = n => pc'[f] # "fill"
                   /\ pc'[e] = "fill" => file'[n] = Torn
                   /\ pc'[e] = "ok" => file'[n] \in Written /\ IsRecordOf(file[n], e)'
<1>2. CASE sole[n] = e /\ file'[n] = file[n] /\ (pc'[e] = pc[e] \/ pc'[e] \in {"err", "killed"})
           /\ \A f \in Run \ {e} : RunName[f] = n => pc'[f] # "fill"
  <2>1. RunName[e] = n /\ pc'[e] \in {"fill"} \cup Ended /\ (pc'[e] = "fill" => file'[n] = Torn)
    BY <1>1, <1>2 DEF FileInv, Ended
  <2>2. CASE pc'[e] = "ok"
    <3>1. pc[e] = "ok" /\ file[n] \in Written /\ IsRecordOf(file[n], e)
      BY <1>1, <1>2, <2>2 DEF FileInv
    <3>2. child'[e] = child[e] /\ child[e] \in Pid
      BY <3>1, OkStays
    <3>3. IsRecordOf(file[n], e)'
      BY <1>2, <3>1, <3>2, LivesOn DEF IsRecordOf, Fits
    <3> QED BY <1>2, <2>1, <3>1, <3>3
  <2> QED BY <1>2, <2>1, <2>2
<1>3. ASSUME NEW f \in Run, Open(f)
      PROVE  Goal
  <2>1. CASE sole' = sole
    BY <1>1, <1>2, <1>3, <2>1 DEF Open, Goto, FileInv
  <2>2. CASE pc' = [pc EXCEPT ![f] = "fill"] /\ RunName[f] # n
    BY <1>1, <1>2, <1>3, <2>2 DEF Open, Goto, FileInv, Ended
  <2>3. CASE pc' = [pc EXCEPT ![f] = "fill"] /\ RunName[f] = n
    <3>1. f = e /\ \A g \in Run : ~(pc[g] = "fill" /\ RunName[g] = n)
      BY <1>1, <1>3, <2>3 DEF Open, Goto
    <3> QED BY <1>1, <1>3, <2>3, <3>1 DEF Open, Goto
  <2> QED BY <1>1, <1>3, <2>1, <2>2, <2>3 DEF Open, Goto
<1>4. ASSUME NEW f \in Run, Fill(f)
      PROVE  Goal
  <2>1. sole[n] = e /\ pc[f] = "fill" /\ pc' \in {[pc EXCEPT ![f] = "ok"], [pc EXCEPT ![f] = "err"]}
    BY <1>4 DEF Fill, Goto
  <2>2. CASE RunName[f] # n
    BY <1>1, <1>2, <1>4, <2>1, <2>2 DEF Fill, Goto, FileInv
  <2>3. CASE RunName[f] = n
    <3>1. f = e /\ file[n] = Torn
      BY <1>1, <2>1, <2>3 DEF FileInv
    <3>2. CASE pc' = [pc EXCEPT ![f] = "err"] /\ file' = file
      BY <1>1, <1>2, <2>1, <3>1, <3>2 DEF FileInv
    <3>3. CASE pc' = [pc EXCEPT ![f] = "ok"]
      <4> DEFINE c == [by |-> e, pid |-> child[e], id |-> read[e]]
      <4>1. file'[n] = c
        BY <1>1, <1>4, <2>1, <2>3, <3>1, <3>3 DEF Fill, Goto
      <4>2. Fits(e, read[e], "fill") /\ UNCHANGED <<proc, child>>
        BY <1>4, <2>1, <3>1 DEF Fill, RegistryInv, ReadInv
      <4>3. IsRecordOf(file[n], e)'
        BY <4>1, <4>2 DEF IsRecordOf, Fits, Lives, Runs
      <4>4. file'[n] \in Written
        <5>1. file'[n] \in Written \cup {NoRecord, Torn}
          BY NextTypes DEF TypeOK
        <5>2. c.by = e /\ e \notin {"absent", "torn"}
          BY RegistryAssumption
        <5> QED BY <4>1, <5>1, <5>2 DEF NoRecord, Torn
      <4> QED BY <1>1, <2>1, <2>3, <3>1, <3>3, <4>3, <4>4 DEF FileInv, Ended
    <3> QED BY <1>1, <1>4, <2>1, <3>2, <3>3 DEF Fill, Goto
  <2> QED BY <2>2, <2>3
<1>5. CASE UNCHANGED <<file, sole>> /\ \A f \in Run : ~Open(f) /\ ~Fill(f)
  <2>1. sole[n] = e /\ pc[e] \in {"fill"} \cup Ended
    BY <1>1, <1>5 DEF FileInv
  <2>2. pc'[e] = pc[e] \/ pc'[e] = "killed"
    BY <1>1, <1>5, <2>1, StepRuns
       DEF Spawn, Sleep, Identify, Stat, Exe, Cmdline, Kill, Goto, Ended
  <2>3. ASSUME NEW f \in Run \ {e}, RunName[f] = n PROVE pc'[f] # "fill"
    <3>1. pc[f] # "fill"
      BY <1>1, <2>1, <2>3 DEF FileInv
    <3> QED BY <1>1, <1>5, <3>1, StepRuns
            DEF Spawn, Sleep, Identify, Stat, Exe, Cmdline, Kill, Goto
  <2> QED BY <1>2, <1>5, <2>1, <2>2, <2>3
<1>6. UNCHANGED <<file, sole>> \/ \E f \in Run : Open(f) \/ Fill(f)
  BY DEF Next, NodeStarts, Exec, Exit, Reap, Spawn, Kill, Sleep, Identify,
       FindByNumber, FindByName, ReadIdentity, Compare, Again, runVars
<1> QED BY <1>3, <1>4, <1>5, <1>6

-----------------------------------------------------------------------------
(* The resolvers.                                                            *)

(* What a step does to a resolver that it is not of.                         *)
LEMMA StepResolvers ==
  ASSUME RegistryInv, Next, NEW r \in Resolver
  PROVE  \/ FindByNumber(r) \/ FindByName(r) \/ ReadIdentity(r) \/ Compare(r) \/ Again(r)
         \/ /\ pc'[r] = pc[r] /\ read'[r] = read[r] /\ rec'[r] = rec[r]
            /\ met'[r] = met[r] /\ owed'[r] = owed[r]
<1>1. /\ pc \in [Run \cup Resolver -> RunLabel \cup ResolverLabel \cup Reading \cup Ended]
      /\ read \in [Run \cup Resolver -> Identity]
      /\ rec \in [Resolver -> Record \cup {NoRecord}]
      /\ met \in [Resolver -> Run \cup {"node", Nobody}]
      /\ owed \in [Resolver -> SUBSET Run] /\ Run \cap Resolver = {}
  BY RegistryAssumption DEF RegistryInv, TypeOK
<1> DEFINE Same5 == /\ pc'[r] = pc[r] /\ read'[r] = read[r] /\ rec'[r] = rec[r]
                    /\ met'[r] = met[r] /\ owed'[r] = owed[r]
<1>2. ASSUME NEW f \in Run, Spawn(f) \/ Sleep(f) \/ Open(f) \/ Fill(f) \/ Kill(f)
      PROVE  Same5
  BY <1>1, <1>2 DEF Spawn, Sleep, Open, Fill, Kill, Goto, resolverVars
<1>3. ASSUME NEW f \in Run, Identify(f)
      PROVE  Same5
  BY <1>1, <1>3 DEF Identify, Stat, Exe, Cmdline, Goto, resolverVars
<1>4. ASSUME NEW q \in Resolver \ {r}, FindByNumber(q) \/ FindByName(q) \/ Compare(q) \/ Again(q)
      PROVE  Same5
  BY <1>1, <1>4 DEF FindByNumber, FindByName, Compare, Again, Goto, resolverVars
<1>5. ASSUME NEW q \in Resolver \ {r}, ReadIdentity(q)
      PROVE  Same5
  BY <1>1, <1>5 DEF ReadIdentity, Stat, Exe, Cmdline, Goto
<1>6. CASE UNCHANGED <<pc, read, rec, met, owed>>
  BY <1>6
<1> QED BY <1>2, <1>3, <1>4, <1>5, <1>6 DEF Next, NodeStarts, Exec, Exit, Reap, resolverVars

(* What a resolver goes by and has read stays true when others step.          *)
LEMMA ResolverStays ==
  ASSUME RegistryInv, Next, NEW r \in Resolver, rec'[r] = rec[r], rec[r] \in Record,
         NEW e \in owed[r], pc[e] = "ok", e \in Run
  PROVE  /\ IsRecordOf(rec[r], e) => IsRecordOf(rec[r], e)'
         /\ read'[r] = read[r] /\ pc'[r] = pc[r] /\ Fits(e, read[r], pc[r]) => Fits(e, read[r], pc[r])'
         /\ ~Lives(e) => ~Lives(e)'
<1>1. child'[e] = child[e] /\ child[e] \in Pid
  BY OkStays
<1> QED BY <1>1, LivesOn DEF IsRecordOf, Fits

(* A resolver that compares knows whose process it has met, and a record of a *)
(* process that lives is what it has read.                                    *)
LEMMA ComparesRight ==
  ASSUME RegistryInv, NEW r \in Resolver, Compare(r)
  PROVE  /\ pc'[r] = "ok" /\ rec[r].by # Nobody => met[r] = rec[r].by
         /\ pc'[r] = "err" => \A e \in owed[r] \cap Prompt : ~Lives(e)
<1>1. /\ pc[r] = "compare" /\ rec[r] \in Record /\ read[r] \in Identity /\ read[r].born # 0
      /\ met[r] # Nobody
      /\ rec[r].by # Nobody => rec[r] \in Written
      /\ \A e \in owed[r] : IsRecordOf(rec[r], e) /\ Fits(e, read[r], "compare")
      /\ met[r] \in Run \cup {"node", Nobody}
      /\ pc \in [Run \cup Resolver -> RunLabel \cup ResolverLabel \cup Reading \cup Ended]
  BY DEF Compare, RegistryInv, ResolverInv, Compared, TypeOK
<1>2. rec[r].id \in Identity
  BY <1>1 DEF Record
<1>3. ASSUME pc'[r] = "ok", rec[r].by # Nobody
      PROVE  met[r] = rec[r].by
  <2>1. rec[r] \in Written /\ rec[r].by \in Run /\ rec[r].id.born # 0
    BY <1>1, <1>3 DEF Written
  <2>2. rec[r].id.born = read[r].born /\ read[r].born \in 1..MaxStarts
    BY <1>1, <1>2, <1>3, <2>1, RegistryAssumption DEF Compare, Goto, Same, Identity
  <2>3. Claimed(rec[r].by, read[r].born) /\ Claimed(met[r], read[r].born)
    BY <1>1, <2>1, <2>2 DEF Claimed, ByRecord, ByReader
  <2> QED BY <1>1, <2>1, <2>2, <2>3 DEF RegistryInv, ClaimInv
<1>4. ASSUME pc'[r] = "err", NEW e \in owed[r] \cap Prompt, Lives(e)
      PROVE  FALSE
  <2>1. /\ rec[r].id.born = proc[child[e]].born /\ read[r].born = proc[child[e]].born
        /\ rec[r].id.exe = App[e] /\ read[r].exe = App[e]
        /\ rec[r].id.cmdline = App[e] /\ read[r].cmdline = App[e]
    BY <1>1, <1>4 DEF IsRecordOf, Fits
  <2>2. rec[r].id = read[r]
    BY <1>1, <1>2, <2>1 DEF Identity
  <2> QED BY <1>1, <1>4, <2>2 DEF Compare, Goto, Same
<1> QED BY <1>3, <1>4

LEMMA NextResolvers ==
  ASSUME RegistryInv, Next
  PROVE  ResolverInv' /\ NoImpostor' /\ StaysResolvable'
<1>1. /\ pc \in [Run \cup Resolver -> RunLabel \cup ResolverLabel \cup Reading \cup Ended]
      /\ read \in [Run \cup Resolver -> Identity] /\ read' \in [Run \cup Resolver -> Identity]
      /\ rec \in [Resolver -> Record \cup {NoRecord}]
      /\ met \in [Resolver -> Run \cup {"node", Nobody}]
      /\ owed \in [Resolver -> SUBSET Run] /\ Run \cap Resolver = {}
      /\ file \in [Name -> Written \cup {NoRecord, Torn}]
      /\ TypeOK /\ LabelInv /\ ResolverInv /\ NoImpostor /\ StaysResolvable
  BY NextTypes, RegistryAssumption DEF RegistryInv, TypeOK
<1> DEFINE Met == {"exe", "cmdline", "compare"}
           Goal(r) ==
             /\ \A e \in owed'[r] : pc'[e] = "ok"
             /\ pc'[r] = "record" => owed'[r] = {} /\ read'[r] = NoIdentity
             /\ pc'[r] \in Compared =>
                  /\ rec'[r] \in Record /\ (rec'[r].by # Nobody => rec'[r] \in Written)
                  /\ \A e \in owed'[r] : IsRecordOf(rec[r], e)' /\ Fits(e, read[r], pc[r])'
             /\ pc'[r] \in Met => read'[r].born # 0 /\ met'[r] # Nobody
             /\ pc'[r] = "ok" /\ rec'[r].by # Nobody => met'[r] = rec'[r].by
             /\ pc'[r] = "err" => \A e \in owed'[r] \cap Prompt : ~Lives(e)'
<1> SUFFICES ASSUME NEW r \in Resolver PROVE Goal(r)
  BY DEF ResolverInv, NoImpostor, StaysResolvable
<1>2. \A e \in owed[r] : e \in Run /\ pc[e] = "ok" /\ pc'[e] = "ok"
  BY <1>1, OkStays DEF ResolverInv
<1>3. CASE FindByNumber(r)
  <2>1. owed'[r] = {} /\ pc'[r] = "stat" /\ rec'[r] \in Record /\ rec'[r].by = Nobody
    BY <1>1, <1>3, RegistryAssumption
       DEF FindByNumber, Goto, ResolverInv, Record, Identity, NoIdentity
  <2> QED BY <2>1
<1>4. CASE FindByName(r)
  <2>1. PICK n \in Name :
          /\ owed' = [owed EXCEPT ![r] = Owed(n)]
          /\ \/ file[n] \in {NoRecord, Torn} /\ Goto(r, "err") /\ UNCHANGED rec
             \/ file[n] \notin {NoRecord, Torn} /\ Goto(r, "stat") /\ rec' = [rec EXCEPT ![r] = file[n]]
    BY <1>4 DEF FindByName
  <2>2. /\ owed'[r] = Owed(n) /\ read'[r] = read[r]
        /\ UNCHANGED <<proc, child>> /\ \A e \in Run : pc'[e] = pc[e]
    BY <1>1, <1>4, <2>1 DEF FindByName, Goto, runVars
  <2>3. \A e \in Owed(n) : /\ e \in Run /\ pc[e] = "ok" /\ file[n] \in Written /\ IsRecordOf(file[n], e)
                           /\ child[e] \in Pid
    BY DEF Owed, RegistryInv, FileInv, ChildInv
  <2>4. NoRecord \notin Written /\ Torn \notin Written /\ Written \subseteq Record
    BY <1>1, RecordFacts
  <2>5. CASE file[n] \in {NoRecord, Torn} /\ pc'[r] = "err"
    BY <2>2, <2>3, <2>4, <2>5 DEF Compared
  <2>6. CASE file[n] \in Written /\ pc'[r] = "stat" /\ rec'[r] = file[n]
    <3>1. \A e \in owed'[r] : IsRecordOf(rec[r], e)' /\ Fits(e, read[r], pc[r])'
      BY <2>2, <2>3, <2>6 DEF IsRecordOf, Fits, Lives, Runs
    <3> QED BY <2>2, <2>3, <2>4, <2>6, <3>1
  <2> QED BY <1>1, <2>1, <2>5, <2>6 DEF Goto
<1>5. CASE ReadIdentity(r)
  <2> DEFINE p == rec[r].pid
  <2>1. /\ rec[r] \in Record /\ (rec[r].by # Nobody => rec[r] \in Written)
        /\ \A e \in owed[r] : IsRecordOf(rec[r], e) /\ Fits(e, read[r], pc[r])
        /\ pc[r] \in Met => read[r].born # 0 /\ met[r] # Nobody
        /\ p \in Pid
    BY <1>1, <1>5 DEF ReadIdentity, Stat, Exe, Cmdline, ResolverInv, Compared, Record
  <2>2. UNCHANGED <<proc, child, rec, owed>>
    BY <1>5 DEF ReadIdentity, runVars
  <2>3. \A e \in owed[r] : IsRecordOf(rec[r], e)' /\ child[e] = p
    BY <2>1, <2>2 DEF IsRecordOf, Fits, Lives, Runs
  <2>4. \A e \in owed[r] : Lives(e) => Shown(p) = proc[p].program
    BY <2>3 DEF Lives, Shown
  <2>5. proc[p] # NoProcess => proc[p].born \in 1..MaxStarts /\ proc[p].by # Nobody
    BY <1>1, <2>1, ProcessFacts
  <2>6. CASE Stat(r, p, "exe") /\ met' = [met EXCEPT ![r] = proc[p].by]
    <3>1. CASE pc'[r] = "err" /\ proc[p] = NoProcess
      <4>1. \A e \in owed[r] : ~Lives(e)'
        BY <2>2, <2>3, <3>1 DEF Lives, Runs
      <4> QED BY <1>2, <2>2, <3>1, <4>1 DEF Compared
    <3>2. CASE /\ pc'[r] = "exe" /\ proc[p] # NoProcess /\ read'[r].born = proc[p].born
      <4>1. read'[r].born # 0 /\ met'[r] # Nobody
        BY <1>1, <2>5, <2>6, <3>2, RegistryAssumption
      <4>2. pc[r] = "stat"
        BY <2>6 DEF Stat
      <4>3. \A e \in owed[r] : Fits(e, read[r], pc[r])'
        BY <2>1, <2>2, <2>3, <3>2, <4>2 DEF Fits, Lives, Runs
      <4> QED BY <1>2, <2>1, <2>2, <2>3, <3>2, <4>1, <4>3
    <3> QED BY <1>1, <2>1, <2>6, <3>1, <3>2, ReadEffects
  <2>7. CASE Exe(r, p, "cmdline") /\ UNCHANGED met
    <3>1. /\ pc[r] = "exe" /\ pc'[r] = "cmdline" /\ read'[r].born = read[r].born
          /\ read'[r].exe = Shown(p)
      BY <1>1, <2>1, <2>7, ReadEffects
    <3>2. \A e \in owed[r] : Fits(e, read[r], pc[r])'
      BY <2>1, <2>2, <2>3, <2>4, <3>1 DEF Fits, Lives, Runs
    <3> QED BY <1>2, <2>1, <2>2, <2>3, <2>7, <3>1, <3>2
  <2>8. CASE Cmdline(r, p, "compare") /\ UNCHANGED met
    <3>1. /\ pc[r] = "cmdline" /\ pc'[r] = "compare" /\ read'[r].born = read[r].born
          /\ read'[r].exe = read[r].exe /\ read'[r].cmdline = Shown(p)
      BY <1>1, <2>1, <2>8, ReadEffects
    <3>2. \A e \in owed[r] : Fits(e, read[r], pc[r])'
      BY <2>1, <2>2, <2>3, <2>4, <3>1 DEF Fits, Lives, Runs
    <3> QED BY <1>2, <2>1, <2>2, <2>3, <2>8, <3>1, <3>2
  <2> QED BY <1>5, <2>6, <2>7, <2>8 DEF ReadIdentity
<1>6. CASE Compare(r)
  <2>1. /\ UNCHANGED <<proc, child, rec, met, owed>> /\ pc'[r] \in {"ok", "err"}
    BY <1>1, <1>6 DEF Compare, Goto, runVars, resolverVars
  <2>2. \A e \in owed[r] : ~Lives(e) => ~Lives(e)'
    BY <2>1 DEF Lives, Runs
  <2> QED BY <1>2, <1>6, <2>1, <2>2, ComparesRight DEF Compared
<1>7. CASE Again(r)
  <2>1. owed'[r] = {} /\ pc'[r] = "record" /\ read'[r] = NoIdentity
    BY <1>1, <1>7 DEF Again, Goto
  <2> QED BY <2>1 DEF Compared
<1>8. CASE /\ pc'[r] = pc[r] /\ read'[r] = read[r] /\ rec'[r] = rec[r]
           /\ met'[r] = met[r] /\ owed'[r] = owed[r]
  <2>1. \A e \in owed[r] : ~Lives(e) => ~Lives(e)'
    BY <1>2, OkStays, LivesOn
  <2>2. pc[r] \in Compared =>
          \A e \in owed[r] : IsRecordOf(rec[r], e)' /\ Fits(e, read[r], pc[r])'
    BY <1>1, <1>2, <1>8, ResolverStays DEF ResolverInv
  <2> QED BY <1>1, <1>2, <1>8, <2>1, <2>2 DEF ResolverInv, NoImpostor, StaysResolvable
<1> QED BY <1>3, <1>4, <1>5, <1>6, <1>7, <1>8, StepResolvers

LEMMA NextRegistry == RegistryInv /\ [Next]_vars => RegistryInv'
<1>1. ASSUME RegistryInv, Next PROVE RegistryInv'
  BY <1>1, NextTypes, NextChild, NextClaims, NextReads, NextFiles, NextResolvers DEF RegistryInv
<1>2. ASSUME RegistryInv, UNCHANGED vars PROVE RegistryInv'
  BY <1>2 DEF RegistryInv, vars, runVars, resolverVars, TypeOK, LabelInv, ChildInv, ClaimInv,
         Claimed, ByProcess, ByRun, ByFile, ByRecord, ByReader, ReadInv, Fits, Lives, Runs,
         FileInv, IsRecordOf, ResolverInv, NoImpostor, StaysResolvable
<1> QED BY <1>1, <1>2

(* The registry's state keeps its types.                                     *)
THEOREM TypeCorrect == Spec => []TypeOK
<1>1. RegistryInv => TypeOK
  BY DEF RegistryInv
<1> QED BY <1>1, InitRegistry, NextRegistry, PTL DEF Spec

(* A name that resolves is that of the process its run has started, for any   *)
(* number of runs and commands, PIDs that come round and steps in any order.  *)
THEOREM NamesNoImpostor == Spec => []NoImpostor
<1>1. RegistryInv => NoImpostor
  BY DEF RegistryInv
<1> QED BY <1>1, InitRegistry, NextRegistry, PTL DEF Spec

(* A name is not refused while the process of the run that holds it lives, if *)
(* its command has exec'd in time.                                            *)
THEOREM NamesResolve == Spec => []StaysResolvable
<1>1. RegistryInv => StaysResolvable
  BY DEF RegistryInv
<1> QED BY <1>1, InitRegistry, NextRegistry, PTL DEF Spec

=============================================================================
