--------------------------- MODULE ProcessRegistry --------------------------
(* The process registry (process.rs): `edo run --name N' starts a command and *)
(* records who it is in .edo/runs/N.json; `edo freeze N', `cpu-dump N' and    *)
(* `health-check N' later resolve N to a PID and compare the record with the  *)
(* process that has this PID now. Between the two, commands exec, processes   *)
(* exit, and the kernel gives their PIDs to others.                           *)
(*                                                                            *)
(* A process is what read_identity reads of it: its start time, and a program *)
(* in place of the executable and the command line that come with it.         *)
EXTENDS Naturals

CONSTANTS
  Pid,
  Name,          \* names that are no numbers
  Run,           \* `edo run' commands
  RunName,       \* the --name of each
  Wrapper, App,  \* the program a run spawns, and the one that execs into
  Prompt,        \* runs whose command has exec'd within 100 ms
  Resolver,      \* who runs commands with a target, one after the other
  MaxStarts,     \* bound: processes started
  Unwritable     \* TRUE: a record may fail to be written

Nobody == "nobody"                   \* no PID, and no process of a run

ASSUME RegistryAssumption ==
  /\ Name \cap Pid = {} /\ Run \cap Resolver = {}
  /\ Nobody \notin Pid
  /\ Run \cap {Nobody, "node", "absent", "torn"} = {}
  /\ RunName \in [Run -> Name]
  /\ DOMAIN Wrapper = Run /\ DOMAIN App = Run
  /\ Prompt \subseteq Run
  /\ MaxStarts \in Nat /\ Unwritable \in BOOLEAN

VARIABLES
  proc,          \* the process table
  starts,        \* start time of the youngest process
  pc,
  child,         \* PID a run has spawned
  file,          \* content of the record of each name
  sole,          \* history: the run that opened it last, no other filling it
  read,          \* what the identity being read consists of so far
  rec,           \* the record a resolver goes by
  met,           \* history: whose process the resolver read the start time of
  owed           \* history: runs the resolver ought to find, when it began

runVars == <<child, file, sole>>
resolverVars == <<rec, met, owed>>
vars == <<proc, starts, pc, runVars, read, resolverVars>>

Program == {Wrapper[e] : e \in Run} \cup {App[e] : e \in Run}
Unread == "unread"                   \* also what unwrap_or_default makes of
                                     \* an exe or a cmdline that cannot be read

(* by: the run that started the process. A zombie still has its entry.       *)
NoProcess == [by |-> Nobody]
Process == {NoProcess} \cup
  [by : Run \cup {"node"}, born : 1..MaxStarts, program : Program, zombie : BOOLEAN]

Identity == [born : 0..MaxStarts, exe : Program \cup {Unread}, cmdline : Program \cup {Unread}]
Record == [by : Run \cup {Nobody}, pid : Pid, id : Identity]
(* A start time of 0 would make resolve compare nothing.                     *)
Written == {c \in Record : c.by \in Run /\ c.id.born # 0}
NoRecord == [by |-> "absent"]
Torn == [by |-> "torn"]

NoIdentity == [born |-> 0, exe |-> Unread, cmdline |-> Unread]

RunLabel == {"spawn", "sleep", "open", "fill"}
ResolverLabel == {"record", "compare"}
Reading == {"stat", "exe", "cmdline"}
Ended == {"ok", "err", "killed"}

TypeOK ==
  /\ proc \in [Pid -> Process]
  /\ starts \in 0..MaxStarts
  /\ pc \in [Run \cup Resolver -> RunLabel \cup ResolverLabel \cup Reading \cup Ended]
  /\ child \in [Run -> Pid \cup {Nobody}]
  /\ file \in [Name -> Written \cup {NoRecord, Torn}]
  /\ sole \in [Name -> Run \cup {Nobody}]
  /\ read \in [Run \cup Resolver -> Identity]
  /\ rec \in [Resolver -> Record \cup {NoRecord}]
  /\ met \in [Resolver -> Run \cup {"node", Nobody}]
  /\ owed \in [Resolver -> SUBSET Run]

Init ==
  /\ proc = [p \in Pid |-> NoProcess]
  /\ starts = 0
  /\ pc = [t \in Run \cup Resolver |-> IF t \in Run THEN "spawn" ELSE "record"]
  /\ child = [e \in Run |-> Nobody]
  /\ file = [n \in Name |-> NoRecord]
  /\ sole = [n \in Name |-> Nobody]
  /\ read = [t \in Run \cup Resolver |-> NoIdentity]
  /\ rec = [r \in Resolver |-> NoRecord]
  /\ met = [r \in Resolver |-> Nobody]
  /\ owed = [r \in Resolver |-> {}]

Goto(t, l) == pc' = [pc EXCEPT ![t] = l]

Runs(p) == proc[p] # NoProcess /\ ~proc[p].zombie
Lives(e) == child[e] # Nobody /\ proc[child[e]].by = e /\ Runs(child[e])

-----------------------------------------------------------------------------
(* The processes of the node.                                                *)

(* No two processes have a PID and a start time in common: PIDs come round   *)
(* again much later than a clock tick.                                       *)
Begin(p, by, program) ==
  /\ proc[p] = NoProcess /\ starts < MaxStarts
  /\ starts' = starts + 1
  /\ proc' = [proc EXCEPT ![p] = [by |-> by, born |-> starts + 1,
                                  program |-> program, zombie |-> FALSE]]

NodeStarts(p) ==
  /\ \E g \in Program : Begin(p, "node", g)
  /\ UNCHANGED <<pc, runVars, read, resolverVars>>

Exec(e) ==
  /\ Lives(e)
  /\ proc[child[e]].program = Wrapper[e]
  /\ proc' = [proc EXCEPT ![child[e]].program = App[e]]
  /\ UNCHANGED <<starts, pc, runVars, read, resolverVars>>

(* The child of a run stays a zombie for as long as the run, which does not  *)
(* wait for it; then init reaps it.                                          *)
Exit(p) ==
  /\ Runs(p)
  /\ proc' = [proc EXCEPT ![p] =
       IF proc[p].by \in Run /\ pc[proc[p].by] \notin Ended
       THEN [@ EXCEPT !.zombie = TRUE] ELSE NoProcess]
  /\ UNCHANGED <<starts, pc, runVars, read, resolverVars>>

-----------------------------------------------------------------------------
(* read_identity, in its three reads of /proc.                               *)

(* Mutant of Stat: a field that cannot be parsed is defaulted, as below.     *)
Stat_Defaults(t, p, next) ==
  /\ pc[t] = "stat"
  /\ IF proc[p] = NoProcess THEN Goto(t, "err") /\ UNCHANGED read
     ELSE Goto(t, next) /\ read' = [read EXCEPT ![t] = NoIdentity]

Stat(t, p, next) ==
  /\ pc[t] = "stat"
  /\ IF proc[p] = NoProcess THEN Goto(t, "err") /\ UNCHANGED read
     ELSE Goto(t, next) /\ read' = [read EXCEPT ![t] = [NoIdentity EXCEPT !.born = proc[p].born]]

Shown(p) == IF Runs(p) THEN proc[p].program ELSE Unread

Exe(t, p, next) ==
  pc[t] = "exe" /\ Goto(t, next) /\ read' = [read EXCEPT ![t].exe = Shown(p)]

Cmdline(t, p, next) ==
  pc[t] = "cmdline" /\ Goto(t, next) /\ read' = [read EXCEPT ![t].cmdline = Shown(p)]

-----------------------------------------------------------------------------
(* process::start.                                                           *)

Spawn(e) ==
  /\ pc[e] = "spawn"
  /\ \/ \E p \in Pid :
          Begin(p, e, Wrapper[e]) /\ child' = [child EXCEPT ![e] = p] /\ Goto(e, "sleep")
     \/ Goto(e, "err") /\ UNCHANGED <<proc, starts, child>>
  /\ UNCHANGED <<file, sole, read, resolverVars>>

(* Mutant of Sleep: the pause left out.                                      *)
Sleep_LeftOut(e) ==
  /\ pc[e] = "sleep"
  /\ Goto(e, "stat")
  /\ UNCHANGED <<proc, starts, runVars, read, resolverVars>>

(* 100 ms, in which a prompt command has exec'd.                             *)
Sleep(e) ==
  /\ pc[e] = "sleep"
  /\ e \in Prompt /\ Lives(e) => proc[child[e]].program = App[e]
  /\ Goto(e, "stat")
  /\ UNCHANGED <<proc, starts, runVars, read, resolverVars>>

Identify(e) ==
  /\ Stat(e, child[e], "exe") \/ Exe(e, child[e], "cmdline") \/ Cmdline(e, child[e], "open")
  /\ UNCHANGED <<proc, starts, runVars, resolverVars>>

(* write_record: fs::write truncates the record of an earlier run of this    *)
(* name, then fills it.                                                      *)
Open(e) ==
  /\ pc[e] = "open"
  /\ \/ /\ Goto(e, "fill") /\ file' = [file EXCEPT ![RunName[e]] = Torn]
        /\ sole' = [sole EXCEPT ![RunName[e]] =
             IF \E f \in Run : pc[f] = "fill" /\ RunName[f] = RunName[e] THEN Nobody ELSE e]
     \/ Unwritable /\ Goto(e, "err") /\ UNCHANGED <<file, sole>>
  /\ UNCHANGED <<proc, starts, child, read, resolverVars>>

(* The record goes over what another run may have filled in since the file   *)
(* was truncated: if the other's is longer its end stays.                    *)
Fill(e) ==
  /\ pc[e] = "fill"
  /\ \/ /\ Goto(e, "ok")
        /\ \E content \in {[by |-> e, pid |-> child[e], id |-> read[e]]}
                            \cup IF file[RunName[e]] = Torn THEN {} ELSE {Torn} :
             file' = [file EXCEPT ![RunName[e]] = content]
     \/ Unwritable /\ Goto(e, "err") /\ UNCHANGED file
  /\ read' = [read EXCEPT ![e] = NoIdentity]
  /\ UNCHANGED <<proc, starts, child, sole, resolverVars>>

Kill(e) ==
  /\ pc[e] \notin Ended
  /\ Goto(e, "killed")
  /\ read' = [read EXCEPT ![e] = NoIdentity]
  /\ UNCHANGED <<proc, starts, runVars, resolverVars>>

(* init reaps the zombie of a run that has ended.                            *)
Reap(p) ==
  /\ proc[p] # NoProcess /\ proc[p].zombie /\ pc[proc[p].by] \in Ended
  /\ proc' = [proc EXCEPT ![p] = NoProcess]
  /\ UNCHANGED <<starts, pc, runVars, read, resolverVars>>

-----------------------------------------------------------------------------
(* process::resolve.                                                         *)

(* The runs a name ought to find: the last one, if it has succeeded.         *)
Owed(n) == {e \in Run : sole[n] = e /\ pc[e] = "ok" /\ Lives(e)}

(* A number makes up a record with start time 0; a name has its file read.   *)
FindByNumber(r) ==
  /\ pc[r] = "record"
  /\ \E p \in Pid : rec' = [rec EXCEPT ![r] = [by |-> Nobody, pid |-> p, id |-> NoIdentity]]
  /\ Goto(r, "stat")
  /\ UNCHANGED <<proc, starts, runVars, read, met, owed>>

FindByName(r) ==
  /\ pc[r] = "record"
  /\ \E n \in Name :
       /\ owed' = [owed EXCEPT ![r] = Owed(n)]
       /\ \/ file[n] \in {NoRecord, Torn} /\ Goto(r, "err") /\ UNCHANGED rec
          \/ file[n] \notin {NoRecord, Torn} /\ Goto(r, "stat") /\ rec' = [rec EXCEPT ![r] = file[n]]
  /\ UNCHANGED <<proc, starts, runVars, read, met>>

ReadIdentity(r) ==
  LET p == rec[r].pid IN
  /\ \/ Stat(r, p, "exe") /\ met' = [met EXCEPT ![r] = proc[p].by]
     \/ Exe(r, p, "cmdline") /\ UNCHANGED met
     \/ Cmdline(r, p, "compare") /\ UNCHANGED met
  /\ UNCHANGED <<proc, starts, runVars, rec, owed>>

(* Mutant of Same: the start time is not compared.                           *)
Same_NoStartTime(a, b) == a.exe = b.exe /\ a.cmdline = b.cmdline

Same(a, b) == a = b

Compare(r) ==
  /\ pc[r] = "compare"
  /\ Goto(r, IF rec[r].id.born # 0 /\ ~Same(rec[r].id, read[r]) THEN "err" ELSE "ok")
  /\ UNCHANGED <<proc, starts, runVars, read, resolverVars>>

(* The next command with this target.                                        *)
Again(r) ==
  /\ pc[r] \in {"ok", "err"}
  /\ Goto(r, "record")
  /\ rec' = [rec EXCEPT ![r] = NoRecord]
  /\ read' = [read EXCEPT ![r] = NoIdentity]
  /\ met' = [met EXCEPT ![r] = Nobody] /\ owed' = [owed EXCEPT ![r] = {}]
  /\ UNCHANGED <<proc, starts, runVars>>

-----------------------------------------------------------------------------

Next ==
  \/ \E p \in Pid : NodeStarts(p) \/ Exit(p) \/ Reap(p)
  \/ \E e \in Run :
       \/ Exec(e) \/ Kill(e)
       \/ Spawn(e) \/ Sleep(e) \/ Identify(e) \/ Open(e) \/ Fill(e)
  \/ \E r \in Resolver :
       FindByNumber(r) \/ FindByName(r) \/ ReadIdentity(r) \/ Compare(r) \/ Again(r)

Spec == Init /\ [][Next]_vars

-----------------------------------------------------------------------------

(* "Implement process identity checks using /proc, executable path, start     *)
(* time, and command line--not PID alone" (roadmap-todo.md:210): a name that  *)
(* resolves is that of the very process its run started, not of a later one   *)
(* with the PID, even one of the same program, as a service that is started   *)
(* again is.                                                                  *)
NoImpostor ==
  \A r \in Resolver : pc[r] = "ok" /\ rec[r].by # Nobody => met[r] = rec[r].by

(* "Capture identity after that transition so later validation fingerprints   *)
(* the real app" (process.rs:38-39): a name that its last run holds when it is *)
(* asked for is not refused while the process of this run lives, whoever takes *)
(* the name meanwhile. The command is one that execs within the 100 ms the     *)
(* code allows for it.                                                         *)
StaysResolvable ==
  \A r \in Resolver : pc[r] = "err" => \A e \in owed[r] \cap Prompt : ~Lives(e)

=============================================================================
