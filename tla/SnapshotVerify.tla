---------------------------- MODULE SnapshotVerify --------------------------
(* The commands that read a snapshot and the one that removes it (snapshot.rs *)
(* read, verify_with_options, host_manifest, snapshot_files; main.rs          *)
(* snapshot_check, cpu_restore, summon, summon_group up to CRIU,              *)
(* snapshot_clean), on one snapshot directory. None of them holds anything    *)
(* while it works: the directory can change between any two of its reads, the *)
(* host can be upgraded, a file can go bad.                                   *)
EXTENDS Naturals

CONSTANTS
  File,          \* the image files, numbered as paths.sort() orders them
  Host,          \* what the node may be; criu: a version for every program
                 \* that EDO_CRIU may name
  Probes,        \* the commands of host_manifest that may fail
  Kind,          \* what a snapshot of this directory is: manifest.kind
  Reader,        \* edo processes that check or restore
  Command,       \* what each runs
  Criu,          \* the program that its EDO_CRIU names, or `criu' by default
  Cleaner,       \* `edo snapshot-clean --yes' processes
  MaxGen,        \* bound: dumps into the directory
  MaxFaults      \* bound: files that go bad, changes of the node, looks at it
                 \* in which a command fails

Unknown == "unknown"                 \* for the output of uname and of criu
None == "none"                       \* nvidia-smi reports nothing

ASSUME VerifyAssumption ==
  /\ File \subseteq Nat
  /\ \A h \in Host : h.memory \in Nat              \* 0: not reported
  /\ Probes \subseteq {"uname", "criu", "driver", "gpu", "memory"}
  /\ Kind \in {"cpu-criu", "cuda-criu", "cuda-criu-group"}
  /\ Command \in [Reader -> {"snapshot-check", "cpu-restore", "summon", "summon-group"}]
  /\ \A e \in Reader : \A h \in Host : Criu[e] \in DOMAIN h.criu
  /\ MaxGen \in Nat /\ MaxFaults \in Nat

VARIABLES
  host,          \* the node as it is now
  faults,        \* faults of the environment so far
  there,         \* the directory exists
  data,          \* what is in each file, or NoFile
  manifest,
  network,       \* network.json, which the agent adds: the dump it is about
  gen,           \* dumps so far
  rpc,           \* program counter of the readers and cleaners
  skip,          \* --skip-integrity
  m,             \* the manifest a reader goes by
  left,          \* the files it has not looked at yet
  hurt,          \* history: files that were damaged when it read the manifest
  disturbed      \* history: something has changed since the last manifest

envVars == <<host, faults>>
dirVars == <<there, data, manifest, network, gen>>
readerVars == <<rpc, skip, m, left, hurt>>

(* Equal contents have equal checksums. What is cut has another size.        *)
Content == [gen : 1..MaxGen, state : {"whole", "altered", "cut"}]
NoFile == [gen |-> 0]

(* What host_manifest returns on h, with p for EDO_CRIU, when every command it *)
(* runs succeeds.                                                            *)
AtBest(h, p) == [h EXCEPT !.criu = @[p]]

MayMiss(probe, value, otherwise) ==
  IF probe \in Probes THEN {value, otherwise} ELSE {value}

(* What it returns at all: it drops the error of each of the commands.       *)
Seen(h, p) ==
  {[arch |-> h.arch, kernel |-> k, criu |-> c, driver |-> d, gpu |-> g, memory |-> n] :
     k \in MayMiss("uname", h.kernel, Unknown), c \in MayMiss("criu", h.criu[p], Unknown),
     d \in MayMiss("driver", h.driver, None), g \in MayMiss("gpu", h.gpu, None),
     n \in MayMiss("memory", h.memory, 0)}

(* A look at the node, by a process with p for EDO_CRIU. One that something   *)
(* goes wrong with is a fault.                                               *)
Look(p, seen) ==
  /\ seen \in Seen(host, p)
  /\ \/ seen = AtBest(host, p) /\ faults' = faults
     \/ seen # AtBest(host, p) /\ faults < MaxFaults /\ faults' = faults + 1

Report == UNION {UNION {Seen(h, p) : p \in DOMAIN h.criu} : h \in Host}

(* Every manifest has the schema_version of this edo, which reads no other.  *)
NoManifest == [state |-> "none"]
TornManifest == [state |-> "torn"]
Complete == [state : {"complete"}, gen : 1..MaxGen, host : Report,
             sum : [File -> Content \cup {NoFile}]]
Published == manifest.state = "complete"

NoNetwork == 0
TornNetwork == MaxGen + 1

VerifiedLabel == {"verified", "criu"}
ReaderLabel == {"read", "host", "files", "unfit", "refused"} \cup VerifiedLabel
CleanerLabel == {"test", "removing"}

VerifyTypeOK ==
  /\ host \in Host
  /\ faults \in 0..MaxFaults
  /\ there \in BOOLEAN
  /\ data \in [File -> Content \cup {NoFile}]
  /\ manifest \in {NoManifest, TornManifest} \cup Complete
  /\ network \in 0..(MaxGen + 1)
  /\ gen \in 0..MaxGen
  /\ rpc \in [Reader \cup Cleaner -> ReaderLabel \cup CleanerLabel \cup {"ended"}]
  /\ skip \in [Reader -> BOOLEAN]
  /\ m \in [Reader -> Complete \cup {NoManifest}]
  /\ left \in [Reader -> SUBSET File]
  /\ hurt \in [Reader -> SUBSET File]
  /\ disturbed \in BOOLEAN
  /\ ~there => manifest = NoManifest /\ network = NoNetwork /\ \A f \in File : data[f] = NoFile

VerifyInit ==
  /\ host \in Host
  /\ faults = 0
  /\ there = FALSE
  /\ data = [f \in File |-> NoFile]
  /\ manifest = NoManifest
  /\ network = NoNetwork
  /\ gen = 0
  /\ rpc = [e \in Reader \cup Cleaner |-> IF e \in Reader THEN "read" ELSE "test"]
  /\ skip \in [Reader -> BOOLEAN]
  /\ \A e \in Reader : Command[e] \in {"snapshot-check", "cpu-restore"} => ~skip[e]
  /\ m = [e \in Reader |-> NoManifest]
  /\ left = [e \in Reader |-> {}]
  /\ hurt = [e \in Reader |-> {}]
  /\ disturbed = FALSE

Go(e, l) == rpc' = [rpc EXCEPT ![e] = l]

Exit(e) ==
  /\ Go(e, "ended")
  /\ m' = [m EXCEPT ![e] = NoManifest]
  /\ left' = [left EXCEPT ![e] = {}]
  /\ hurt' = [hurt EXCEPT ![e] = {}]

-----------------------------------------------------------------------------
(* verify_with_options.                                                      *)

Agree(a, b) == a = None \/ b = None \/ a = b

(* Architecture, kernel and CRIU have to be equal as they are, `unknown' too. *)
(* Driver, GPU and memory count for CUDA snapshots, when both sides know.    *)
Compatible(required, available) ==
  /\ required.arch = available.arch
  /\ required.kernel = available.kernel
  /\ required.criu = available.criu
  /\ Kind # "cpu-criu" =>
       /\ Agree(required.driver, available.driver)
       /\ Agree(required.gpu, available.gpu)
       /\ required.memory = 0 \/ available.memory = 0 \/ available.memory >= required.memory

Listed(sum) == {f \in File : sum[f] # NoFile}

(* The outcomes of the checks of one file. The size of another dump's file   *)
(* may be the same or not.                                                   *)
SameSize(a, b) ==
  IF a = NoFile THEN {FALSE}
  ELSE IF a.gen # b.gen THEN BOOLEAN
  ELSE {(a.state = "cut") = (b.state = "cut")}

(* Mutant of Passes: a file that cannot be looked at is passed over.         *)
Passes_MissingPasses(e, f) ==
  {(skip[e] /\ s) \/ data[f] \in {m[e].sum[f], NoFile} : s \in SameSize(data[f], m[e].sum[f])}

Passes(e, f) ==
  {s /\ (skip[e] \/ data[f] = m[e].sum[f]) : s \in SameSize(data[f], m[e].sum[f])}

(* What this reader is asked to notice.                                      *)
Damaged(e, sum) ==
  {f \in Listed(sum) : IF skip[e] THEN SameSize(data[f], sum[f]) = {FALSE} ELSE data[f] # sum[f]}

(* A read of the manifest may fail by itself, too.                           *)
ReadManifest(e) ==
  /\ rpc[e] = "read"
  /\ \/ /\ Published
        /\ Go(e, "host")
        /\ m' = [m EXCEPT ![e] = manifest]
        /\ left' = [left EXCEPT ![e] = Listed(manifest.sum)]
        /\ hurt' = [hurt EXCEPT ![e] = Damaged(e, manifest.sum)]
     \/ Exit(e)
  /\ UNCHANGED <<envVars, dirVars, skip, disturbed>>

(* verify_with_options does not tell a node that is different from one that   *)
(* it failed to look at. Here only the former goes by `unfit'; the latter     *)
(* ends the command at once, and so does a file that cannot be read.          *)
CheckHost(e) ==
  /\ rpc[e] = "host"
  /\ \E seen \in Seen(host, Criu[e]) :
       /\ Look(Criu[e], seen)
       /\ IF Compatible(m[e].host, seen) THEN Go(e, "files") /\ UNCHANGED <<m, left, hurt>>
          ELSE IF seen = AtBest(host, Criu[e]) THEN Go(e, "unfit") /\ UNCHANGED <<m, left, hurt>>
          ELSE Exit(e)
  /\ UNCHANGED <<host, dirVars, skip, disturbed>>

CheckFile(e) ==
  /\ rpc[e] = "files"
  /\ \E f \in left[e] :
       /\ \A g \in left[e] : f <= g
       /\ \/ /\ TRUE \in Passes(e, f) /\ left' = [left EXCEPT ![e] = @ \ {f}]
             /\ UNCHANGED <<rpc, m, hurt>>
          \/ /\ FALSE \in Passes(e, f) /\ left' = [left EXCEPT ![e] = {}]
             /\ Go(e, "refused") /\ UNCHANGED <<m, hurt>>
          \/ Exit(e)
  /\ UNCHANGED <<envVars, dirVars, skip, disturbed>>

Refused(e) ==
  /\ rpc[e] \in {"unfit", "refused"} /\ Exit(e)
  /\ UNCHANGED <<envVars, dirVars, skip, disturbed>>

Verified(e) ==
  /\ rpc[e] = "files" /\ left[e] = {}
  /\ Go(e, "verified")
  /\ UNCHANGED <<envVars, dirVars, skip, m, left, hurt, disturbed>>

Checked(e) ==
  /\ rpc[e] = "verified" /\ Command[e] = "snapshot-check"
  /\ Exit(e)
  /\ UNCHANGED <<envVars, dirVars, skip, disturbed>>

(* require_cuda_kind, require_group_kind. cpu_restore takes any kind.        *)
RightKind(e) ==
  \/ Command[e] = "cpu-restore"
  \/ Command[e] = "summon" /\ Kind = "cuda-criu"
  \/ Command[e] = "summon-group" /\ Kind = "cuda-criu-group"

CheckKind(e) ==
  /\ rpc[e] = "verified" /\ Command[e] # "snapshot-check"
  /\ IF RightKind(e) THEN Go(e, "criu") /\ UNCHANGED <<m, left, hurt>> ELSE Exit(e)
  /\ UNCHANGED <<envVars, dirVars, skip, disturbed>>

(* Mutant of Restore: CRIU logs into the dump's log, which is in the manifest. *)
Restore_SameLog(e) ==
  /\ rpc[e] = "criu"
  /\ \E f \in Listed(m[e].sum) :
       data' = [data EXCEPT ![f] = IF @ = NoFile THEN @ ELSE [@ EXCEPT !.state = "altered"]]
  /\ Exit(e)
  /\ UNCHANGED <<envVars, there, manifest, network, gen, skip, disturbed>>

(* criu::restore succeeds or fails. It writes restored.pid and restore.log   *)
(* into the directory, which the manifest does not list.                     *)
Restore(e) ==
  /\ rpc[e] = "criu"
  /\ Exit(e)
  /\ UNCHANGED <<envVars, dirVars, skip, disturbed>>

ReaderStep(e) ==
  \/ ReadManifest(e) \/ CheckHost(e) \/ CheckFile(e) \/ Refused(e)
  \/ Verified(e) \/ Checked(e) \/ CheckKind(e) \/ Restore(e)

-----------------------------------------------------------------------------
(* snapshot_clean: remove_dir_all unlinks one entry after the other, in no   *)
(* order to rely on, then removes the directory.                             *)

CleanTest(c) ==
  /\ rpc[c] = "test"
  /\ Go(c, IF there THEN "removing" ELSE "ended")
  /\ UNCHANGED <<envVars, dirVars, skip, m, left, hurt, disturbed>>

CleanEntry(c) ==
  /\ rpc[c] = "removing"
  /\ \/ \E f \in File : data[f] # NoFile /\ data' = [data EXCEPT ![f] = NoFile]
                        /\ UNCHANGED <<manifest, network>>
     \/ manifest # NoManifest /\ manifest' = NoManifest /\ UNCHANGED <<data, network>>
     \/ network # NoNetwork /\ network' = NoNetwork /\ UNCHANGED <<data, manifest>>
  /\ disturbed' = TRUE
  /\ UNCHANGED <<envVars, there, gen, readerVars>>

Empty == manifest = NoManifest /\ network = NoNetwork /\ \A f \in File : data[f] = NoFile

(* Mutant of CleanEnd: entries added meanwhile go with the directory.        *)
CleanEnd_Forced(c) ==
  /\ rpc[c] = "removing"
  /\ there' = FALSE /\ Go(c, "ended")
  /\ UNCHANGED <<envVars, data, manifest, network, gen, skip, m, left, hurt, disturbed>>

(* An entry that has been added meanwhile, or any other error, ends it with  *)
(* the directory in place.                                                   *)
CleanEnd(c) ==
  /\ rpc[c] = "removing"
  /\ \/ Empty /\ there' = FALSE /\ Go(c, "ended")
     \/ there' = there /\ Go(c, "ended")
  /\ UNCHANGED <<envVars, data, manifest, network, gen, skip, m, left, hurt, disturbed>>

CleanerStep(c) == CleanTest(c) \/ CleanEntry(c) \/ CleanEnd(c)

-----------------------------------------------------------------------------
(* The storage and the node.                                                 *)

Fault == faults < MaxFaults /\ faults' = faults + 1 /\ disturbed' = TRUE

Decay ==
  /\ \E f \in File : \E s \in {"altered", "cut"} :
       /\ data[f] # NoFile /\ data[f].state = "whole"
       /\ data' = [data EXCEPT ![f].state = s]
  /\ Fault
  /\ UNCHANGED <<host, there, manifest, network, gen, readerVars>>

(* An upgrade, or the directory is used on another node.                     *)
HostChanges ==
  /\ host' \in Host \ {host}
  /\ Fault
  /\ UNCHANGED <<dirVars, readerVars>>

-----------------------------------------------------------------------------

(* Damage that is there when a command begins never reaches CRIU: the command *)
(* finds every file that is missing, cut or altered ("reject ... missing or   *)
(* modified images by default", roadmap-todo.md:308), while snapshot-clean, a *)
(* new dump and decay go on beside it. With --skip-integrity it finds what    *)
(* is missing or of another size, unless the snapshot has been replaced.      *)
DamageFound ==
  \A e \in Reader : rpc[e] \in VerifiedLabel =>
    hurt[e] = {} \/ (skip[e] /\ manifest # m[e])

(* Who could look at everything is not refused without a cause: as long as    *)
(* nobody has touched the snapshot or the node, its manifest fits the files    *)
(* next to it, those an earlier restore has left there included, and the node *)
(* it was written on, unless its writer failed to look at the node or the     *)
(* reader goes by another CRIU.                                               *)
RefusedForCause ==
  \A e \in Reader : rpc[e] \in {"unfit", "refused"} =>
    \/ disturbed
    \/ manifest # m[e]
    \/ rpc[e] = "unfit" /\ m[e].host # AtBest(host, Criu[e])

=============================================================================
