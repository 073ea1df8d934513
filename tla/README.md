# Edo Tensei: TLA+ specifications

Edo Tensei (`edo`) takes a snapshot of live CUDA processes and brings them back:
it drives each process through the CUDA driver's checkpoint calls, has CRIU dump
the process tree, writes a manifest beside the images, and later does the reverse.
This directory holds TLA+ models of that program, the TLC configurations that
check them, and proofs of their main properties that TLAPS checks.

Paths below are relative to the repository, so `main.rs` is `src/main.rs`.

## 1. The system and its parts

| Part | Code | State it keeps | Operations |
| --- | --- | --- | --- |
| CUDA checkpoint FFI | `cuda.rs` | none; the driver keeps a state per PID: RUNNING, LOCKED, CHECKPOINTED, FAILED | `state`, `lock`, `checkpoint`, `restore`, `unlock`, `wait_for_state` |
| CRIU wrapper | `criu.rs` | the snapshot directory, `/dev/shm/link_remap.*` | `dump`, `dump_group`, `restore`, `prepare_directory`, `cleanup_partial`, `clear_link_remap_artifacts` |
| Snapshot manifest | `snapshot.rs` | `manifest.json` in the snapshot directory | `write_group`, `read`, `verify_with_options`, `require_*_kind` |
| freeze-group | `main.rs` `freeze_group`, `recover_many`, `recover_cuda` | the Vec `locked`, for one run of the command | lock all, checkpoint all, dump, recover all, write the manifest |
| freeze, cpu-dump, cuda-roundtrip | `main.rs` `freeze`, `cpu_dump`, `cuda_roundtrip`, `journal` | `.edo/journal/<name>.jsonl` | the same for one process; freeze journals each phase and does not recover after a success |
| summon-group, summon, cpu-restore | `main.rs` `summon_group`, `parallel_cuda_calls`, `summon`, `cpu_restore` | `restored.pid`; the restored processes | verify, CRIU restore, find the restored PIDs, CUDA restore and unlock, one thread per PID |
| Process registry | `process.rs` | `.edo/runs/<name>.json` | `start`, `resolve`, `tree`, `find_by_identity` |
| snapshot-clean, snapshot-check | `main.rs` | removes or reads a snapshot directory | |
| FastAPI adapter | `examples/02_fastapi_resume/server.py` | accepting flag, requests in flight | `quiesce`, `resume`, `infer` |
| Kubernetes agent | `examples/08_kubernetes_migration/snapshot-agent/agent.py` | `network.json` in a snapshot directory | HTTP `/v1/snapshot`, `/v1/restore`, each one edo command |
| vLLM adapter | `examples/04_vllm_resume/vllm_adapter.py` | a work directory | warm, freeze, kill, restore |
| doctor, status, diff, cuda-state, demos, CLI parsing | `doctor.rs`, `main.rs`, `cli.rs`, `examples/` | none | reports and workloads |

### How they interact

Every edo command is a process of its own. It calls the driver through
`libcuda.so`, forks `criu` and waits for it, and reads and writes files. There is
no daemon, no lock file and no message between two edo commands. What they share
is outside all of them:

- the *driver's state* of each CUDA process. A call made in the wrong state is
  refused, and that is the only thing that keeps two commands apart;
- the *snapshot directories*. `prepare_directory` refuses one that exists, and
  then creates it with a call that accepts one created since;
- `/dev/shm/link_remap.*`, which each dump clears for the whole host;
- the *journal*, one file per directory name and current directory;
- the *targets* themselves, which serve requests and can exit at any time.

### What is hard about it

- *Interleaving.* Two commands on the same process, or into the same directory,
  with nothing but the driver and one existence test between them.
- *Partial failure.* A group is locked, then checkpointed, member by member. Any
  call may fail, and the error path must give back exactly what was taken.
- *Stale observations.* `wait_for_state` polls; a transition may complete after the
  deadline, and `recover_cuda` reads a state once and acts on it.
- *Crashes.* edo can be killed between any two calls. The processes it stopped
  stay stopped, and the files it was writing stay as they are.
- *Termination.* A wait on a state nobody is going to bring about has to end.

### What makes each part correct

| Part | Properties |
| --- | --- |
| freeze-group | one owner per CUDA process; what is held stays stopped until the dump; an error gives everything back; a manifest only for one complete dump of a stopped group; a published snapshot never changes; every run ends |
| freeze | the same for one process; the journal is ahead of the state; `snapshot.ready` tells the truth |
| summon-group | the PIDs restored are the ones CRIU brought back; no unlock before every restore has returned; a failure leaves nothing half restored |
| manifest | damage that is there when a command begins never reaches CRIU; a node that does not fit is refused, and nobody is refused without a cause |
| registry | a name never resolves to a process other than the one it was given to, and is not lost while that one lives |
| FastAPI adapter | "quiesced" is answered with no request in flight and none admitted until the dump; a quiesce is always answered |
| agent | a retry or a crash leaves a published snapshot alone; the address in `network.json` is only used for the snapshot it is of |

## 2. The modules

    CudaDriver ----+
                   +--> FreezeGroup --> MCFreezeGroup
    SnapshotStore -+        |  :
                   |        |  : refines
                   |        |  GroupCapture
                   |        +---------> FreezeGroupProofs --> FreezeGroupSnapshotProofs
                   +--> Freeze -------> MCFreeze, FreezeProofs
    CudaDriver -------> Summon -------> MCSummon, SummonProofs

    SnapshotVerify ---> SnapshotAgent -> MCSnapshotAgent, SnapshotAgentProofs
    ProcessRegistry -----------------> MCProcessRegistry, ProcessRegistryProofs
    FastApiQuiesce ------------------> MCFastApiQuiesce, FastApiQuiesceProofs

**CudaDriver** is the driver as `cuda.rs` uses it. `cuda[p]` is what `get_state`
reports. A call is accepted in its legal state with no other call in progress, and
is refused without effect otherwise. With `AsyncDriver` an accepted call may return
before its transition is visible: `pending[p]` is what the driver has still to do,
and `Complete` does it, some time or never. That is why the code polls, and it
makes a timeout race a late transition. `Break` is the driver's FAILED state, `Die`
the exit of a target. `WaitFails` says when `wait_for_state` can return an error:
a poll fails, a poll sees FAILED, or the deadline finds any state but the expected
one. There is no clock: a deadline may expire whenever the state is not the
expected one.

**SnapshotStore** is what taking a snapshot does to a directory. The data is
abstracted to *captures*: one capture is the files one `criu dump` wrote, with who
ran it and whether all CUDA owners were alive and CHECKPOINTED at that time. A
directory holds a set of captures, so two dumps in one directory show. The
manifest lists the captures that were there when the files were hashed; it is
absent, `partial` (`fs::write` has truncated it) or `complete` (`read` accepts it).

**FreezeGroup** is `edo freeze-group`, by several edo processes. `pc[e]` is the next
call of `e`; every call that can fail, and every one whose effect another process
can notice, is a step of its own. `idx` is the position in the loop, `locked` the
length of the Vec of that name (a prefix of the sorted PIDs), and `goal` what
`recover_many` was called for. `Abort` is the code's `let _ = recover_many(..)`
followed by `return Err`: its recovery runs, its result is dropped.

| Code (`main.rs`) | Actions |
| --- | --- |
| resolve, tree, parse_pids, load, 246-268 | `Start` |
| loop 1, 269-280 | `WaitRunning` |
| loop 2, 281-305 | `LockCall`, `WaitLocked` (`locked` grows after the wait, as in the code) |
| loop 3, 306-331 | `CheckpointCall`, `WaitCheckpointed` |
| dump_group, 332-337 | `Prepare`, `Create`, `Clear`, `Criu` |
| recover_many, 491-520 | `RecoverState`, `RecoverRestore`, `RecoverWaitLocked`, `RecoverUnlock`, `RecoverWaitRunning` |
| write_group, 343 | `Write`, `Fill`, `Chmod` |

**Freeze** is the three single-process commands beside each other, `Command[e]`
saying which one `e` runs: `freeze`, `cpu-dump` and `cuda-roundtrip`. A command is a
path of labels built from three kinds of step (`Log`, `Wait`, `Drive`) whose
arguments are the label after success and the one after an error; so `FreezeDown`
and `Roundtrip` read like the code they stand for, and the places where the code
says `?` and where it calls `recover_cuda` are the ones where the last argument is
`"err"` and `"recState"`. `JournalFile` is the file a freeze journals in: `journal`
takes the last component of the snapshot directory, or `snapshot` when there is none,
below `.edo/journal` of the current directory. So `journal` is a function of these
files, not of the directories, and several directories can share one.

**Summon** is the commands that bring a snapshot back: `summon-group`, `summon` and
`cpu-restore`, `Command[e]` saying which one `e` runs on the snapshot of the processes
`Recorded[e]`. Beside the driver's state it keeps the process table of the node: per
PID the identity the code compares (executable and command line) and who created the
process. `Criu` gives each process of the snapshot a free PID. For a group, `Tree` and
`Map` find the PIDs as `main.rs:381-416` does, `Worker` is one thread of
`parallel_cuda_calls` and `Join` the main thread waiting for them in order; `Exit`
ends the process, and with it the threads that have not made their call. For a single
process, `Pidfile` and `SummonUp` are `main.rs:221-235`. The state in which a process
comes back is that of its image, so it depends on the snapshot's `Kind[e]` and not on the
command: `cpu-restore` takes any kind (`Accepts`), and leaves a CUDA process CHECKPOINTED.

**GroupCapture** is what freeze-group promises, without loops, driver calls or files:
each command has the processes it holds, a capture (none, torn or good) and perhaps a
snapshot. A process is taken only from nobody; a capture needs the whole group; a
snapshot appears once, from a good capture, after the group has been let go; and
commands may let go at any time. `FreezeGroup!Promise` is the refinement mapping: what
is held is `Held`, the capture is read off the images in the directory, and the
snapshot is a manifest that can be read.

**SnapshotVerify** is one snapshot directory under the commands that read it
(`snapshot-check`, `cpu-restore`, `summon`, `summon-group` up to CRIU) and the one that
removes it. Nothing is held between two reads, so each is a step: the manifest, the
host, one file after the other in the order of the manifest. `snapshot-clean` removes
one entry at a time and the directory last. A file's content is which dump wrote it and
whether it is whole, altered or cut (of another size), which is all that sizes and
checksums can tell apart. `Decay` and `HostChanges` are the environment.

`host_manifest` runs `uname`, `$EDO_CRIU --version` and `nvidia-smi`, and drops their
errors. `Seen(h, p)` is the set of what it may return on the node `h` for a process whose
`EDO_CRIU` names `p`: each command in `Probes` may fail, for `unknown`, or for nothing
where it is `nvidia-smi`. `AtBest` is the one report in it for which none failed, and any
other is a fault (`Look`). The
writer of a manifest and each reader draw a report of their own, and `Compatible` compares
the two as `verify_with_options` does. A reader that could look at everything and is
refused goes by `unfit` (the node) or `refused` (a file); one that is refused because it
could not look, or whose read fails, ends at once. Every manifest has the schema version
of this edo, since nothing writes another: `snapshot.rs:149-154` cannot fire.

**SnapshotAgent** extends it by the HTTP agent of the Kubernetes example: requests that
wait at the socket, one handler at a time, each running freeze-group (its steps that
reach the directory; the others are in FreezeGroup) and then writing `network.json`, or
reading `network.json` and then running a summon-group, which is a reader of
SnapshotVerify. A `source_ipv4` in the request goes before the one in the file
(`Source`). `Crash` kills the pod with the edo in it. Statuses are not told apart:
a request is waiting, at a step of its handler, or over.

| Code (`agent.py`) | Actions |
| --- | --- |
| do_POST up to the branch, 117-127 | `Serve` |
| freeze-group, 131-133 | `Prepare`, `Dump`, `Hash`, `Open`, `Fill` |
| network.json, 134-139 | `Address`, `NetOpen`, `NetFill` |
| restore, 141-152 | `NetTest`, `NetLoad`, `Run` |
| send_json, 153-155 | `Answer`, `Reply` |

**ProcessRegistry** is `edo run` and `resolve` over the process table. A process is its
start time and a program (executable and command line together); `Exec` changes the
program, `Exit` leaves a zombie while its `edo run` lives, and PIDs are given again.
`read_identity` is three reads of `/proc`, and the record is truncated before it is
filled, so two runs of one name can overlap.

**FastApiQuiesce** is the service of example 02. A block under its condition is a step;
`wait` gives the lock up and what follows it is another. The operator is `run.sh`:
quiesce, look at `/ready`, dump, resume. `edo cpu-dump` leaves the source running, and
the model follows that process; that the restored copy starts from the image is what
the image's part of `QuiescedIsIdle` is for.

**Faulty** is a parameter of FreezeGroup, Freeze and Summon: the operations the
environment may make fail in a run (the list is at `Fault` in CudaDriver). Each is a
disjunct of the action it belongs to. `kill`, `die` and `driver` are a killed edo, an
exiting target and a target the driver fails.

The MC modules give the constants values. Operators named
`Action_Slip`, such as `LockCall_ErrorDropped`, are variants of an action with a
plausible error. The specification never uses them; each stands next to the action it
varies, and each property is shown to notice one of them.

## 3. What the runs check

| Run | Instance | Result |
| --- | --- | --- |
| `group_safety` | groups `<<1,2>>` and `<<2,3>>`, one directory, all faults, asynchronous driver | `TypeOK`, `Exclusive`, `HeldStopped`, `PublishedConsistent`, `OkPublished`, `PublishedKept`, `CapturesGroups` (the refinement), `EveryEdoEnds` hold |
| `group_rollback` | groups `<<1,2>>` and `<<3>>`, two directories, every call and wait before the recovery failing, synchronous driver | `RolledBack`, `StoppedRunsAgain` hold |
| `group_resume_race` | twice `<<1,2>>`, two directories, no faults | `SourceResumed` is violated |
| `group_link_remaps` | `<<1,2>>` and `<<3>>`, two directories, no faults | `LinkRemapsKept` is violated |
| `freeze_safety` | two freezes into two directories of one name and a roundtrip, one target, all faults but `driver`, asynchronous driver | `Exclusive`, `JournalAhead`, `ReadyIsReady` hold |
| `freeze_releases` | two freezes and a cpu-dump into one directory, one target, every call and wait before the recovery failing but the journal's, and its death, synchronous driver | `TypeOK`, `StoppedIsAccounted`, `EveryEdoEnds` hold |
| `freeze_source_stopped` | the same commands, the cpu-dump into another directory, no faults | `SourceRunsAfterFreeze` is violated |
| `summon_safety` | a summon-group of two workers with one identity, a summon of another snapshot, both CUDA snapshots, a process with the same executable; all faults but `driver`, synchronous driver | `TypeOK`, `Barrier`, `MatchedOnce`, `DrivesRestored`, `OkRuns`, `EveryEdoEnds` hold |
| `summon_replica` | a process with the identity of the workers is there, no faults | `DrivesRestored` is violated |
| `quiesce_safety` | three request threads, two operators | `TypeOK`, `InflightCounts`, `QuiescedIsIdle`, `QuiesceAnswers` hold |
| `registry_safety` | two runs of one name, two PIDs, three starts, one resolver that goes on | `TypeOK`, `NoImpostor`, `StaysResolvable` hold |
| `snapshot_safety` | two snapshot requests, a restore, a snapshot-check, a snapshot-clean, two files, two dumps, two kinds of node, one fault, a failing `uname` or query of the GPU's memory among them | `TypeOK`, `DamageFound`, `RefusedForCause`, `RemapsItsOwn`, `OnlyCleanUnpublishes` hold |

### The properties that hold

- *Exclusive*: no CUDA process is in the hands of two commands. A command holds a
  process from its lock call to its unlock call, and in a recovery it holds only
  what it has not yet released. The driver's refusal of a second lock is enough,
  provided that an error path never touches a process whose lock it did not get:
  the code returns without recovering the PID whose lock was refused.
- *HeldStopped*: what is held stays stopped, so no member's GPU memory moves
  between its checkpoint and the dump of the whole group.
- *PublishedConsistent*, *OkPublished*, *PublishedKept*: a manifest that can be read
  is about exactly one dump, of a group that was alive and CHECKPOINTED; exit code 0
  means such a manifest, of this command; and no later command alters it. In the
  instance the two commands use one directory and share a member, so the second
  cannot reach the directory while the first is at work: it is the driver's lock
  that protects the directory here. See "known gaps" for groups without a common
  member.
- *RolledBack*: whatever fails before the recovery (a call of the driver, one of the
  three waits, the dump, the manifest), a stopped process has a command that will release
  it, but for one: `locked` grows after the wait for LOCKED, so the PID whose wait failed
  is not in it (`LeftLocked`). That one stays LOCKED, alone, and is never CHECKPOINTED.
  *StoppedRunsAgain*: whatever else was stopped does run again.
- *JournalAhead*: whatever state a freeze leaves behind, when it is killed too, was
  announced in its journal file before. The file does not say by whom, so an entry of
  another freeze in the same file counts. *ReadyIsReady*: `snapshot.ready` is in a journal
  file only when one of the directories journalled there can be restored; when the file
  belongs to one directory, it is that one.
- *StoppedIsAccounted*: of the commands on one process only a freeze that succeeded
  leaves it stopped, if the journal can be written (see below).
- *EveryEdoEnds*: every command ends, also when it waits for a process that another
  one keeps stopped or that died, and when two groups lock overlapping lists.

- *Barrier*: no worker of a group runs before the GPU state of all of them is back,
  however the threads are scheduled and whichever of them fails. *MatchedOnce* and
  *DrivesRestored*: the PIDs driven are as many as were recorded, pairwise different,
  and created by this command's CRIU restore, as long as nothing else on the node has
  the recorded identity. *OkRuns*: exit code 0 of a summon or a summon-group means every
  restored process runs.

- *CapturesGroups*: FreezeGroup implements GroupCapture. It is stronger than the
  invariants above taken one by one: it says in which order a command may take, capture,
  let go and publish, and that no step of one command does two of these at once or
  touches another's.
- *DamageFound*: a file that is missing, cut or altered when a command reads the
  manifest stops that command, though the directory may be emptied or replaced between
  its reads. With `--skip-integrity` this holds of what is missing or of another size,
  unless the snapshot has been replaced by another one meanwhile. What happens to a file
  after it was checked is outside it.
- *RefusedForCause*: as long as nobody touches the snapshot or the node, no command whose
  looks at the node and the files all worked is refused for a file; restores write
  `restored.pid` and `restore.log` next to the images, and the agent `network.json`, and
  none of these makes a later check fail. And it is refused for the node only if the
  manifest has another node than it sees, which without a change of the node takes a
  writer that could not look, or another CRIU.
- *OnlyCleanUnpublishes*: whatever requests fail, are retried or are cut off by a crash,
  only `snapshot-clean` takes a published manifest away. *RemapsItsOwn*: the agent reads
  `network.json` before edo reads the manifest, a crash can leave it cut or absent, a
  `snapshot-clean` can take the one and leave the other, and still an address that is not
  the request's own is that of the snapshot edo restores. Only the agent dumps into the
  directory here, one request at a time (see the gaps).
- *NoImpostor*: a name that resolves is the process its run started, not a later one
  with the PID, of the same program even. *StaysResolvable*: a name is not refused while
  the process of the run that held it when it was asked for lives, whoever takes the name
  meanwhile, provided the command execs within the 100 ms the code waits for it.
- *InflightCounts*, *QuiescedIsIdle*: no request is forgotten by the count, and from the
  decision to answer 200 to the dump no request is under way or admitted, unless a
  `/resume` has come in between. *QuiesceAnswers*: a quiesce is answered, whatever
  becomes of the requests it waits for.

### Where the code and its documentation part

- `group_resume_race`: `recover_cuda` unlocks a process and then polls for RUNNING.
  Another freeze-group may lock it in between. The poll times out, `recover_many`
  stops there, the members after it stay CHECKPOINTED, and a dump that succeeded
  gets no manifest. The comment at `main.rs:338` says the originals are resumed.
- `group_link_remaps`: the dump clears every `link_remap.*` of the host, also those
  an earlier snapshot was told to keep (`criu.rs:72`).
- `freeze_source_stopped`: `freeze` dumps with `--leave-running` so that edo can
  "restore/unlock CUDA below" (`criu.rs:52`), and returns without doing so. No
  command takes the CHECKPOINTED source back to RUNNING.
- `summon_replica`: `find_by_identity` should "find a restored process"
  (`process.rs:120`), and returns any process of the node with the recorded executable
  and command line. A replica or the source itself, if its PID is larger, is restored
  and unlocked in the place of a worker, which stays CHECKPOINTED.

### Known gaps

The first is in `group_rollback`, as the exception its two properties make; the instances
above leave the others out, or the properties claim nothing about them.

- *A wait for LOCKED that fails.* When it does, `recover_many` is called without the PID it
  was for (`main.rs:295-303`): the freeze-group ends and the process stays LOCKED. A driver
  that is late is enough. `freeze` recovers its target in the same case.

- *Journal errors.* The journal entries after the lock are written with `?`, so one
  that cannot be appended ends freeze with its target LOCKED or CHECKPOINTED and no
  recovery. `freeze_releases` is about the other faults; `freeze_safety` includes it.
- *The journal's file.* Entries name neither directory nor process, and all snapshot paths
  with one last component share a file below one current directory; the examples all use
  `.../snapshot`. A freeze that was killed can have a journal that says `snapshot.ready`, of
  another directory. Nothing truncates the file either. The models start with an empty
  journal and have no `snapshot-clean` beside a freeze, so a `snapshot.ready` from before,
  of a snapshot that has been removed since, is not in them.
- *Late errors.* The manifest is complete before its chmod and before the last
  journal entry. If either fails, the command exits with an error and leaves a
  snapshot that `read` accepts.
- *Recovery errors.* `recover_many` stops at the first member it cannot recover, for
  example one that died, and the members after it stay stopped. `group_rollback` has no
  faults in the recovery, and no deaths.
- *One directory, unrelated groups.* Both can pass the existence test and dump into
  the same directory. `PublishedConsistent` and `PublishedKept` need that commands
  on one directory share a process, which `Chained` gives.
- *After a restore.* A summon that fails after CRIU leaves the processes it restored,
  CHECKPOINTED or LOCKED. And `summon_group` takes a timeout it never uses: with a
  driver that returns before a transition is visible, its unlock can be refused.
- *cpu-restore of a CUDA snapshot.* It takes any kind and calls no driver: it exits 0 with
  the process CHECKPOINTED.
- *Driver calls that do not return.* The model has a call return, in each of the threads
  that a join waits for without a deadline too.
- *Verification.* Driver, GPU and memory are compared only when both sides report them:
  while `nvidia-smi` fails, at the dump or at the restore, a GPU that is too small is let
  pass. The memory is not reported with several GPUs, whose sizes do not parse as one
  number; permissions, the GPU's uuid and its compute capability are never compared.
- *The node as it is seen.* A manifest whose writer could not run `uname` or CRIU has
  `unknown`, and is refused by every reader that can. The agent sets `EDO_CRIU`; a command
  by hand without it may look at another CRIU and be refused.
- *Checked files.* A file can change between its check and CRIU's opening it.
- *freeze-group by hand.* The agent's directory is dumped into by the agent only. Someone
  who cleans it and runs freeze-group between the agent's reading of `network.json` and
  edo's reading of the manifest makes that restore use the earlier address.
- *network.json.* The manifest is published before the address is known. A crash in
  between leaves a snapshot that is restored without remapping; one inside the write
  leaves a file that makes every restore through the agent fail.
- *Targets by number.* A target that parses as a number is compared with no identity,
  a run of such a name too. After resolve the command uses the number alone.
- *Two operators.* A `/resume` reopens the service for every operator, also between
  the 200 and the dump of another; `/quiesce` that answers 409 leaves it closed.
- *vLLM.* The adapter waits for the leader of the process group it has killed, not for
  the workers, before it runs summon-group.

## 4. Bounds and fairness

Two edo processes on three PIDs are the fewest that make groups overlap without
being equal; each group has two members, so that a loop can fail at its first and at
a later round. In MCFreeze there are two runs of freeze, as in a retry, and a
third command of the other kind; the freezes share the directory in `freeze_releases`, and
the journal file only in `freeze_safety` (`ReadyIsTrue` is about any number of directories
and names). MCSummon has four PIDs, three of them free: just
enough for both snapshots, on either side of the bystander's PID, so that it can be
the larger or the smaller one. Each edo process runs one command, as in the code;
a retry is a second edo process. Nothing else is bounded: no counter grows but the
journal, by at most five events for each command.

In Summon a bystander starts RUNNING or CHECKPOINTED (what `freeze` leaves), and PIDs
are not reused. `summon_safety` leaves out `driver` because a process in FAILED refuses
its calls, as a dead one does, and that is in the run.

In MCSnapshotAgent a snapshot request and its retry are the fewest that put a second dump
in the place of the first; two files make a check stop between them; and one fault of the
environment is enough since each property is about the first. The nodes are one, and one
with a smaller GPU whose driver `nvidia-smi` does not report and whose CRIU in the PATH is
another than the agent's. `Probes`, the commands of `host_manifest` that may fail, has one
of each kind: `uname`, whose output has to be equal, and the query of the memory, which is
passed over when it fails; `criu --version` would be like the former. The snapshot
requests are interchangeable, so the run uses their symmetry (it checks no liveness
property); one snapshot-clean runs at a time. In MCProcessRegistry two PIDs and three
starts let one PID be given twice; PIDs are interchangeable. In MCFastApiQuiesce two
operators are a script and its retry, or two people.

`Faulty` leaves out `driver` in `freeze_safety`, because freeze does not look at the
target between its checkpoint and the dump, and a target the driver fails there is
dumped as it is. `AsyncDriver` is FALSE where a run asks what an error path gives
back: with a driver that may take for ever, a call can be given up and come true after
the recovery has looked. A failing wait is `pollRunning`, `pollLocked` or
`pollCheckpointed` in `Faulty` there, so the error path of every wait is still taken.

Fairness is weak, and only on the steps of the edo processes (in Summon, on the main
thread and each of its workers): a command that can take a step does. The code justifies
it: every wait has a deadline, every other call is one that returns. Nothing is assumed of
the driver's pending transitions (they may never complete), of faults, deaths or kills.
Deadlock is checked in every run; `Done` is the state in which all commands have ended.

In FastApiQuiesce the fair steps are the passing of a deadline, the return of the
0.1 s wait and the answer of a handler that has left its loop. Inferences are not fair:
one may hang. ProcessRegistry and SnapshotAgent state no liveness property and no
fairness.

## 5. What is proved

Every theorem is about `Spec`, for every value of the constants that the modules'
assumptions allow: any sets of edo processes, PIDs and directories, any groups,
snapshots and commands, and any set of faults, unless a hypothesis is named. The
assumptions on constants are what the code's inputs satisfy: PIDs are numbers, and a
group is sorted, without duplicates and not empty, which is what `parse_pids` returns
(`GroupAssumption`); each command has a target and a directory (`CommandAssumption`); a
snapshot has as many processes as its kind says (`SummonAssumption`).

Each inductive invariant was checked by TLC on the instances of section 3 before it was
proved, and each proof fails, at the step one expects, when the action it is about is
replaced by the variant that breaks the property.

| Module | Theorem | Property | Hypotheses |
| --- | --- | --- | --- |
| `FreezeGroupProofs` | `TypeCorrect` | `TypeOK` | |
| | `MutualExclusion` | `Exclusive` | |
| | `HeldStaysStopped` | `HeldStopped` | |
| | `FailureGivesBack` | `RolledBack` | `RollbackWorks`, `DisjointGroups` |
| `FreezeGroupSnapshotProofs` | `SnapshotsConsistent` | `PublishedConsistent` | `DirectoryIsOneGroups` |
| | `SuccessIsPublished` | `OkPublished` | `DirectoryIsOneGroups` |
| | `SnapshotsKept` | `PublishedKept`, of every step | `DirectoryIsOneGroups` |
| | `Refinement` | `CapturesGroups` | `DirectoryIsOneGroups` |
| `FreezeProofs` | `TypeCorrect` | `TypeOK` | |
| | `MutualExclusion` | `Exclusive` | |
| | `JournalIsAhead` | `JournalAhead` | |
| | `ReadyIsTrue` | `ReadyIsReady` | `DirectoryIsOneTargets`, `NeverBreaks` |
| | `FailureGivesBack` | `StoppedIsAccounted` | `RecoveryWorks` |
| `SummonProofs` | `TypeCorrect` | `TypeOK` | |
| | `EachMatchedOnce` | `MatchedOnce` | |
| | `DrivesItsOwn` | `DrivesRestored` | `NoReplica` |
| | `UnlocksWait` | `Barrier` | `NoReplica`, `Synchronous` |
| | `SuccessMeansRunning` | `OkRuns` | `NoReplica`, `Synchronous` |
| `ProcessRegistryProofs` | `TypeCorrect` | `TypeOK` | |
| | `NamesNoImpostor` | `NoImpostor` | |
| | `NamesResolve` | `StaysResolvable` | |
| `FastApiQuiesceProofs` | `TypeCorrect` | `TypeOK` | |
| | `InflightIsExact` | `InflightCounts` | |
| | `QuiescedStaysIdle` | `QuiescedIsIdle` | |
| `SnapshotAgentProofs` | `TypeCorrect` | `TypeOK` | |
| | `OnlyCleanTakes` | `OnlyCleanUnpublishes`, of every step | |
| | `FindsDamage` | `DamageFound` | |
| | `RefusesForCause` | `RefusedForCause` | |
| | `RemapsOwn` | `RemapsItsOwn` | |

### The hypotheses

Each is what the code needs and does not enforce; the known gaps of section 3 are what
happens without it, and the runs satisfy it.

- `RollbackWorks`: the driver is synchronous; restore, unlock and state do not fail; no
  frozen process becomes FAILED or dies, and edo is not killed. `recover_many` stops at
  its first error, so each of these leaves the rest of the list stopped. `load`, the lock
  and checkpoint calls, each of the three waits before the recovery (`pollRunning`,
  `pollLocked`, `pollCheckpointed`), the dump and the manifest may fail: what a failed
  wait for LOCKED leaves behind is in `RolledBack` itself. `DisjointGroups`: no two groups
  share a process; else a command can lock what another has just unlocked and still waits
  to see RUNNING, and that recovery fails (`group_resume_race` is the same race after a
  dump).
- `DirectoryIsOneGroups`: commands given one directory share a process. Only the lock
  of a common process keeps two of them from dumping into it.
- `DirectoryIsOneTargets`: what a freeze writes is otherwise written by freezes of the
  same target only, as in a retry. `NeverBreaks`: the driver fails no frozen process;
  freeze does not look at its target between the checkpoint and the dump.
- `RecoveryWorks`: the driver is synchronous; restore, unlock, state and journal do not
  fail; edo is not killed; and none of the commands is a cuda-roundtrip, which has no
  recovery. The calls and the waits before the recovery may fail, and the target may die.
- `NoReplica`: no process of the node, nor of another snapshot, has executable and
  command line of a worker of the group. `summon_replica` shows why.
- `Synchronous`: a driver call is done when it returns. `parallel_cuda_calls` polls
  nothing.

### The arguments

*FreezeGroup.* `TypeInv` is `TypeOK` with the position of each loop: in the second loop
`idx = locked + 1`, after it `locked` is the whole group, and in a recovery
`idx <= locked`. Without it `Group[e][idx[e]]` need not be a PID after a step. `HeldInv`
adds `Exclusive`, `HeldStopped` and what makes the two inductive together: a held process
has no transition to RUNNING pending (`HeldNotReleased`). A process that is RUNNING with
nothing pending is held by nobody, so a lock call that is accepted cannot take what
another holds; and a step of `e` that moves a process moves one that `e` holds, which by
`Exclusive` no other command does. Each action has its own lemma on what it does to `Held`.

`StrandInv` adds what the last driver call has left (`StateBy`): under the hypotheses the
waits of a recovery then cannot fail, so a command that goes on past a position it held
has let that process run. A command that has given up after a failed wait for LOCKED has
that one PID behind its list, LOCKED, which no other command's group contains.

*Its snapshots.* `SnapshotInv` adds three layers to that. `StopInv`: what a command has
checkpointed stays CHECKPOINTED or FAILED with nothing pending, up to its dump, since
only its holder calls the driver for it. `DirectoryInv`: a directory that has been
entered was entered by a command that holds its whole group or has finished, so that by
the common process no other command is beyond the existence test. `ResumeInv`: from a
successful dump on, a command goes to its manifest or ends, and the images and the
manifest are its own. The refinement is proved step by step: the calls of a loop are
`Take` or a stutter, `criu` is `Capture` or `Discard`, what a recovery does is `LetGo`,
and `Fill` is `Publish`; the lemma `OthersKeepTheirs` says that no step changes what
`Promise` reads of another command.

*Freeze.* Exclusion is the same argument for one target each (`HeldInv`). The journal is
ahead because each call comes after its entry (`LogsBy`), because a transition that is
pending was accepted from a legal state (`PendingInv`), and because a process that is
stopped was stopped by somebody who announced it: `AheadInv` says so of a roundtrip too,
whose lock may complete when it has given up. `ReadyInv` follows one directory from the
existence test to the manifest (`WritesBy`), with the target settled from the checkpoint
on (`SettledBy`). `AccountInv` has the state of the target for each label (`StateBy`).

*Summon.* `TypeInv` ties each command to the process table: what a command had CRIU create
is as many processes as were recorded, each with a recorded identity (`TableInv`), and
what it has found of them is a list without repetitions (`FoundInv`, `MatchedOnce`). Under
`NoReplica` a PID with a worker's identity is one of these, so a list of full length is
exactly the restored set: that is what lets `Barrier`, about all the restored processes,
follow from the threads' results, which are about the PIDs found. `StageBy` says which
states they can be in while the first threads run, once all are joined, and while the
second ones run; a thread that is left behind by an error has no process of its own any
more when the command has ended.

*ProcessRegistry.* The key is `ClaimInv`: a start time belongs to one run. Whoever mentions
it (the process, its run's own reads, a record, a resolver of what it has met) says so of
the same run, so a comparison that finds equal start times has met the process that was
recorded. For `StaysResolvable`, `Fits` says how much of an identity has been read and
that this much is the process's, and `FileInv` that a run that opened its record alone
finds it unharmed.

*FastApiQuiesce.* `QuiescedIsIdle` speaks of a /quiesce that has left its loop; what makes
it inductive is `Closed`: a /quiesce that is still waiting, and has not been reopened,
keeps the service closed, and nobody is in a handler before the startup opens it.
`InflightCounts` is needed with it: the loop ends when the count is 0, and only because
the count is exact does that mean that nobody is served (`NobodyServes`).

*The snapshot directory and the agent.* `HandlerInv` says what a snapshot request finds at
each of its labels (`DirectoryBy`): since the directory was not there when it began and
requests are served one at a time, the manifest and `network.json` are absent, its own or
cut by itself, which is `OnlyCleanUnpublishes`. `PastInv` is about time: what a manifest
lists `Follows` into what is in the files now, so a file never comes back to the content
it was hashed with, and damage seen once stays damage until the file has been looked at
(`HurtBy`). A manifest that has gone does not return either (`NeverReturns`), because the
next one is of a later dump (`NewInv`); that carries the clause about `--skip-integrity`.
`FitInv` ties a manifest, and the draft of one, to the files as long as nothing has been
disturbed; of the node it needs no more than that `Compatible` is reflexive on reports.
`AddressInv` says that an address is loaded only while no snapshot request is under way, from a `network.json` that agrees with the manifest, and
that a restore which has not read its manifest yet finds the one the address is of or a
torn or absent one, for as long as it runs.

### Left to TLC

The liveness properties, `EveryEdoEnds`, `StoppedRunsAgain` and `QuiesceAnswers`: the
backends have no rule for fairness that would reach them. Every invariant and action
property that a passing run checks is a theorem.

## 6. What is not modelled, and the plan

- `restore_thread_id` and driver states the code does not know: every caller treats
  them as an error.
- PID reuse in FreezeGroup, Freeze and Summon: a PID that died does not come back there.
  ProcessRegistry has it.
- `doctor`, the reports (`status`, `snapshot-diff`, `cuda-state`), `cuda-init`, the CLI,
  the demos and the fixtures keep no state and decide nothing for the other commands.
- The vLLM adapter is a sequential script of one user over freeze-group and
  summon-group, which are modelled; what it adds is waiting for a port.
- Permissions (`secure_directory`, `secure_file`) are calls that may fail, no more.

What is left to do is the safety half of termination, which needs no fairness: a rank for
each command, and the theorem that every step of its own lowers it, in FreezeGroup, Freeze
and Summon. TLC then only has to show that such steps happen.
