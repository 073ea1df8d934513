----------------------------- MODULE SnapshotAgent --------------------------
(* The node agent of the Kubernetes example (snapshot-agent/agent.py), with   *)
(* the commands of SnapshotVerify beside it: an HTTP server with one thread   *)
(* that runs `edo freeze-group' or `edo summon-group' for a request and keeps *)
(* the address of the source pod in network.json, which edo does not know of. *)
(* All requests are about one snapshot name. They wait at the socket in any   *)
(* order; a retry is another request.                                        *)
EXTENDS SnapshotVerify

CONSTANTS
  Snapshots,     \* requests to /v1/snapshot
  Restores,      \* requests to /v1/restore; each runs a summon-group
  AgentCriu      \* the agent's CRIU, which it gives to all its commands

Request == Snapshots \cup Restores

ASSUME AgentAssumption ==
  /\ Kind = "cuda-criu-group"
  /\ Restores \subseteq Reader
  /\ \A r \in Restores : Command[r] = "summon-group" /\ Criu[r] = AgentCriu
  /\ \A h \in Host : AgentCriu \in DOMAIN h.criu
  /\ Snapshots \cap (Reader \cup Cleaner) = {}

VARIABLES
  req,           \* where the handler of each request is
  draft,         \* the manifest its freeze-group is about to write
  address        \* the source address a restore goes by: the dump it is of,
                 \* NoNetwork, or the request's own

vars == <<envVars, dirVars, readerVars, disturbed, req, draft, address>>
agentVars == <<req, draft, address>>
quietVars == <<envVars, rpc, skip, m, left, hurt, address>>

(* An address that the request gives for itself.                             *)
Given == MaxGen + 1

Handled == {"prepare", "dump", "hash", "open", "fill", "address", "netopen", "netfill",
            "nettest", "netload", "run"}

TypeOK ==
  /\ VerifyTypeOK
  /\ req \in [Request -> {"waiting", "over"} \cup Handled]
  /\ draft \in [Snapshots -> Complete \cup {NoManifest}]
  /\ address \in [Restores -> 0..MaxGen + 1]
  /\ \A r \in Snapshots : req[r] \in {"open", "fill", "address", "netopen", "netfill"}
                            => draft[r] # NoManifest

Init ==
  /\ VerifyInit
  /\ req = [r \in Request |-> "waiting"]
  /\ draft = [r \in Snapshots |-> NoManifest]
  /\ address = [r \in Restores |-> NoNetwork]

At(r, l) == req[r] = l
To(r, l) == req' = [req EXCEPT ![r] = l]
Step(r, l) == To(r, l) /\ UNCHANGED draft
Answer(r) == To(r, "over") /\ draft' = [draft EXCEPT ![r] = NoManifest]

-----------------------------------------------------------------------------
(* HTTPServer.                                                               *)

(* do_POST begins, when the request before it has been answered. A body that *)
(* does not parse, or an absolute name elsewhere, is a 400. The name of all  *)
(* these requests gets through, as one with `..' does.                       *)
Serve(r) ==
  /\ At(r, "waiting")
  /\ \A q \in Request : req[q] \notin Handled
  /\ To(r, IF r \in Snapshots THEN "prepare" ELSE "nettest") \/ To(r, "over")
  /\ UNCHANGED <<envVars, dirVars, readerVars, disturbed, draft, address>>

(* The pod is killed with every process in it, and started again. The request *)
(* it was handling is lost; one that was waiting is sent again.              *)
Crash ==
  /\ \E r \in Request : req[r] \in Handled
  /\ req' = [r \in Request |-> IF req[r] \in Handled THEN "over" ELSE req[r]]
  /\ \E K \in {{r \in Restores : req[r] = "run"}} :
       /\ rpc' = [e \in DOMAIN rpc |-> IF e \in K THEN "ended" ELSE rpc[e]]
       /\ m' = [e \in Reader |-> IF e \in K THEN NoManifest ELSE m[e]]
       /\ left' = [e \in Reader |-> IF e \in K THEN {} ELSE left[e]]
       /\ hurt' = [e \in Reader |-> IF e \in K THEN {} ELSE hurt[e]]
  /\ draft' = [r \in Snapshots |-> NoManifest]
  /\ address' = [r \in Restores |-> NoNetwork]
  /\ UNCHANGED <<envVars, dirVars, skip, disturbed>>

-----------------------------------------------------------------------------
(* /v1/snapshot: the steps of freeze-group that reach the directory, then    *)
(* network.json. FreezeGroup has the others, which may fail as well.         *)

(* Mutant of Prepare: the directory is made if need be, and used.            *)
Prepare_NoTest(r) ==
  /\ At(r, "prepare")
  /\ there' = TRUE /\ Step(r, "dump")
  /\ UNCHANGED <<quietVars, data, manifest, network, gen, disturbed>>

(* prepare_directory, after the locks and the checkpoints of freeze-group.   *)
Prepare(r) ==
  /\ At(r, "prepare")
  /\ \/ ~there /\ there' = TRUE /\ Step(r, "dump")
     \/ there' = there /\ Answer(r)
  /\ UNCHANGED <<quietVars, data, manifest, network, gen, disturbed>>

(* criu dump; when it fails, cleanup_partial empties the directory.          *)
Dump(r) ==
  /\ At(r, "dump")
  /\ \/ /\ there /\ gen < MaxGen /\ gen' = gen + 1
        /\ data' = [f \in File |-> [gen |-> gen + 1, state |-> "whole"]]
        /\ Step(r, "hash")
        /\ UNCHANGED <<manifest, network, disturbed>>
     \/ /\ data' = [f \in File |-> NoFile]
        /\ manifest' = NoManifest /\ network' = NoNetwork
        /\ disturbed' = TRUE
        /\ Answer(r)
        /\ UNCHANGED gen
  /\ UNCHANGED <<quietVars, there>>

(* write_group: snapshot_files hashes what is there and host_manifest looks  *)
(* at the node. recover_many, before it, and either of them may fail.        *)
Hash(r) ==
  /\ At(r, "hash")
  /\ \/ /\ there
        /\ \E seen \in Seen(host, AgentCriu) :
             /\ Look(AgentCriu, seen)
             /\ draft' = [draft EXCEPT ![r] =
                            [state |-> "complete", gen |-> gen, host |-> seen, sum |-> data]]
        /\ disturbed' = FALSE
        /\ To(r, "open")
     \/ Answer(r) /\ UNCHANGED <<faults, disturbed>>
  /\ UNCHANGED <<host, readerVars, address, dirVars>>

(* fs::write creates or truncates manifest.json, then fills it.              *)
Open(r) ==
  /\ At(r, "open")
  /\ \/ there /\ manifest' = TornManifest /\ Step(r, "fill")
     \/ manifest' = manifest /\ Answer(r)
  /\ UNCHANGED <<quietVars, there, data, network, gen, disturbed>>

(* A manifest.json that has been removed meanwhile stays removed, and        *)
(* secure_file, which may fail by itself, fails for it.                      *)
Fill(r) ==
  /\ At(r, "fill")
  /\ \/ /\ manifest' = IF manifest = TornManifest THEN draft[r] ELSE manifest
        /\ (manifest' # NoManifest /\ Step(r, "address")) \/ Answer(r)
     \/ manifest' = manifest /\ Answer(r)
  /\ UNCHANGED <<quietVars, there, data, network, gen, disturbed>>

(* namespace_ipv4: an address, none, or nsenter cannot be run.               *)
Address(r) ==
  /\ At(r, "address")
  /\ Step(r, "netopen") \/ Answer(r)
  /\ UNCHANGED <<envVars, dirVars, readerVars, disturbed, address>>

(* write_text truncates network.json, then fills it. What it raises is a 400. *)
NetOpen(r) ==
  /\ At(r, "netopen")
  /\ \/ there /\ network' = TornNetwork /\ Step(r, "netfill")
     \/ network' = network /\ Answer(r)
  /\ UNCHANGED <<quietVars, there, data, manifest, gen, disturbed>>

NetFill(r) ==
  /\ At(r, "netfill")
  /\ \/ /\ network' = IF network = TornNetwork THEN draft[r].gen ELSE network
        /\ Answer(r)
     \/ network' = network /\ Answer(r)
  /\ UNCHANGED <<quietVars, there, data, manifest, gen, disturbed>>

SnapshotStep(r) ==
  \/ Prepare(r) \/ Dump(r) \/ Hash(r) \/ Open(r) \/ Fill(r)
  \/ Address(r) \/ NetOpen(r) \/ NetFill(r)

-----------------------------------------------------------------------------
(* /v1/restore.                                                              *)

(* The request's source_ipv4, be it null, goes before the address found.     *)
Source(r, found) == \E a \in {found, Given, NoNetwork} : address' = [address EXCEPT ![r] = a]

NetTest(r) ==
  /\ At(r, "nettest")
  /\ \/ network = NoNetwork /\ To(r, "run") /\ Source(r, NoNetwork)
     \/ network # NoNetwork /\ To(r, "netload") /\ UNCHANGED address
  /\ UNCHANGED <<envVars, dirVars, readerVars, disturbed, draft>>

(* Mutant of NetLoad: a cut file is taken for the address it still spells.   *)
NetLoad_TornLoads(r) ==
  /\ At(r, "netload")
  /\ \/ /\ network # NoNetwork
        /\ To(r, "run")
        /\ \E n \in 1..MaxGen : (network = TornNetwork \/ n = network) /\ Source(r, n)
     \/ network = NoNetwork /\ To(r, "over") /\ UNCHANGED address
  /\ UNCHANGED <<envVars, dirVars, readerVars, disturbed, draft>>

(* json.loads raises on a torn file, read_text on one that is gone by now,   *)
(* before the request's own address is looked at.                            *)
NetLoad(r) ==
  /\ At(r, "netload")
  /\ \/ network \in 1..MaxGen /\ To(r, "run") /\ Source(r, network)
     \/ network \notin 1..MaxGen /\ To(r, "over") /\ UNCHANGED address
  /\ UNCHANGED <<envVars, dirVars, readerVars, disturbed, draft>>

(* The summon-group of the request is a reader. Once CRIU is through, the    *)
(* rest of it, in Summon, succeeds or fails.                                 *)
Run(r) ==
  /\ At(r, "run")
  /\ ReaderStep(r)
  /\ UNCHANGED agentVars

Reply(r) ==
  /\ At(r, "run")
  /\ rpc[r] = "ended" /\ To(r, "over")
  /\ address' = [address EXCEPT ![r] = NoNetwork]
  /\ UNCHANGED <<envVars, dirVars, readerVars, disturbed, draft>>

RestoreStep(r) == NetTest(r) \/ NetLoad(r) \/ Run(r) \/ Reply(r)

-----------------------------------------------------------------------------
(* The commands given by hand, and the environment.                          *)

Operator(e) == ReaderStep(e) /\ UNCHANGED agentVars
Clean(c) == CleanerStep(c) /\ UNCHANGED agentVars
Environment == (Decay \/ HostChanges) /\ UNCHANGED agentVars

Done ==
  /\ \A r \in Request : At(r, "over")
  /\ \A e \in (Reader \ Restores) \cup Cleaner : rpc[e] = "ended"
  /\ UNCHANGED vars

Next ==
  \/ \E r \in Request : Serve(r)
  \/ \E r \in Snapshots : SnapshotStep(r)
  \/ \E r \in Restores : RestoreStep(r)
  \/ \E e \in Reader \ Restores : Operator(e)
  \/ \E c \in Cleaner : Clean(c)
  \/ Crash
  \/ Environment
  \/ Done

Spec == Init /\ [][Next]_vars

-----------------------------------------------------------------------------

(* A snapshot that has been published stays as it is until somebody cleans   *)
(* it: no retry, no crash and no failed request replaces or empties it       *)
(* (prepare_directory refuses a directory that exists).                      *)
OnlyCleanUnpublishes ==
  [][Published /\ manifest' # manifest => \E c \in Cleaner : CleanEntry(c)]_vars

(* A restore remaps the address of the very dump it restores, the one that its *)
(* request gives, or none. network.json, which is in no manifest and not       *)
(* verified, is never that of another dump: not after a crash between the      *)
(* manifest and network.json, nor when a clean removed one and not the other.  *)
RemapsItsOwn ==
  \A r \in Restores : rpc[r] \in VerifiedLabel => address[r] \in {NoNetwork, Given, m[r].gen}

=============================================================================
