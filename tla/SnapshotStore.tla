---------------------------- MODULE SnapshotStore ---------------------------
(* The snapshot directories of a node and CRIU's link remaps, as criu.rs and *)
(* snapshot.rs leave them while a snapshot is taken.                         *)
(*                                                                           *)
(* An image set is the set of captures whose files are in the directory: one *)
(* capture is what one `criu dump' wrote. It records which edo process ran   *)
(* it and whether every CUDA owner was alive and CHECKPOINTED at that time.  *)
(* The manifest lists the files snapshot_files found, that is, captures.     *)
EXTENDS Naturals

CONSTANTS
  Dir,           \* snapshot directories
  Edo            \* edo processes, one command each

VARIABLES
  exists,        \* the directory is there
  images,        \* captures whose image files are in it
  manifest,      \* manifest.json: absent, cut short, or complete
  remaps         \* directories whose link_remap.* files are in /dev/shm

storeVars == <<exists, images, manifest, remaps>>

Capture == [by : Edo, quiescent : BOOLEAN]

NoManifest == [state |-> "none"]
Manifest == {NoManifest}
              \cup [state : {"partial", "complete"}, by : Edo, of : SUBSET Capture]

StoreTypeOK ==
  /\ exists \in [Dir -> BOOLEAN]
  /\ images \in [Dir -> SUBSET Capture]
  /\ manifest \in [Dir -> Manifest]
  /\ remaps \in SUBSET Dir

StoreInit ==
  /\ exists = [d \in Dir |-> FALSE]
  /\ images = [d \in Dir |-> {}]
  /\ manifest = [d \in Dir |-> NoManifest]
  /\ remaps = {}

(* What snapshot::read accepts: a manifest.json that parses.                 *)
Published(d) == manifest[d].state = "complete"

-----------------------------------------------------------------------------

(* fs::create_dir_all after the test in prepare_directory: it succeeds on a  *)
(* directory that another process has created since.                         *)
CreateDirectory(d) ==
  /\ exists' = [exists EXCEPT ![d] = TRUE]
  /\ UNCHANGED <<images, manifest, remaps>>

(* clear_link_remap_artifacts removes every link_remap.* of the host,        *)
(* whichever dump made it.                                                   *)
ClearLinkRemaps ==
  /\ remaps' = {}
  /\ UNCHANGED <<exists, images, manifest>>

(* A dump that succeeds. With EDO_KEEP_LINK_REMAP its link remaps stay.      *)
DumpSucceeds(d, c, keep) ==
  /\ images' = [images EXCEPT ![d] = @ \cup {c}]
  /\ remaps' = IF keep THEN remaps \cup {d} ELSE remaps
  /\ UNCHANGED <<exists, manifest>>

(* A dump that fails: cleanup_partial empties the directory but for dump.log *)
(* and does not remove it. A link remap may be left behind.                  *)
DumpFails(d) ==
  /\ images' = [images EXCEPT ![d] = {}]
  /\ manifest' = [manifest EXCEPT ![d] = NoManifest]
  /\ remaps' \in {remaps, remaps \cup {d}}
  /\ UNCHANGED exists

(* write_group: snapshot_files hashes what is there, then fs::write truncates *)
(* manifest.json, then fills it.                                             *)
OpenManifest(d, e) ==
  /\ manifest' = [manifest EXCEPT ![d] = [state |-> "partial", by |-> e, of |-> images[d]]]
  /\ UNCHANGED <<exists, images, remaps>>

(* Mutant of FillManifest: filling brings an unlinked manifest.json back.    *)
FillManifest_Recreates(d) ==
  /\ manifest' = [manifest EXCEPT ![d] = [@ EXCEPT !.state = "complete"]]
  /\ UNCHANGED <<exists, images, remaps>>

(* A manifest.json that cleanup_partial has unlinked meanwhile stays unlinked. *)
FillManifest(d) ==
  /\ manifest' = IF manifest[d] = NoManifest THEN manifest
                 ELSE [manifest EXCEPT ![d] =
                         [state |-> "complete", by |-> @.by, of |-> @.of]]
  /\ UNCHANGED <<exists, images, remaps>>

=============================================================================
