------------------------- MODULE SnapshotAgentProofs ------------------------
(* What holds of SnapshotAgent and SnapshotVerify for any requests, commands, *)
(* files and nodes, with any number of dumps, faults and crashes: a published *)
(* snapshot goes only by snapshot-clean, damage is found, nobody who could    *)
(* look at the node and the files is refused without a cause, and the address *)
(* in network.json is only ever used for its own snapshot.                    *)
EXTENDS SnapshotAgent, TLAPS

-----------------------------------------------------------------------------
(* The handlers and the directory.                                           *)

Drafting == {"open", "fill", "address", "netopen", "netfill"}
SnapshotLabel == {"prepare", "dump", "hash"} \cup Drafting
RestoreLabel == {"nettest", "netload", "run"}
(* A reader that goes by a manifest it has read.                             *)
Looking == {"host", "files", "unfit", "refused"} \cup VerifiedLabel

TypeInv ==
  /\ TypeOK
  /\ \A r \in Snapshots : req[r] \notin RestoreLabel /\ (req[r] = "hash" => gen # 0)
  /\ \A r \in Restores : req[r] \notin SnapshotLabel
  /\ \A e \in Reader :
       /\ rpc[e] \in ReaderLabel \cup {"ended"}
       /\ rpc[e] \in Looking => m[e] \in Complete /\ left[e] \subseteq Listed(m[e].sum)

OneAtATime == \A q, r \in Request : req[q] \in Handled /\ req[r] \in Handled => q = r

(* What a freeze-group that is at work finds in the directory: nothing that  *)
(* it has not put there, since it was not there when it began.               *)
DirectoryBy(r) ==
  /\ req[r] \in {"dump", "hash", "open"} => manifest = NoManifest
  /\ req[r] = "fill" => manifest \in {NoManifest, TornManifest}
  /\ req[r] \in {"address", "netopen", "netfill"} => manifest \in {NoManifest, draft[r]}
  /\ req[r] \in {"dump", "hash", "open", "fill", "address", "netopen"} => network = NoNetwork
  /\ req[r] = "netfill" => network \in {NoNetwork, TornNetwork}
  /\ req[r] \in Drafting => draft[r] \in Complete /\ draft[r].gen = gen

HandlerInv == TypeInv /\ OneAtATime /\ \A r \in Snapshots : DirectoryBy(r)

-----------------------------------------------------------------------------
(* A manifest and the files that become of those it lists: a file never comes *)
(* back to what it was.                                                      *)

Follows(a, b) == a = NoFile \/ a.gen > b.gen \/ (a.gen = b.gen /\ (b.state = "whole" \/ a = b))

Past(s) ==
  /\ s.gen <= gen
  /\ \A f \in Listed(s.sum) : s.sum[f].gen <= gen /\ Follows(data[f], s.sum[f])

PastInv ==
  /\ \A f \in File : data[f] # NoFile => data[f].gen <= gen
  /\ Published => Past(manifest)
  /\ \A r \in Snapshots : req[r] \in Drafting => Past(draft[r])
  /\ \A e \in Reader : rpc[e] \in Looking => Past(m[e])

(* No reader has the manifest that is about to be published.                 *)
NewInv ==
  \A e \in Reader : rpc[e] \in Looking =>
    \A r \in Snapshots : req[r] \in {"hash", "open", "fill"} => m[e].gen < gen

(* What a reader has to find is still there, and it has still to look at it. *)
HurtBy(e) ==
  rpc[e] \in {"host", "files"} /\ (skip[e] => manifest = m[e]) =>
    hurt[e] \subseteq left[e] \cap Damaged(e, m[e].sum)

(* The manifest fits the files until something changes.                      *)
FitInv ==
  ~disturbed =>
    /\ Published => manifest.sum = data
    /\ \A r \in Snapshots : req[r] \in {"open", "fill"} => draft[r].sum = data

VerifyInv ==
  /\ HandlerInv /\ PastInv /\ NewInv
  /\ (\A e \in Reader : HurtBy(e)) /\ FitInv
  /\ DamageFound /\ RefusedForCause

-----------------------------------------------------------------------------
(* The address.                                                              *)

AddressBy(r) ==
  /\ rpc[r] \in Looking => req[r] = "run"
  /\ address[r] # NoNetwork => req[r] = "run"
  /\ rpc[r] = "read" /\ Published => address[r] \in {NoNetwork, Given, manifest.gen}
  /\ rpc[r] \in Looking => address[r] \in {NoNetwork, Given, m[r].gen}

AddressInv ==
  /\ HandlerInv
  /\ Published => network \in {NoNetwork, TornNetwork, manifest.gen}
  /\ \A r \in Restores : AddressBy(r)

-----------------------------------------------------------------------------
(* The constants and the values.                                             *)

LEMMA AgentFacts ==
  /\ Restores \subseteq Reader
  /\ \A r \in Snapshots : r \in Request /\ r \notin Reader /\ r \notin Restores
  /\ \A r \in Restores : r \in Request
  /\ \A h \in Host : AgentCriu \in DOMAIN h.criu
  /\ MaxGen \in Nat
BY AgentAssumption, VerifyAssumption DEF Request

(* A report has a size of the memory, also where none is known.              *)
LEMMA Reports ==
  /\ \A h \in Host : \A p \in DOMAIN h.criu : Seen(h, p) \subseteq Report
  /\ \A x \in Report : x.memory \in Nat
<1>1. ASSUME NEW h \in Host, NEW p \in DOMAIN h.criu PROVE Seen(h, p) \subseteq Report
  BY DEF Report
<1>2. ASSUME NEW x \in Report PROVE x.memory \in Nat
  <2>1. PICK h \in Host : \E p \in DOMAIN h.criu : x \in Seen(h, p)
    BY DEF Report
  <2>2. MayMiss("memory", h.memory, 0) \subseteq Nat
    BY VerifyAssumption DEF MayMiss
  <2>3. x.memory \in MayMiss("memory", h.memory, 0)
    BY <2>1 DEF Seen
  <2> QED BY <2>2, <2>3
<1> QED BY <1>1, <1>2

LEMMA Values ==
  /\ NoFile \notin Content /\ NoFile.gen = 0
  /\ \A c \in Content : c.gen \in 1..MaxGen /\ c.gen # 0 /\ c.state \in {"whole", "altered", "cut"}
  /\ \A s \in Complete : s.state = "complete" /\ s.gen \in 1..MaxGen /\ s.host \in Report
  /\ \A s \in Complete : s.sum \in [File -> Content \cup {NoFile}]
  /\ NoManifest.state = "none" /\ TornManifest.state = "torn"
  /\ NoManifest \notin Complete /\ TornManifest \notin Complete /\ NoManifest # TornManifest
BY DEF NoFile, Content, NoManifest, TornManifest, Complete

(* The types, by what they are about.                                        *)
DirTypes ==
  /\ host \in Host
  /\ faults \in 0..MaxFaults
  /\ there \in BOOLEAN
  /\ data \in [File -> Content \cup {NoFile}]
  /\ manifest \in {NoManifest, TornManifest} \cup Complete
  /\ network \in 0..(MaxGen + 1)
  /\ gen \in 0..MaxGen
  /\ disturbed \in BOOLEAN
  /\ ~there => Empty

ReadTypes ==
  /\ rpc \in [Reader \cup Cleaner -> ReaderLabel \cup CleanerLabel \cup {"ended"}]
  /\ skip \in [Reader -> BOOLEAN]
  /\ m \in [Reader -> Complete \cup {NoManifest}]
  /\ left \in [Reader -> SUBSET File]
  /\ hurt \in [Reader -> SUBSET File]
  /\ \A e \in Reader :
       /\ rpc[e] \in ReaderLabel \cup {"ended"}
       /\ rpc[e] \in Looking => m[e] \in Complete /\ left[e] \subseteq Listed(m[e].sum)

RequestTypes ==
  /\ req \in [Request -> {"waiting", "over"} \cup Handled]
  /\ draft \in [Snapshots -> Complete \cup {NoManifest}]
  /\ address \in [Restores -> 0..(MaxGen + 1)]
  /\ \A r \in Snapshots :
       /\ req[r] \notin RestoreLabel
       /\ req[r] = "hash" => gen # 0
       /\ req[r] \in Drafting => draft[r] # NoManifest
  /\ \A r \in Restores : req[r] \notin SnapshotLabel

LEMMA TypeParts == TypeInv <=> DirTypes /\ ReadTypes /\ RequestTypes
BY DEF TypeInv, TypeOK, VerifyTypeOK, DirTypes, ReadTypes, RequestTypes, Empty, Drafting

LEMMA TypePartsNext == DirTypes' /\ ReadTypes' /\ RequestTypes' => TypeInv'
BY TypeParts, PTL

(* What write_group makes a manifest of.                                     *)
LEMMA Drafted ==
  ASSUME DirTypes, gen # 0, NEW seen \in Seen(host, AgentCriu)
  PROVE  [state |-> "complete", gen |-> gen, host |-> seen, sum |-> data] \in Complete
<1>1. seen \in Report
  BY Reports, AgentFacts DEF DirTypes
<1> QED BY <1>1, AgentFacts DEF DirTypes, Complete

LEMMA ReadTypesKept ==
  ASSUME ReadTypes, UNCHANGED readerVars
  PROVE  ReadTypes'
BY DEF ReadTypes, readerVars, Listed

LEMMA DirTypesKept ==
  ASSUME DirTypes, UNCHANGED <<envVars, dirVars, disturbed>>
  PROVE  DirTypes'
BY DEF DirTypes, envVars, dirVars, Empty

LEMMA InitTypes == Init => TypeInv
<1> SUFFICES ASSUME Init PROVE TypeInv
  OBVIOUS
<1>1. DirTypes
  <2>1. data \in [File -> Content \cup {NoFile}] /\ \A f \in File : data[f] = NoFile
    BY DEF Init, VerifyInit
  <2>2. /\ host \in Host /\ faults \in 0..MaxFaults
        /\ manifest \in {NoManifest, TornManifest} \cup Complete
        /\ network \in 0..(MaxGen + 1) /\ gen \in 0..MaxGen
    BY VerifyAssumption DEF Init, VerifyInit, NoNetwork
  <2>3. there \in BOOLEAN /\ disturbed \in BOOLEAN /\ Empty
    BY <2>1 DEF Init, VerifyInit, Empty
  <2> QED BY <2>1, <2>2, <2>3 DEF DirTypes
<1>2. ReadTypes
  BY DEF Init, VerifyInit, ReadTypes, ReaderLabel, CleanerLabel, VerifiedLabel, Looking
<1>3. RequestTypes
  BY AgentFacts DEF Init, RequestTypes, RestoreLabel, SnapshotLabel, Drafting, NoNetwork
<1> QED BY <1>1, <1>2, <1>3, TypeParts

LEMMA LookTypes ==
  ASSUME DirTypes, NEW p, NEW seen, Look(p, seen)
  PROVE  faults' \in 0..MaxFaults
BY VerifyAssumption DEF Look, DirTypes

LEMMA ReaderTypes ==
  ASSUME TypeInv, NEW e \in Reader, ReaderStep(e), UNCHANGED agentVars
  PROVE  TypeInv'
<1>1. DirTypes /\ ReadTypes /\ RequestTypes
  BY TypeParts
<1>2. UNCHANGED <<host, dirVars, disturbed, skip>>
  BY DEF ReaderStep, ReadManifest, CheckHost, CheckFile, Refused, Verified, Checked, CheckKind,
         Restore, envVars
<1>3. DirTypes'
  <2>1. CASE CheckHost(e)
    <3>1. faults' \in 0..MaxFaults
      BY <1>1, <2>1, LookTypes DEF CheckHost
    <3> QED BY <1>1, <1>2, <3>1 DEF DirTypes, dirVars, Empty
  <2>2. CASE ~CheckHost(e)
    <3>1. UNCHANGED envVars
      BY <2>2 DEF ReaderStep, ReadManifest, CheckFile, Refused, Verified, Checked, CheckKind, Restore
    <3> QED BY <1>1, <1>2, <3>1, DirTypesKept
  <2> QED BY <2>1, <2>2
<1>4. RequestTypes'
  BY <1>1, <1>2 DEF RequestTypes, agentVars, dirVars
<1>5. ReadTypes'
  <2> USE <1>1 DEF ReadTypes, Go, Exit, ReaderLabel, VerifiedLabel, Looking
  <2>1. CASE ReadManifest(e)
    <3>1. CASE Published
      <4>1. manifest \in Complete /\ Listed(manifest.sum) \subseteq File
        BY <3>1, Values DEF Published, DirTypes, Listed
      <4>2. Damaged(e, manifest.sum) \subseteq File
        BY DEF Damaged, Listed
      <4> QED BY <2>1, <3>1, <4>1, <4>2 DEF ReadManifest
    <3>2. CASE ~Published
      BY <2>1, <3>2 DEF ReadManifest, Listed
    <3> QED BY <3>1, <3>2
  <2>2. CASE CheckHost(e)
    BY <2>2 DEF CheckHost, Listed
  <2>3. CASE CheckFile(e)
    BY <2>3 DEF CheckFile, Listed
  <2>4. CASE Refused(e) \/ Checked(e) \/ Restore(e)
    BY <2>4 DEF Refused, Checked, Restore, Listed
  <2>5. CASE Verified(e)
    BY <2>5 DEF Verified, Listed
  <2>6. CASE CheckKind(e)
    BY <2>6 DEF CheckKind, Listed
  <2> QED BY <2>1, <2>2, <2>3, <2>4, <2>5, <2>6 DEF ReaderStep
<1> QED BY <1>3, <1>4, <1>5, TypePartsNext

LEMMA CleanerTypes ==
  ASSUME TypeInv, NEW c \in Cleaner, Clean(c)
  PROVE  TypeInv'
<1>1. DirTypes /\ ReadTypes /\ RequestTypes
  BY TypeParts
<1>2. RequestTypes'
  BY <1>1 DEF RequestTypes, Clean, CleanerStep, CleanTest, CleanEntry, CleanEnd, agentVars, dirVars
<1>3. DirTypes'
  <2>1. CASE CleanTest(c)
    BY <1>1, <2>1, DirTypesKept DEF CleanTest
  <2>2. CASE CleanEntry(c)
    <3>1. data' \in [File -> Content \cup {NoFile}]
      BY <1>1, <2>2 DEF CleanEntry, DirTypes
    <3>2. there' \in BOOLEAN /\ disturbed' \in BOOLEAN /\ (~there' => Empty')
      BY <1>1, <2>2 DEF CleanEntry, DirTypes, Empty
    <3>3. /\ UNCHANGED <<host, faults, gen>>
          /\ manifest' \in {manifest, NoManifest} /\ network' \in {network, 0}
      BY <2>2 DEF CleanEntry, NoNetwork, envVars
    <3>4. /\ host' \in Host /\ faults' \in 0..MaxFaults
          /\ manifest' \in {NoManifest, TornManifest} \cup Complete
          /\ network' \in 0..(MaxGen + 1) /\ gen' \in 0..MaxGen
      BY <1>1, <3>3, VerifyAssumption DEF DirTypes
    <3> QED BY <3>1, <3>2, <3>4 DEF DirTypes
  <2>3. CASE CleanEnd(c)
    BY <1>1, <2>3 DEF CleanEnd, DirTypes, Empty, envVars
  <2> QED BY <2>1, <2>2, <2>3 DEF Clean, CleanerStep
<1>4. ReadTypes'
  <2>1. CASE CleanEntry(c)
    BY <1>1, <2>1, ReadTypesKept DEF CleanEntry
  <2>2. CASE CleanTest(c) \/ CleanEnd(c)
    <3>1. c \notin Reader
      BY <1>1, <2>2 DEF CleanTest, CleanEnd, ReadTypes, ReaderLabel, VerifiedLabel
    <3> QED BY <1>1, <2>2, <3>1 DEF CleanTest, CleanEnd, Go, ReadTypes, CleanerLabel, Listed
  <2> QED BY <2>1, <2>2 DEF Clean, CleanerStep
<1> QED BY <1>2, <1>3, <1>4, TypePartsNext

LEMMA SnapshotTypes ==
  ASSUME TypeInv, NEW r \in Snapshots, SnapshotStep(r)
  PROVE  TypeInv'
<1>1. DirTypes /\ ReadTypes /\ RequestTypes
  BY TypeParts
<1>2. ReadTypes'
  BY <1>1, ReadTypesKept
     DEF SnapshotStep, Prepare, Dump, Hash, Open, Fill, Address, NetOpen, NetFill, quietVars, readerVars
<1>3. DirTypes' /\ RequestTypes'
  <2> USE <1>1, AgentFacts, Values
      DEF At, Step, To, Answer, quietVars, envVars, Handled, RestoreLabel, SnapshotLabel, Drafting
  <2>1. CASE Prepare(r)
    <3>1. DirTypes'
      BY <2>1 DEF Prepare, DirTypes, Empty
    <3> QED BY <2>1, <3>1 DEF Prepare, RequestTypes
  <2>2. CASE Dump(r)
    <3>1. \A f \in File : gen < MaxGen => [gen |-> gen + 1, state |-> "whole"] \in Content
      BY DEF DirTypes, Content
    <3>2. DirTypes'
      <4>1. data' \in [File -> Content \cup {NoFile}]
        BY <2>2, <3>1 DEF Dump
      <4>2. there' \in BOOLEAN /\ disturbed' \in BOOLEAN /\ (~there' => Empty')
        BY <2>2 DEF Dump, Empty, DirTypes
      <4>3. /\ gen' \in 0..MaxGen /\ host' = host /\ faults' = faults
            /\ manifest' \in {manifest, NoManifest} /\ network' \in {network, 0}
        BY <2>2 DEF Dump, DirTypes, NoNetwork
      <4>4. /\ host' \in Host /\ faults' \in 0..MaxFaults
            /\ manifest' \in {NoManifest, TornManifest} \cup Complete
            /\ network' \in 0..(MaxGen + 1)
        BY <4>3, VerifyAssumption DEF DirTypes
      <4> QED BY <4>1, <4>2, <4>3, <4>4 DEF DirTypes
    <3> QED BY <2>2, <3>2 DEF Dump, DirTypes, RequestTypes
  <2>3. CASE Hash(r)
    <3>1. DirTypes'
      <4>1. faults' \in 0..MaxFaults
        BY <2>3, LookTypes DEF Hash, DirTypes
      <4> QED BY <2>3, <4>1 DEF Hash, DirTypes, Empty, dirVars
    <3>2. draft' \in [Snapshots -> Complete \cup {NoManifest}] /\ (req'[r] = "open" => draft'[r] # NoManifest)
      <4>1. gen # 0
        BY <2>3 DEF Hash, RequestTypes
      <4> QED BY <2>3, <4>1, Drafted DEF Hash, RequestTypes
    <3> QED BY <2>3, <3>1, <3>2 DEF Hash, RequestTypes, dirVars
  <2>4. CASE Open(r)
    BY <2>4 DEF Open, DirTypes, RequestTypes, Empty
  <2>5. CASE Fill(r)
    BY <2>5 DEF Fill, DirTypes, RequestTypes, Empty
  <2>6. CASE Address(r)
    BY <2>6, DirTypesKept DEF Address, RequestTypes, readerVars, dirVars
  <2>7. CASE NetOpen(r)
    BY <2>7 DEF NetOpen, DirTypes, RequestTypes, Empty, TornNetwork
  <2>8. CASE NetFill(r)
    BY <2>8 DEF NetFill, DirTypes, RequestTypes, Empty, TornNetwork, NoNetwork
  <2> QED BY <2>1, <2>2, <2>3, <2>4, <2>5, <2>6, <2>7, <2>8 DEF SnapshotStep
<1> QED BY <1>2, <1>3, TypePartsNext

LEMMA RestoreTypes ==
  ASSUME TypeInv, NEW r \in Restores, RestoreStep(r)
  PROVE  TypeInv'
<1>1. DirTypes /\ ReadTypes /\ RequestTypes
  BY TypeParts
<1>2. CASE Run(r)
  BY <1>2, AgentFacts, ReaderTypes DEF Run
<1>3. CASE NetTest(r) \/ NetLoad(r) \/ Reply(r)
  <2>1. DirTypes' /\ ReadTypes'
    BY <1>1, <1>3, DirTypesKept, ReadTypesKept DEF NetTest, NetLoad, Reply
  <2>2. RequestTypes'
    <3>1. address' \in [Restores -> 0..(MaxGen + 1)]
      BY <1>1, <1>3, AgentFacts
         DEF NetTest, NetLoad, Reply, RequestTypes, Source, Given, NoNetwork
    <3> QED BY <1>1, <1>3, <3>1, AgentFacts
            DEF NetTest, NetLoad, Reply, RequestTypes, At, To, dirVars, Handled, RestoreLabel,
                SnapshotLabel, Drafting
  <2> QED BY <2>1, <2>2, TypePartsNext
<1> QED BY <1>2, <1>3 DEF RestoreStep

LEMMA CrashTypes == TypeInv /\ Crash => TypeInv'
<1> SUFFICES ASSUME TypeInv, Crash PROVE TypeInv'
  OBVIOUS
<1>1. DirTypes /\ ReadTypes /\ RequestTypes
  BY TypeParts
<1>2. DirTypes'
  BY <1>1, DirTypesKept DEF Crash
<1>3. RequestTypes'
  BY <1>1, AgentFacts DEF Crash, RequestTypes, Handled, RestoreLabel, SnapshotLabel, Drafting, NoNetwork, dirVars
<1>4. ReadTypes'
  <2> DEFINE K == {r \in Restores : req[r] = "run"}
  <2>1. /\ rpc' = [e \in Reader \cup Cleaner |-> IF e \in K THEN "ended" ELSE rpc[e]]
        /\ m' = [e \in Reader |-> IF e \in K THEN NoManifest ELSE m[e]]
        /\ left' = [e \in Reader |-> IF e \in K THEN {} ELSE left[e]]
        /\ hurt' = [e \in Reader |-> IF e \in K THEN {} ELSE hurt[e]]
        /\ skip' = skip
    BY <1>1 DEF Crash, ReadTypes
  <2> HIDE DEF K
  <2> QED BY <1>1, <2>1 DEF ReadTypes, Looking, VerifiedLabel, Listed
<1> QED BY <1>2, <1>3, <1>4, TypePartsNext

LEMMA NextTypes == TypeInv /\ [Next]_vars => TypeInv'
<1> SUFFICES ASSUME TypeInv, [Next]_vars PROVE TypeInv'
  OBVIOUS
<1>1. DirTypes /\ ReadTypes /\ RequestTypes
  BY TypeParts
<1>2. ASSUME NEW r \in Request, Serve(r) PROVE TypeInv'
  <2>1. DirTypes' /\ ReadTypes'
    BY <1>1, <1>2, DirTypesKept, ReadTypesKept DEF Serve
  <2>2. RequestTypes'
    BY <1>1, <1>2, AgentFacts
       DEF Serve, RequestTypes, At, To, dirVars, Handled, RestoreLabel, SnapshotLabel, Drafting
  <2> QED BY <2>1, <2>2, TypePartsNext
<1>3. ASSUME NEW e \in Reader, Operator(e) PROVE TypeInv'
  BY <1>3, ReaderTypes DEF Operator
<1>4. ASSUME Environment PROVE TypeInv'
  <2>1. ReadTypes' /\ RequestTypes'
    BY <1>1, <1>4, ReadTypesKept
       DEF Environment, Decay, HostChanges, RequestTypes, agentVars, dirVars
  <2>2. DirTypes'
    <3>1. CASE Decay
      <4>1. PICK f \in File, s \in {"altered", "cut"} :
              /\ data[f] # NoFile
              /\ data' = [data EXCEPT ![f].state = s]
        BY <3>1 DEF Decay
      <4>2. data[f] \in Content /\ [data[f] EXCEPT !.state = s] \in Content
        BY <1>1, <4>1 DEF DirTypes, Content
      <4>3. data' \in [File -> Content \cup {NoFile}] /\ (there' = there)
        BY <1>1, <3>1, <4>1, <4>2 DEF DirTypes, Decay
      <4> QED BY <1>1, <3>1, <4>1, <4>3, VerifyAssumption DEF Decay, Fault, DirTypes, Empty
    <3>2. CASE HostChanges
      BY <1>1, <3>2, VerifyAssumption DEF HostChanges, Fault, DirTypes, Empty, dirVars
    <3> QED BY <1>4, <3>1, <3>2 DEF Environment
  <2> QED BY <2>1, <2>2, TypePartsNext
<1>5. CASE UNCHANGED vars
  <2>1. DirTypes' /\ ReadTypes'
    BY <1>1, <1>5, DirTypesKept, ReadTypesKept DEF vars
  <2>2. RequestTypes'
    BY <1>1, <1>5 DEF vars, RequestTypes, dirVars
  <2> QED BY <2>1, <2>2, TypePartsNext
<1> QED BY <1>2, <1>3, <1>4, <1>5, SnapshotTypes, RestoreTypes, CleanerTypes, CrashTypes DEF Next, Done

(* The agent's state and the directory's keep their types: a manifest is      *)
(* written with a dump to list, and a reader that checks has one to go by.    *)
THEOREM TypeCorrect == Spec => []TypeOK
<1>1. TypeInv => TypeOK
  BY DEF TypeInv
<1> QED BY <1>1, InitTypes, NextTypes, PTL DEF Spec

-----------------------------------------------------------------------------
(* One request at a time.                                                    *)

LEMMA NextOneAtATime == TypeInv /\ OneAtATime /\ [Next]_vars => OneAtATime'
<1> SUFFICES ASSUME TypeInv, OneAtATime, [Next]_vars PROVE OneAtATime'
  OBVIOUS
<1>1. req \in [Request -> {"waiting", "over"} \cup Handled] /\ "over" \notin Handled
  BY DEF TypeInv, TypeOK, Handled
<1>2. ASSUME NEW r \in Request, Serve(r) PROVE OneAtATime'
  BY <1>1, <1>2 DEF Serve, At, To, OneAtATime
<1>3. ASSUME NEW r \in Request, NEW l, To(r, l), req[r] \in Handled PROVE OneAtATime'
  BY <1>1, <1>3 DEF To, OneAtATime
<1>4. ASSUME NEW r \in Snapshots, SnapshotStep(r) PROVE OneAtATime'
  <2>1. r \in Request /\ req[r] \in Handled
    BY <1>4, AgentFacts DEF SnapshotStep, Prepare, Dump, Hash, Open, Fill, Address, NetOpen,
                            NetFill, At, Handled
  <2>2. \E l : To(r, l)
    BY <1>4 DEF SnapshotStep, Prepare, Dump, Hash, Open, Fill, Address, NetOpen, NetFill,
                Step, Answer
  <2> QED BY <1>3, <2>1, <2>2
<1>5. ASSUME NEW r \in Restores, NetTest(r) \/ NetLoad(r) \/ Reply(r) PROVE OneAtATime'
  <2>1. r \in Request /\ req[r] \in Handled
    BY <1>5, AgentFacts DEF NetTest, NetLoad, Reply, At, Handled
  <2>2. \E l : To(r, l)
    BY <1>5 DEF NetTest, NetLoad, Reply
  <2> QED BY <1>3, <2>1, <2>2
<1>6. CASE Crash
  BY <1>1, <1>6 DEF Crash, OneAtATime
<1>7. CASE UNCHANGED req
  BY <1>7 DEF OneAtATime
<1>8. ASSUME NEW r \in Restores, Run(r) PROVE UNCHANGED req
  BY <1>8 DEF Run, agentVars
<1> QED BY <1>2, <1>4, <1>5, <1>6, <1>7, <1>8
        DEF Next, RestoreStep, Operator, Clean, Environment, Done, vars, agentVars

(* What a step of a request's handler finds.                                 *)
LEMMA OthersIdle ==
  ASSUME OneAtATime, NEW r \in Snapshots, SnapshotStep(r), TypeInv
  PROVE  \A q \in Request \ {r} : req[q] \notin Handled /\ req'[q] = req[q]
<1>1. r \in Request /\ req[r] \in Handled
  BY AgentFacts DEF SnapshotStep, Prepare, Dump, Hash, Open, Fill, Address, NetOpen, NetFill,
                    At, Handled
<1>2. \E l : To(r, l)
  BY DEF SnapshotStep, Prepare, Dump, Hash, Open, Fill, Address, NetOpen, NetFill, Step, Answer
<1> QED BY <1>1, <1>2 DEF OneAtATime, To, TypeInv, TypeOK

LEMMA OwnDirectory ==
  ASSUME HandlerInv, NEW r \in Snapshots, SnapshotStep(r)
  PROVE  DirectoryBy(r)'
<1>1. /\ DirectoryBy(r) /\ req \in [Request -> {"waiting", "over"} \cup Handled] /\ r \in Request
      /\ draft \in [Snapshots -> Complete \cup {NoManifest}]
      /\ gen \in Nat /\ (req[r] = "hash" => gen # 0)
      /\ ~there => manifest = NoManifest /\ network = NoNetwork
  BY AgentFacts DEF HandlerInv, TypeInv, TypeOK, VerifyTypeOK
<1> USE <1>1 DEF DirectoryBy, At, Step, To, Answer, quietVars, Drafting
<1>2. CASE Prepare(r)
  BY <1>2 DEF Prepare
<1>3. CASE Dump(r)
  BY <1>3 DEF Dump
<1>4. CASE Hash(r)
  <2>1. DirTypes
    BY TypeParts DEF HandlerInv
  <2>2. CASE req'[r] = "open"
    <3>1. PICK seen \in Seen(host, AgentCriu) :
            draft'[r] = [state |-> "complete", gen |-> gen, host |-> seen, sum |-> data]
      BY <1>4, <2>2 DEF Hash
    <3>2. draft'[r] \in Complete /\ draft'[r].gen = gen
      BY <1>4, <2>1, <3>1, Drafted DEF Hash
    <3> QED BY <1>4, <2>2, <3>2 DEF Hash, dirVars
  <2>3. CASE req'[r] # "open"
    BY <1>4, <2>3 DEF Hash, dirVars
  <2> QED BY <2>2, <2>3
<1>5. CASE Open(r)
  BY <1>5 DEF Open
<1>6. CASE Fill(r)
  BY <1>6 DEF Fill
<1>7. CASE Address(r)
  BY <1>7 DEF Address, dirVars
<1>8. CASE NetOpen(r)
  BY <1>8 DEF NetOpen
<1>9. CASE NetFill(r)
  BY <1>9 DEF NetFill
<1> QED BY <1>2, <1>3, <1>4, <1>5, <1>6, <1>7, <1>8, <1>9 DEF SnapshotStep

(* Beside a freeze-group, entries only go.                                   *)
LEMMA DirectoryKept ==
  ASSUME NEW q \in Snapshots, DirectoryBy(q),
         req'[q] = req[q], draft'[q] = draft[q], gen' = gen,
         manifest' \in {manifest, NoManifest}, network' \in {network, NoNetwork}
  PROVE  DirectoryBy(q)'
BY DEF DirectoryBy

LEMMA DirectoryIdle ==
  ASSUME NEW q \in Snapshots, req'[q] \notin Handled \/ req'[q] = "prepare"
  PROVE  DirectoryBy(q)'
BY DEF DirectoryBy, Handled, Drafting

LEMMA InitHandler == Init => HandlerInv
<1> SUFFICES ASSUME Init PROVE HandlerInv
  OBVIOUS
<1>1. \A r \in Request : req[r] \notin Handled
  BY DEF Init, Handled
<1>2. \A r \in Snapshots : DirectoryBy(r)
  BY AgentFacts DEF Init, DirectoryBy, Drafting
<1> QED BY <1>1, <1>2, InitTypes DEF HandlerInv, OneAtATime

LEMMA NextHandler == HandlerInv /\ [Next]_vars => HandlerInv'
<1> SUFFICES ASSUME HandlerInv, [Next]_vars, NEW q \in Snapshots PROVE DirectoryBy(q)'
  BY NextTypes, NextOneAtATime DEF HandlerInv
<1>1. /\ DirectoryBy(q) /\ q \in Request /\ q \notin Restores /\ TypeInv
      /\ req \in [Request -> {"waiting", "over"} \cup Handled] /\ "over" \notin Handled
  BY AgentFacts DEF HandlerInv, TypeInv, TypeOK, Handled
<1>2. ASSUME NEW r \in Request, Serve(r) PROVE DirectoryBy(q)'
  <2>1. CASE r = q
    BY <1>1, <1>2, <2>1, DirectoryIdle DEF Serve, To
  <2>2. CASE r # q
    BY <1>1, <1>2, <2>2, DirectoryKept DEF Serve, To, dirVars
  <2> QED BY <2>1, <2>2
<1>3. ASSUME NEW r \in Snapshots, SnapshotStep(r) PROVE DirectoryBy(q)'
  <2>1. CASE r = q
    BY <1>3, <2>1, OwnDirectory
  <2>2. CASE r # q
    BY <1>1, <1>3, <2>2, OthersIdle, DirectoryIdle DEF HandlerInv
  <2> QED BY <2>1, <2>2
<1>4. ASSUME NEW r \in Restores, RestoreStep(r) PROVE DirectoryBy(q)'
  <2>1. UNCHANGED <<dirVars, draft>> /\ req'[q] = req[q]
    BY <1>1, <1>4
       DEF RestoreStep, NetTest, NetLoad, Run, Reply, To, agentVars, ReaderStep, ReadManifest,
           CheckHost, CheckFile, Refused, Verified, Checked, CheckKind, Restore
  <2> QED BY <1>1, <2>1, DirectoryKept DEF dirVars
<1>5. ASSUME NEW e \in Reader, Operator(e) PROVE DirectoryBy(q)'
  <2>1. UNCHANGED <<dirVars, agentVars>>
    BY <1>5 DEF Operator, ReaderStep, ReadManifest, CheckHost, CheckFile, Refused, Verified,
                Checked, CheckKind, Restore
  <2> QED BY <1>1, <2>1, DirectoryKept DEF dirVars, agentVars
<1>6. ASSUME NEW c \in Cleaner, Clean(c) PROVE DirectoryBy(q)'
  <2>1. /\ UNCHANGED agentVars /\ gen' = gen
        /\ manifest' \in {manifest, NoManifest} /\ network' \in {network, NoNetwork}
    BY <1>6 DEF Clean, CleanerStep, CleanTest, CleanEntry, CleanEnd, dirVars
  <2> QED BY <1>1, <2>1, DirectoryKept DEF agentVars
<1>7. CASE Crash
  BY <1>1, <1>7, DirectoryIdle DEF Crash
<1>8. CASE Environment \/ UNCHANGED vars
  <2>1. UNCHANGED <<agentVars, manifest, network, gen>>
    BY <1>8 DEF Environment, Decay, HostChanges, dirVars, vars, agentVars
  <2> QED BY <1>1, <2>1, DirectoryKept DEF agentVars
<1> QED BY <1>2, <1>3, <1>4, <1>5, <1>6, <1>7, <1>8 DEF Next, Done

(* What becomes of the manifest in a step.                                   *)
LEMMA ManifestSteps ==
  ASSUME HandlerInv, [Next]_vars
  PROVE  \/ manifest' = manifest
         \/ manifest' = NoManifest /\ \E c \in Cleaner : CleanEntry(c)
         \/ ~Published /\ \E r \in Snapshots : Open(r) /\ manifest' = TornManifest
         \/ /\ ~Published
            /\ \E r \in Snapshots : Fill(r) /\ req[r] = "fill" /\ manifest' = draft[r]
<1>1. ASSUME NEW r \in Snapshots, SnapshotStep(r), manifest' # manifest
      PROVE  /\ ~Published
             /\ \/ Open(r) /\ manifest' = TornManifest
                \/ Fill(r) /\ req[r] = "fill" /\ manifest' = draft[r]
  <2>1. DirectoryBy(r)
    BY DEF HandlerInv
  <2> QED BY <1>1, <2>1, Values
          DEF SnapshotStep, Prepare, Dump, Hash, Open, Fill, Address, NetOpen, NetFill, At,
              quietVars, dirVars, DirectoryBy, Published
<1>2. ASSUME NEW c \in Cleaner, Clean(c), manifest' # manifest
      PROVE  manifest' = NoManifest /\ CleanEntry(c)
  BY <1>2 DEF Clean, CleanerStep, CleanTest, CleanEntry, CleanEnd, dirVars
<1>3. ASSUME NEW e \in Reader, ReaderStep(e) PROVE manifest' = manifest
  BY <1>3 DEF ReaderStep, ReadManifest, CheckHost, CheckFile, Refused, Verified,
              Checked, CheckKind, Restore, dirVars
<1>4. ASSUME NEW r \in Restores, RestoreStep(r) PROVE manifest' = manifest
  BY <1>3, <1>4, AgentFacts DEF RestoreStep, NetTest, NetLoad, Run, Reply, dirVars
<1>5. ASSUME NEW r \in Request, Serve(r) PROVE manifest' = manifest
  BY <1>5 DEF Serve, dirVars
<1>6. Crash \/ Environment \/ UNCHANGED vars => manifest' = manifest
  BY DEF Crash, Environment, Decay, HostChanges, vars, dirVars
<1> QED BY <1>1, <1>2, <1>3, <1>4, <1>5, <1>6 DEF Next, Operator, Done

(* A published snapshot goes only by snapshot-clean: no request that fails or *)
(* is tried again, and no crash, replaces, empties or truncates it.          *)
THEOREM OnlyCleanTakes == Spec => OnlyCleanUnpublishes
<1>1. HandlerInv /\ [Next]_vars =>
        [Published /\ manifest' # manifest => \E c \in Cleaner : CleanEntry(c)]_vars
  BY ManifestSteps
<1> QED BY <1>1, InitHandler, NextHandler, PTL DEF Spec, OnlyCleanUnpublishes

-----------------------------------------------------------------------------
(* What a step changes, whoever takes it.                                    *)

(* The files, the node and the count of dumps.                               *)
Dumped == [gen |-> gen + 1, state |-> "whole"]
FileWorsens(f) ==
  \/ data'[f] = data[f] \/ data'[f] = NoFile
  \/ /\ data[f] # NoFile /\ data[f].state = "whole"
     /\ data'[f] \in Content /\ data'[f].gen = data[f].gen /\ data'[f].state # "whole"

DirectoryStep ==
  \/ UNCHANGED <<host, data, gen, disturbed>>
  \/ /\ gen' = gen + 1 /\ UNCHANGED <<host, disturbed, manifest>> /\ manifest = NoManifest
     /\ \A f \in File : data'[f] = Dumped /\ Dumped \in Content
     /\ \E r \in Snapshots : req[r] = "dump" /\ req'[r] = "hash"
  \/ /\ gen' = gen /\ disturbed' = TRUE /\ \A f \in File : FileWorsens(f)
  \/ /\ \E r \in Snapshots : Hash(r) /\ To(r, "open")
     /\ UNCHANGED <<host, data, gen, manifest>> /\ disturbed' = FALSE /\ manifest = NoManifest

LEMMA DirectorySteps ==
  ASSUME HandlerInv, [Next]_vars
  PROVE  DirectoryStep
<1>1. TypeInv /\ DirTypes /\ RequestTypes
  BY TypeParts DEF HandlerInv
<1>2. ASSUME NEW r \in Snapshots, SnapshotStep(r) PROVE DirectoryStep
  <2>1. DirectoryBy(r) /\ r \in Request
    BY AgentFacts DEF HandlerInv
  <2>2. CASE Dump(r) /\ gen' = gen + 1
    <3>1. gen < MaxGen => Dumped \in Content
      BY <1>1, AgentFacts DEF DirTypes, Content, Dumped
    <3> QED BY <1>1, <2>1, <2>2, <3>1
            DEF Dump, At, Step, To, DirectoryBy, DirectoryStep, Dumped, quietVars, envVars,
                DirTypes, RequestTypes
  <2>3. CASE Dump(r) /\ gen' # gen + 1
    <3>1. gen' = gen /\ disturbed' = TRUE /\ \A f \in File : data'[f] = NoFile
      BY <2>3 DEF Dump
    <3> QED BY <3>1 DEF FileWorsens, DirectoryStep
  <2>4. CASE Hash(r)
    <3>1. CASE UNCHANGED disturbed
      BY <2>4, <3>1 DEF Hash, DirectoryStep, quietVars, envVars, dirVars
    <3>2. CASE disturbed' # disturbed
      BY <2>1, <2>4, <3>2 DEF Hash, At, DirectoryBy, DirectoryStep, quietVars, envVars, dirVars
    <3> QED BY <3>1, <3>2
  <2>5. CASE Prepare(r) \/ Open(r) \/ Fill(r) \/ Address(r) \/ NetOpen(r) \/ NetFill(r)
    BY <2>5 DEF Prepare, Open, Fill, Address, NetOpen, NetFill, DirectoryStep, quietVars, envVars,
                dirVars
  <2> QED BY <1>2, <2>2, <2>3, <2>4, <2>5 DEF SnapshotStep
<1>3. ASSUME NEW c \in Cleaner, Clean(c) PROVE DirectoryStep
  <2>1. CASE CleanEntry(c)
    BY <1>1, <2>1 DEF CleanEntry, DirTypes, FileWorsens, DirectoryStep
  <2>2. CASE CleanTest(c) \/ CleanEnd(c)
    BY <2>2 DEF CleanTest, CleanEnd, DirectoryStep, envVars, dirVars
  <2> QED BY <1>3, <2>1, <2>2 DEF Clean, CleanerStep
<1>4. ASSUME NEW e \in Reader, ReaderStep(e) PROVE DirectoryStep
  BY <1>4 DEF ReaderStep, ReadManifest, CheckHost, CheckFile, Refused, Verified, Checked, CheckKind,
              Restore, DirectoryStep, envVars, dirVars
<1>5. ASSUME NEW r \in Restores, RestoreStep(r) PROVE DirectoryStep
  BY <1>4, <1>5, AgentFacts
     DEF RestoreStep, NetTest, NetLoad, Run, Reply, DirectoryStep, envVars, dirVars
<1>6. ASSUME NEW r \in Request, Serve(r) PROVE DirectoryStep
  BY <1>6 DEF Serve, DirectoryStep, envVars, dirVars
<1>7. CASE Crash \/ UNCHANGED vars
  BY <1>7 DEF Crash, vars, DirectoryStep, envVars, dirVars
<1>8. CASE Decay
  <2>1. PICK f \in File, s \in {"altered", "cut"} :
          /\ data[f] # NoFile /\ data[f].state = "whole"
          /\ data' = [data EXCEPT ![f].state = s]
    BY <1>8 DEF Decay
  <2>2. data[f] \in Content /\ [data[f] EXCEPT !.state = s] \in Content
    BY <1>1, <2>1 DEF DirTypes, Content
  <2>3. \A g \in File : FileWorsens(g)
    BY <1>1, <2>1, <2>2 DEF DirTypes, FileWorsens, Content
  <2> QED BY <1>8, <2>3 DEF Decay, Fault, DirectoryStep
<1>9. CASE HostChanges
  BY <1>9 DEF HostChanges, Fault, FileWorsens, DirectoryStep, dirVars
<1> QED BY <1>2, <1>3, <1>4, <1>5, <1>6, <1>7, <1>8, <1>9 DEF Next, Operator, Environment, Done

(* The drafts.                                                               *)
DraftStep(r) ==
  \/ /\ draft'[r] = draft[r] /\ req[r] \in Drafting
     /\ req'[r] \in {"open", "fill"} => req[r] \in {"open", "fill"}
  \/ /\ draft'[r].gen = gen /\ draft'[r].sum = data
     /\ req[r] = "hash" /\ UNCHANGED <<data, gen>>

LEMMA DraftSteps ==
  ASSUME HandlerInv, [Next]_vars, NEW r \in Snapshots
  PROVE  /\ req'[r] \in Drafting => DraftStep(r)
         /\ req'[r] = "hash" => req[r] = "hash" \/ gen' = gen + 1
<1> DEFINE Goal == /\ req'[r] \in Drafting => DraftStep(r)
                   /\ req'[r] = "hash" => req[r] = "hash" \/ gen' = gen + 1
<1> SUFFICES Goal
  OBVIOUS
<1>1. /\ TypeInv /\ OneAtATime /\ r \in Request /\ r \notin Restores
      /\ req \in [Request -> {"waiting", "over"} \cup Handled]
      /\ draft \in [Snapshots -> Complete \cup {NoManifest}]
  BY AgentFacts DEF HandlerInv, TypeInv, TypeOK
<1>2. CASE req'[r] = req[r] /\ draft'[r] = draft[r]
  BY <1>2 DEF DraftStep
<1>3. CASE req'[r] \notin {"hash"} \cup Drafting
  BY <1>3
<1>4. CASE SnapshotStep(r)
  BY <1>1, <1>4
     DEF SnapshotStep, Prepare, Dump, Hash, Open, Fill, Address, NetOpen, NetFill, At, Step, To,
         Answer, DraftStep, Drafting, quietVars, envVars, dirVars
<1>5. ASSUME NEW q \in Snapshots, SnapshotStep(q), q # r PROVE Goal
  <2>1. req'[r] \notin Handled
    BY <1>1, <1>5, OthersIdle
  <2> QED BY <2>1, <1>3 DEF Handled, Drafting
<1>6. ASSUME NEW q \in Restores, RestoreStep(q) PROVE req'[r] = req[r] /\ draft'[r] = draft[r]
  BY <1>1, <1>6 DEF RestoreStep, NetTest, NetLoad, Run, Reply, To, agentVars
<1>7. ASSUME NEW q \in Request, Serve(q) PROVE Goal
  <2>1. draft'[r] = draft[r] /\ (req'[r] = req[r] \/ req'[r] \in {"prepare", "nettest", "over"})
    BY <1>1, <1>7 DEF Serve, To
  <2> QED BY <2>1, <1>2, <1>3 DEF Drafting
<1>8. CASE Crash
  <2>1. req'[r] \in {"waiting", "over"}
    BY <1>1, <1>8 DEF Crash
  <2> QED BY <2>1, <1>3 DEF Drafting
<1>9. CASE UNCHANGED agentVars
  BY <1>2, <1>9 DEF agentVars
<1> HIDE DEF Goal
<1> QED BY <1>2, <1>4, <1>5, <1>6, <1>7, <1>8, <1>9
        DEF Next, Operator, Clean, Environment, Done, vars, agentVars

(* A reader.                                                                 *)
ReadsBeside(e) ==
  \/ rpc'[e] = rpc[e] /\ m'[e] = m[e] /\ left'[e] = left[e] /\ hurt'[e] = hurt[e]
  \/ rpc'[e] = "ended"
  \/ ReaderStep(e) /\ UNCHANGED <<host, dirVars, disturbed, agentVars>>

LEMMA ReaderSteps ==
  ASSUME HandlerInv, [Next]_vars, NEW e \in Reader
  PROVE  skip' = skip /\ ReadsBeside(e)
<1> DEFINE Goal == skip' = skip /\ ReadsBeside(e)
<1> SUFFICES Goal
  OBVIOUS
<1>1. ReadTypes
  BY TypeParts DEF HandlerInv
<1>2. CASE UNCHANGED readerVars
  BY <1>2 DEF ReadsBeside, readerVars
<1>3. ASSUME NEW q \in Reader, ReaderStep(q), UNCHANGED agentVars PROVE Goal
  <2>1. UNCHANGED <<host, dirVars, disturbed, skip>>
    BY <1>3 DEF ReaderStep, ReadManifest, CheckHost, CheckFile, Refused, Verified, Checked,
                CheckKind, Restore, envVars
  <2>2. CASE q = e
    BY <1>3, <2>1, <2>2 DEF ReadsBeside
  <2>3. CASE q # e
    BY <1>1, <1>3, <2>1, <2>3
       DEF ReaderStep, ReadManifest, CheckHost, CheckFile, Refused, Verified, Checked, CheckKind,
           Restore, Go, Exit, ReadTypes, ReadsBeside
  <2> QED BY <2>2, <2>3
<1>4. ASSUME NEW c \in Cleaner, Clean(c) PROVE Goal
  <2>1. CASE CleanEntry(c)
    BY <1>2, <2>1 DEF CleanEntry
  <2>2. CASE CleanTest(c) \/ CleanEnd(c)
    <3>1. c \notin Reader
      BY <1>1, <2>2 DEF CleanTest, CleanEnd, ReadTypes, ReaderLabel, VerifiedLabel
    <3> QED BY <1>1, <2>2, <3>1 DEF CleanTest, CleanEnd, Go, ReadTypes, ReadsBeside
  <2> QED BY <1>4, <2>1, <2>2 DEF Clean, CleanerStep
<1>5. CASE Crash
  <2> DEFINE K == {r \in Restores : req[r] = "run"}
  <2>1. /\ rpc' = [q \in Reader \cup Cleaner |-> IF q \in K THEN "ended" ELSE rpc[q]]
        /\ m' = [q \in Reader |-> IF q \in K THEN NoManifest ELSE m[q]]
        /\ left' = [q \in Reader |-> IF q \in K THEN {} ELSE left[q]]
        /\ hurt' = [q \in Reader |-> IF q \in K THEN {} ELSE hurt[q]]
        /\ skip' = skip
    BY <1>1, <1>5 DEF Crash, ReadTypes
  <2> HIDE DEF K
  <2> QED BY <2>1 DEF ReadsBeside
<1>6. ASSUME NEW r \in Snapshots, SnapshotStep(r) PROVE UNCHANGED readerVars
  BY <1>6 DEF SnapshotStep, Prepare, Dump, Hash, Open, Fill, Address, NetOpen, NetFill, quietVars,
              readerVars
<1>7. ASSUME NEW r \in Restores, RestoreStep(r) PROVE Goal
  <2>1. CASE Run(r)
    BY <2>1, <1>3, AgentFacts DEF Run
  <2>2. CASE NetTest(r) \/ NetLoad(r) \/ Reply(r)
    BY <2>2, <1>2 DEF NetTest, NetLoad, Reply
  <2> QED BY <1>7, <2>1, <2>2 DEF RestoreStep
<1> HIDE DEF Goal
<1> QED BY <1>2, <1>3, <1>4, <1>5, <1>6, <1>7
        DEF Next, Serve, Operator, Environment, Decay, HostChanges, Done, vars, readerVars

-----------------------------------------------------------------------------
(* What is known of the files of a manifest lasts.                           *)

LEMMA StaysPast ==
  ASSUME HandlerInv, PastInv, DirectoryStep, NEW s \in Complete, Past(s)
  PROVE  Past(s)'
<1> SUFFICES ASSUME NEW f \in Listed(s.sum)
             PROVE  /\ s.gen <= gen' /\ s.sum[f].gen <= gen'
                    /\ Follows(data'[f], s.sum[f])
  <2>1. s.gen <= gen'
    <3>1. gen \in Nat /\ s.gen \in Nat /\ s.gen <= gen
      BY Values, AgentFacts DEF HandlerInv, TypeInv, TypeOK, VerifyTypeOK, Past
    <3> QED BY <3>1 DEF DirectoryStep
  <2> QED BY <2>1 DEF Past, Listed
<1>1. /\ f \in File /\ s.sum[f] \in Content /\ s.sum[f].gen \in Nat /\ s.gen \in Nat /\ gen \in Nat
      /\ data[f] \in Content \cup {NoFile} /\ data[f].gen \in Nat
  BY Values, AgentFacts DEF Listed, HandlerInv, TypeInv, TypeOK, VerifyTypeOK
<1>2. s.gen <= gen /\ s.sum[f].gen <= gen /\ Follows(data[f], s.sum[f])
  BY DEF Past
<1>3. CASE data'[f] = data[f] /\ gen' \in {gen, gen + 1}
  BY <1>1, <1>2, <1>3
<1>4. CASE gen' = gen /\ FileWorsens(f)
  BY <1>1, <1>2, <1>4 DEF FileWorsens, Follows
<1>5. CASE gen' = gen + 1 /\ data'[f] = Dumped
  BY <1>1, <1>2, <1>5 DEF Follows, Dumped
<1> QED BY <1>1, <1>3, <1>4, <1>5 DEF DirectoryStep

(* SameSize, by what tells a file from the one that was hashed.              *)
LEMMA OtherSize ==
  ASSUME NEW a \in Content \cup {NoFile}, NEW b \in Content
  PROVE  SameSize(a, b) = {FALSE} <=>
           a = NoFile \/ (a.gen = b.gen /\ ((a.state = "cut") # (b.state = "cut")))
<1>1. CASE a = NoFile
  BY <1>1 DEF SameSize
<1>2. CASE a # NoFile /\ a.gen # b.gen
  BY <1>2 DEF SameSize
<1>3. CASE a # NoFile /\ a.gen = b.gen
  BY <1>3 DEF SameSize
<1> QED BY <1>1, <1>2, <1>3

LEMMA StaysDamaged ==
  ASSUME HandlerInv, DirectoryStep, NEW e \in Reader, NEW s \in Complete, Past(s), skip' = skip,
         skip[e] => manifest = s /\ manifest' = s
  PROVE  Damaged(e, s.sum) \subseteq Damaged(e, s.sum)'
<1> SUFFICES ASSUME NEW f \in Listed(s.sum),
                    IF skip[e] THEN SameSize(data[f], s.sum[f]) = {FALSE} ELSE data[f] # s.sum[f]
             PROVE  IF skip[e] THEN SameSize(data'[f], s.sum[f]) = {FALSE}
                    ELSE data'[f] # s.sum[f]
  BY DEF Damaged, Listed
<1>1. /\ f \in File /\ s.sum[f] \in Content /\ s.sum[f].gen \in Nat /\ gen \in Nat
      /\ data[f] \in Content \cup {NoFile} /\ data[f].gen \in Nat
      /\ s.sum[f] # NoFile /\ s # NoManifest
  BY Values, AgentFacts DEF Listed, HandlerInv, TypeInv, TypeOK, VerifyTypeOK
<1>2. s.sum[f].gen <= gen /\ Follows(data[f], s.sum[f])
  BY DEF Past
<1>3. CASE data'[f] = data[f]
  BY <1>3
<1>4. CASE FileWorsens(f) /\ data'[f] # data[f]
  <2>1. CASE data'[f] = NoFile
    <3>1. SameSize(data'[f], s.sum[f]) = {FALSE}
      BY <1>1, <2>1, OtherSize
    <3> QED BY <1>1, <2>1, <3>1
  <2>2. CASE data'[f] # NoFile
    <3>1. /\ data[f].state = "whole" /\ data[f] \in Content /\ data'[f] \in Content
          /\ data'[f].gen = data[f].gen /\ data'[f].state # "whole"
      BY <1>1, <1>4, <2>2 DEF FileWorsens
    <3>2. data[f].gen = s.sum[f].gen => data[f] = s.sum[f]
      BY <1>1, <1>2, <3>1 DEF Follows, Content, NoFile
    <3>3. CASE skip[e]
      <4>1. data[f] # NoFile /\ SameSize(data[f], s.sum[f]) = {FALSE}
        BY <3>1, <3>3, Values
      <4>2. data[f].gen = s.sum[f].gen /\ ((data[f].state = "cut") # (s.sum[f].state = "cut"))
        BY <1>1, <4>1, OtherSize
      <4> QED BY <3>2, <4>2
    <3>4. CASE ~skip[e]
      BY <1>1, <3>1, <3>2, <3>4
    <3> QED BY <3>3, <3>4
  <2> QED BY <2>1, <2>2
<1>5. CASE gen' = gen + 1 /\ data'[f] = Dumped /\ manifest = NoManifest
  <2>1. ~skip[e]
    BY <1>1, <1>5
  <2>2. data'[f].gen = gen + 1
    BY <1>5 DEF Dumped
  <2> QED BY <1>1, <1>2, <2>1, <2>2
<1> QED BY <1>1, <1>3, <1>4, <1>5 DEF DirectoryStep

(* A manifest that has gone does not come back.                              *)
LEMMA NeverReturns ==
  ASSUME HandlerInv, NewInv, [Next]_vars, NEW e \in Reader, rpc[e] \in Looking, manifest # m[e]
  PROVE  manifest' # m[e]
<1>1. m[e] \in Complete /\ m[e] # NoManifest /\ m[e] # TornManifest
  BY Values DEF HandlerInv, TypeInv
<1>2. ASSUME NEW r \in Snapshots, req[r] = "fill" PROVE draft[r] # m[e]
  <2>1. draft[r].gen = gen /\ m[e].gen < gen /\ m[e].gen \in Nat /\ gen \in Nat
    BY <1>1, <1>2, Values, AgentFacts
       DEF HandlerInv, DirectoryBy, Drafting, NewInv, TypeInv, TypeOK, VerifyTypeOK
  <2> QED BY <2>1
<1> QED BY <1>1, <1>2, ManifestSteps

-----------------------------------------------------------------------------
(* The invariant of the checks.                                              *)

LEMMA ReadsPublished ==
  ASSUME TypeInv, NEW e \in Reader, ReadsBeside(e), rpc'[e] \in Looking
  PROVE  \/ rpc[e] \in Looking /\ m'[e] = m[e]
         \/ /\ rpc[e] = "read" /\ rpc'[e] = "host" /\ Published /\ m'[e] = manifest
            /\ left'[e] = Listed(manifest.sum) /\ hurt'[e] = Damaged(e, manifest.sum)
            /\ UNCHANGED <<host, dirVars, disturbed, agentVars>>
<1>1. ReadTypes
  BY TypeParts
<1>2. CASE rpc'[e] = rpc[e] /\ m'[e] = m[e]
  BY <1>2
<1>3. rpc'[e] # "ended"
  BY DEF Looking, VerifiedLabel
<1>4. CASE ReadManifest(e) /\ UNCHANGED <<host, dirVars, disturbed, agentVars>>
  BY <1>1, <1>3, <1>4 DEF ReadManifest, Go, Exit, ReadTypes
<1>5. CASE CheckHost(e) \/ CheckFile(e) \/ Verified(e) \/ CheckKind(e)
  BY <1>1, <1>3, <1>5
     DEF CheckHost, CheckFile, Verified, CheckKind, Go, Exit, ReadTypes, Looking, VerifiedLabel
<1>6. CASE Refused(e) \/ Checked(e) \/ Restore(e)
  BY <1>1, <1>3, <1>6 DEF Refused, Checked, Restore, Go, Exit, ReadTypes
<1> QED BY <1>2, <1>3, <1>4, <1>5, <1>6 DEF ReadsBeside, ReaderStep

LEMMA NextPast == HandlerInv /\ PastInv /\ [Next]_vars => PastInv'
<1> SUFFICES ASSUME HandlerInv, PastInv, [Next]_vars PROVE PastInv'
  OBVIOUS
<1>1. /\ TypeInv /\ DirectoryStep /\ gen \in Nat
      /\ data \in [File -> Content \cup {NoFile}]
      /\ manifest \in {NoManifest, TornManifest} \cup Complete
  BY DirectorySteps, AgentFacts DEF HandlerInv, TypeInv, TypeOK, VerifyTypeOK
<1>2. ASSUME NEW s \in Complete, Past(s) PROVE Past(s)'
  BY <1>1, <1>2, StaysPast
<1>3. ASSUME NEW f \in File, data'[f] # NoFile PROVE data'[f].gen <= gen'
  <2>1. (data[f] # NoFile => data[f].gen <= gen) /\ data[f].gen \in Nat
    BY <1>1, Values DEF PastInv
  <2>2. CASE data'[f] = data[f] /\ gen' \in {gen, gen + 1}
    BY <1>1, <1>3, <2>1, <2>2
  <2>3. CASE gen' = gen /\ FileWorsens(f)
    BY <1>1, <1>3, <2>1, <2>3 DEF FileWorsens
  <2>4. CASE gen' = gen + 1 /\ data'[f] = Dumped
    BY <1>1, <2>4 DEF Dumped
  <2> QED BY <1>1, <1>3, <2>2, <2>3, <2>4 DEF DirectoryStep
<1>4. ASSUME Published' PROVE Past(manifest)'
  <2>1. CASE manifest' = manifest
    <3>1. manifest \in Complete /\ Past(manifest)
      BY <1>1, <1>4, <2>1, Values DEF PastInv, Published
    <3>2. ASSUME NEW s, s = manifest, s = manifest', Past(s)' PROVE Past(manifest)'
      BY <3>2 DEF Past, Listed
    <3> QED BY <1>2, <2>1, <3>1, <3>2
  <2>2. ASSUME NEW r \in Snapshots, req[r] = "fill", manifest' = draft[r]
        PROVE  Past(manifest)'
    <3>1. draft[r] \in Complete /\ Past(draft[r])
      BY <2>2 DEF HandlerInv, DirectoryBy, Drafting, PastInv
    <3>2. ASSUME NEW s, s = draft[r], s = manifest', Past(s)' PROVE Past(manifest)'
      BY <3>2 DEF Past, Listed
    <3> QED BY <1>2, <2>2, <3>1, <3>2
  <2> QED BY <1>4, <2>1, <2>2, ManifestSteps, Values DEF Published
<1>5. ASSUME NEW r \in Snapshots, req'[r] \in Drafting PROVE Past(draft[r])'
  <2>1. DraftStep(r)
    BY <1>5, DraftSteps
  <2>2. CASE draft'[r] = draft[r] /\ req[r] \in Drafting
    <3>1. draft[r] \in Complete /\ Past(draft[r])
      BY <2>2 DEF HandlerInv, DirectoryBy, PastInv
    <3>2. ASSUME NEW s, s = draft[r], s = draft'[r], Past(s)' PROVE Past(draft[r])'
      BY <3>2 DEF Past, Listed
    <3> QED BY <1>2, <2>2, <3>1, <3>2
  <2>3. CASE draft'[r].gen = gen /\ draft'[r].sum = data /\ UNCHANGED <<data, gen>>
    BY <1>1, <2>3, <1>3 DEF Past, Listed, Follows
  <2> QED BY <2>1, <2>2, <2>3 DEF DraftStep
<1>6. ASSUME NEW e \in Reader, rpc'[e] \in Looking PROVE Past(m[e])'
  <2>1. ReadsBeside(e)
    BY ReaderSteps
  <2>2. CASE rpc[e] \in Looking /\ m'[e] = m[e]
    <3>1. m[e] \in Complete /\ Past(m[e])
      BY <1>1, <2>2 DEF TypeInv, PastInv
    <3>2. ASSUME NEW s, s = m[e], s = m'[e], Past(s)' PROVE Past(m[e])'
      BY <3>2 DEF Past, Listed
    <3> QED BY <1>2, <2>2, <3>1, <3>2
  <2>3. CASE Published /\ m'[e] = manifest
    <3>1. manifest \in Complete /\ Past(manifest)
      BY <1>1, <2>3, Values DEF PastInv, Published
    <3>2. ASSUME NEW s, s = manifest, s = m'[e], Past(s)' PROVE Past(m[e])'
      BY <3>2 DEF Past, Listed
    <3> QED BY <1>2, <2>3, <3>1, <3>2
  <2> QED BY <1>1, <1>6, <2>1, <2>2, <2>3, ReadsPublished
<1> QED BY <1>3, <1>4, <1>5, <1>6 DEF PastInv

LEMMA NextNew == HandlerInv /\ PastInv /\ NewInv /\ [Next]_vars => NewInv'
<1> SUFFICES ASSUME HandlerInv, PastInv, NewInv, [Next]_vars,
                    NEW e \in Reader, rpc'[e] \in Looking,
                    NEW r \in Snapshots, req'[r] \in {"hash", "open", "fill"}
             PROVE  m'[e].gen < gen'
  BY DEF NewInv
<1>1. TypeInv /\ gen \in Nat /\ ReadsBeside(e) /\ gen' \in {gen, gen + 1}
  <2>1. DirectoryStep /\ ReadsBeside(e)
    BY DirectorySteps, ReaderSteps
  <2>2. TypeInv /\ gen \in Nat
    BY AgentFacts DEF HandlerInv, TypeInv, TypeOK, VerifyTypeOK
  <2> QED BY <2>1, <2>2 DEF DirectoryStep
<1>2. gen' = gen + 1 \/ req[r] \in {"hash", "open", "fill"}
  BY DraftSteps DEF DraftStep, Drafting
<1>3. CASE rpc[e] \in Looking /\ m'[e] = m[e]
  <2>1. m[e].gen \in Nat /\ m[e].gen <= gen /\ (req[r] \in {"hash", "open", "fill"} => m[e].gen < gen)
    BY <1>1, <1>3, Values, AgentFacts DEF TypeInv, PastInv, Past, NewInv
  <2> QED BY <1>1, <1>2, <1>3, <2>1
<1>4. CASE Published /\ m'[e] = manifest /\ UNCHANGED <<dirVars, agentVars>>
  <2>1. req[r] \in {"hash", "open", "fill"}
    BY <1>4 DEF agentVars
  <2> QED BY <1>4, <2>1, Values DEF HandlerInv, DirectoryBy, Published
<1> QED BY <1>1, <1>3, <1>4, ReadsPublished

(* A file that passes is not one to find, and a file that is as it was passes. *)
LEMMA PassesSound ==
  ASSUME NEW e \in Reader, NEW f \in Listed(m[e].sum), NEW pass \in Passes(e, f), pass
  PROVE  f \notin Damaged(e, m[e].sum)
<1>1. PICK s \in SameSize(data[f], m[e].sum[f]) : pass = (s /\ (skip[e] \/ data[f] = m[e].sum[f]))
  BY DEF Passes
<1>2. s /\ (skip[e] \/ data[f] = m[e].sum[f])
  BY <1>1
<1>3. CASE skip[e]
  <2>1. SameSize(data[f], m[e].sum[f]) # {FALSE}
    BY <1>1, <1>2
  <2> QED BY <1>3, <2>1 DEF Damaged
<1>4. CASE ~skip[e]
  BY <1>2, <1>4 DEF Damaged
<1> QED BY <1>3, <1>4

LEMMA PassesComplete ==
  ASSUME NEW e \in Reader, NEW f, NEW pass \in Passes(e, f),
         data[f] = m[e].sum[f], data[f] # NoFile
  PROVE  pass
<1>1. PICK s \in SameSize(data[f], m[e].sum[f]) : pass = (s /\ (skip[e] \/ data[f] = m[e].sum[f]))
  BY DEF Passes
<1>2. SameSize(data[f], m[e].sum[f]) = {TRUE}
  BY DEF SameSize
<1> QED BY <1>1, <1>2

LEMMA NextHurt ==
  ASSUME HandlerInv, PastInv, NewInv, [Next]_vars, NEW e \in Reader, HurtBy(e)
  PROVE  HurtBy(e)'
<1>1. TypeInv /\ ReadTypes /\ DirectoryStep /\ skip' = skip /\ ReadsBeside(e)
      /\ manifest \in {NoManifest, TornManifest} \cup Complete
  BY DirectorySteps, ReaderSteps, TypeParts DEF HandlerInv, TypeInv, TypeOK, VerifyTypeOK
<1> SUFFICES ASSUME rpc'[e] \in {"host", "files"}, skip[e] => manifest' = m'[e],
                    NEW s, s = m'[e]
             PROVE  hurt'[e] \subseteq left'[e] \cap Damaged(e, s.sum)'
  BY <1>1 DEF HurtBy, Damaged, Listed
<1>2. ASSUME UNCHANGED data, NEW t PROVE Damaged(e, t.sum)' = Damaged(e, t.sum)
  BY <1>1, <1>2 DEF Damaged, Listed
<1>3. CASE rpc'[e] = rpc[e] /\ m'[e] = m[e] /\ left'[e] = left[e] /\ hurt'[e] = hurt[e]
  <2>1. rpc[e] \in Looking /\ s = m[e] /\ m[e] \in Complete /\ Past(m[e])
    BY <1>1, <1>3 DEF Looking, TypeInv, PastInv
  <2>2. skip[e] => manifest = m[e]
    BY <1>3, <2>1, NeverReturns
  <2>3. hurt[e] \subseteq left[e] \cap Damaged(e, s.sum)
    BY <1>3, <2>1, <2>2 DEF HurtBy
  <2>4. Damaged(e, s.sum) \subseteq Damaged(e, s.sum)'
    BY <1>1, <1>3, <2>1, <2>2, StaysDamaged
  <2> QED BY <1>3, <2>3, <2>4
<1>4. CASE ReaderStep(e) /\ UNCHANGED <<host, dirVars, disturbed, agentVars>>
  <2>1. Damaged(e, s.sum)' = Damaged(e, s.sum)
    BY <1>2, <1>4 DEF dirVars
  <2>2. CASE rpc[e] = "read"
    <3>1. m'[e] = manifest /\ left'[e] = Listed(manifest.sum) /\ hurt'[e] = Damaged(e, manifest.sum)
      BY <1>1, <2>2, ReadsPublished DEF Looking, VerifiedLabel
    <3>2. Damaged(e, manifest.sum) \subseteq Listed(manifest.sum)
      BY DEF Damaged
    <3> QED BY <2>1, <3>1, <3>2
  <2>3. CASE CheckHost(e)
    <3>1. UNCHANGED <<m, left, hurt>>
      BY <1>1, <2>3 DEF CheckHost, Go, Exit, ReadTypes
    <3> QED BY <1>1, <1>4, <2>1, <2>3, <3>1 DEF CheckHost, HurtBy, dirVars
  <2>4. CASE CheckFile(e)
    <3>1. rpc[e] = "files" /\ rpc'[e] = "files"
      BY <1>1, <2>4 DEF CheckFile, Go, Exit, ReadTypes
    <3>2. PICK f \in left[e] : /\ TRUE \in Passes(e, f)
                               /\ left' = [left EXCEPT ![e] = @ \ {f}]
                               /\ UNCHANGED <<m, hurt>>
      BY <1>1, <2>4, <3>1 DEF CheckFile, Go, Exit, ReadTypes
    <3>3. left'[e] = left[e] \ {f}
      BY <1>1, <3>2 DEF ReadTypes
    <3>4. f \notin Damaged(e, m[e].sum)
      BY <1>1, <3>1, <3>2, PassesSound DEF TypeInv, Looking
    <3>5. hurt[e] \subseteq left[e] \cap Damaged(e, m[e].sum)
      BY <1>4, <3>1, <3>2 DEF HurtBy, dirVars
    <3> QED BY <2>1, <3>2, <3>3, <3>4, <3>5
  <2>5. CASE rpc[e] # "read" /\ ~CheckHost(e) /\ ~CheckFile(e)
    BY <1>1, <1>4, <2>5
       DEF ReaderStep, ReadManifest, Refused, Verified, Checked, CheckKind, Restore, Go, Exit, ReadTypes
  <2> QED BY <2>2, <2>3, <2>4, <2>5
<1> QED BY <1>1, <1>3, <1>4 DEF ReadsBeside

LEMMA NextFit ==
  ASSUME HandlerInv, FitInv, [Next]_vars
  PROVE  FitInv'
<1>1. DirectoryStep /\ OneAtATime /\ OneAtATime' /\ Snapshots \subseteq Request
  BY DirectorySteps, NextHandler, AgentFacts DEF HandlerInv
<1> SUFFICES ASSUME ~disturbed'
             PROVE  /\ Published' => manifest'.sum = data'
                    /\ \A r \in Snapshots : req'[r] \in {"open", "fill"} => draft'[r].sum = data'
  BY DEF FitInv
<1>2. ASSUME NEW r \in Snapshots, req'[r] \in {"open", "fill"}
      PROVE  draft'[r].sum = data'
  <2>1. DraftStep(r)
    BY <1>2, DraftSteps DEF Drafting
  <2>2. CASE draft'[r].sum = data /\ UNCHANGED data
    BY <2>2
  <2>3. CASE draft'[r] = draft[r] /\ req[r] \in {"open", "fill"}
    <3>1. \A q \in Snapshots : req[q] # "hash" /\ req'[q] # "hash"
      BY <1>1, <1>2, <2>3 DEF OneAtATime, Handled
    <3>2. UNCHANGED <<host, data, disturbed>>
      BY <1>1, <3>1 DEF DirectoryStep, Hash, At
    <3> QED BY <2>3, <3>2 DEF FitInv
  <2> QED BY <1>2, <2>1, <2>2, <2>3 DEF DraftStep
<1>3. ASSUME Published' PROVE manifest'.sum = data'
  <2>1. UNCHANGED <<host, data, disturbed>>
    <3>1. manifest' # NoManifest
      BY <1>3, Values DEF Published
    <3> QED BY <1>1, <3>1 DEF DirectoryStep
  <2>2. CASE manifest' = manifest
    BY <1>3, <2>1, <2>2 DEF FitInv, Published
  <2>3. ASSUME NEW r \in Snapshots, req[r] = "fill", manifest' = draft[r]
        PROVE  manifest'.sum = data'
    BY <2>1, <2>3 DEF FitInv
  <2> QED BY <1>3, <2>2, <2>3, ManifestSteps, Values DEF Published
<1> QED BY <1>2, <1>3

LEMMA NextFound ==
  ASSUME HandlerInv, NewInv, \A e \in Reader : HurtBy(e), DamageFound, [Next]_vars
  PROVE  DamageFound'
<1> SUFFICES ASSUME NEW e \in Reader, rpc'[e] \in VerifiedLabel
             PROVE  hurt'[e] = {} \/ (skip'[e] /\ manifest' # m'[e])
  BY DEF DamageFound
<1>1. ReadTypes /\ skip' = skip /\ ReadsBeside(e)
  BY ReaderSteps, TypeParts DEF HandlerInv
<1>2. CASE rpc[e] \in VerifiedLabel /\ m'[e] = m[e] /\ hurt'[e] = hurt[e]
  BY <1>1, <1>2, NeverReturns DEF DamageFound, Looking
<1>3. CASE Verified(e) /\ UNCHANGED dirVars
  <2>1. (skip[e] => manifest = m[e]) => hurt[e] = {}
    BY <1>3 DEF Verified, HurtBy
  <2> QED BY <1>1, <1>3, <2>1 DEF Verified, dirVars
<1>4. CASE CheckKind(e)
  BY <1>1, <1>2, <1>4 DEF CheckKind, Go, Exit, ReadTypes, VerifiedLabel
<1>5. CASE ReaderStep(e) /\ ~Verified(e) /\ ~CheckKind(e)
  BY <1>1, <1>5
     DEF ReaderStep, ReadManifest, CheckHost, CheckFile, Refused, Checked, Restore, Go, Exit,
         ReadTypes, VerifiedLabel
<1> QED BY <1>1, <1>2, <1>3, <1>4, <1>5 DEF ReadsBeside, VerifiedLabel

LEMMA NextCause ==
  ASSUME HandlerInv, NewInv, FitInv, RefusedForCause, [Next]_vars
  PROVE  RefusedForCause'
<1> SUFFICES ASSUME NEW e \in Reader, rpc'[e] \in {"unfit", "refused"}, ~disturbed', manifest' = m'[e]
             PROVE  rpc'[e] = "unfit" /\ m'[e].host # AtBest(host', Criu[e])
  BY DEF RefusedForCause, AtBest
<1>1. ReadTypes /\ ReadsBeside(e) /\ DirectoryStep /\ host \in Host
      /\ data \in [File -> Content \cup {NoFile}]
      /\ manifest \in {NoManifest, TornManifest} \cup Complete
  BY ReaderSteps, DirectorySteps, TypeParts DEF HandlerInv, DirTypes
<1>2. CASE rpc[e] \in {"unfit", "refused"} /\ rpc'[e] = rpc[e] /\ m'[e] = m[e]
  <2>1. m[e] \in Complete /\ m[e] # NoManifest /\ manifest = m[e]
    BY <1>1, <1>2, Values, NeverReturns DEF ReadTypes, Looking
  <2>2. UNCHANGED <<host, disturbed>>
    BY <1>1, <2>1 DEF DirectoryStep
  <2>3. AtBest(host', Criu[e]) = AtBest(host, Criu[e])
    BY <2>2
  <2> QED BY <1>2, <2>1, <2>2, <2>3 DEF RefusedForCause
<1>3. CASE CheckHost(e)
  <2>1. rpc'[e] = "unfit" /\ m' = m /\ m[e].host \in Report
    BY <1>1, <1>3, Values DEF CheckHost, Go, Exit, ReadTypes, Looking
  <2>2. ~Compatible(m[e].host, AtBest(host, Criu[e])) /\ UNCHANGED host
    BY <1>1, <1>3, <2>1 DEF CheckHost, Go, Exit, ReadTypes, envVars
  <2>3. \A x \in Report : Compatible(x, x)
    BY Reports DEF Compatible, Agree
  <2>4. AtBest(host', Criu[e]) = AtBest(host, Criu[e])
    BY <2>2
  <2> QED BY <2>1, <2>2, <2>3, <2>4
<1>4. CASE CheckFile(e) /\ UNCHANGED <<dirVars, disturbed>>
  <2>1. rpc[e] = "files" /\ rpc'[e] = "refused"
    BY <1>1, <1>4 DEF CheckFile, Go, Exit, ReadTypes
  <2>2. PICK f \in left[e] : FALSE \in Passes(e, f) /\ UNCHANGED m
    BY <1>1, <1>4, <2>1 DEF CheckFile, Go, Exit, ReadTypes
  <2>3. m[e] \in Complete /\ f \in Listed(m[e].sum) /\ manifest = m[e] /\ ~disturbed
    BY <1>1, <1>4, <2>1, <2>2 DEF ReadTypes, Looking, dirVars
  <2>4. m[e].sum = data
    BY <2>3, Values DEF FitInv, Published
  <2> QED BY <2>2, <2>3, <2>4, PassesComplete DEF Listed
<1>5. CASE ReaderStep(e) /\ ~CheckHost(e) /\ ~CheckFile(e)
  BY <1>1, <1>5
     DEF ReaderStep, ReadManifest, Refused, Verified, Checked, CheckKind, Restore, Go, Exit, ReadTypes
<1> QED BY <1>1, <1>2, <1>3, <1>4, <1>5 DEF ReadsBeside

LEMMA InitVerify == Init => VerifyInv
<1> SUFFICES ASSUME Init PROVE VerifyInv
  OBVIOUS
<1>1. HandlerInv
  BY InitHandler
<1>2. /\ \A r \in Snapshots : req[r] \notin Handled
      /\ \A e \in Reader : rpc[e] = "read"
      /\ ~Published
      /\ \A f \in File : data[f] = NoFile
  BY AgentFacts, Values DEF Init, VerifyInit, Handled, Published
<1>3. PastInv
  BY <1>2 DEF PastInv, Looking, VerifiedLabel, Handled, Drafting
<1>4. NewInv /\ FitInv /\ DamageFound /\ RefusedForCause /\ \A e \in Reader : HurtBy(e)
  BY <1>2 DEF NewInv, FitInv, DamageFound, RefusedForCause, HurtBy, Looking, VerifiedLabel, Handled
<1> QED BY <1>1, <1>3, <1>4 DEF VerifyInv

LEMMA NextVerify == VerifyInv /\ [Next]_vars => VerifyInv'
<1> SUFFICES ASSUME VerifyInv, [Next]_vars PROVE VerifyInv'
  OBVIOUS
<1>1. \A e \in Reader : HurtBy(e)'
  BY NextHurt DEF VerifyInv
<1> QED BY <1>1, NextHandler, NextPast, NextNew, NextFit, NextFound, NextCause DEF VerifyInv

(* Damage that is there when a command begins never reaches CRIU, while dumps, *)
(* snapshot-clean and decay go on beside it.                                  *)
THEOREM FindsDamage == Spec => []DamageFound
<1>1. VerifyInv => DamageFound
  BY DEF VerifyInv
<1> QED BY <1>1, InitVerify, NextVerify, PTL DEF Spec

(* Whoever could look at the node and at the files is not refused as long as  *)
(* nothing has touched the snapshot or the node, unless the manifest tells of *)
(* another node than it sees: its writer could not look, or had another CRIU. *)
THEOREM RefusesForCause == Spec => []RefusedForCause
<1>1. VerifyInv => RefusedForCause
  BY DEF VerifyInv
<1> QED BY <1>1, InitVerify, NextVerify, PTL DEF Spec

-----------------------------------------------------------------------------
(* The address of the source pod.                                            *)

LEMMA InitAddress == Init => AddressInv
<1> SUFFICES ASSUME Init PROVE AddressInv
  OBVIOUS
<1>1. ~Published /\ \A r \in Restores : rpc[r] = "read" /\ address[r] = NoNetwork
  BY AgentFacts, Values DEF Init, VerifyInit, Published
<1> QED BY <1>1, InitHandler DEF AddressInv, AddressBy, Looking, VerifiedLabel

(* Who writes network.json, and what.                                        *)
LEMMA NetworkSteps ==
  ASSUME HandlerInv, [Next]_vars
  PROVE  \/ network' \in {network, NoNetwork, TornNetwork}
         \/ \E r \in Snapshots : NetFill(r) /\ network' = draft[r].gen
<1>1. ASSUME NEW r \in Snapshots, SnapshotStep(r), network' # network
      PROVE  \/ network' \in {NoNetwork, TornNetwork}
             \/ NetFill(r) /\ network' = draft[r].gen
  BY <1>1
     DEF SnapshotStep, Prepare, Dump, Hash, Open, Fill, Address, NetOpen, NetFill, dirVars
<1>2. ASSUME NEW c \in Cleaner, Clean(c) PROVE network' \in {network, NoNetwork}
  BY <1>2 DEF Clean, CleanerStep, CleanTest, CleanEntry, CleanEnd, dirVars
<1>3. ASSUME NEW e \in Reader, ReaderStep(e) PROVE network' = network
  BY <1>3 DEF ReaderStep, ReadManifest, CheckHost, CheckFile, Refused, Verified,
              Checked, CheckKind, Restore, dirVars
<1>4. ASSUME NEW r \in Restores, RestoreStep(r) PROVE network' = network
  BY <1>3, <1>4, AgentFacts DEF RestoreStep, NetTest, NetLoad, Run, Reply, dirVars
<1>5. ASSUME NEW r \in Request, Serve(r) PROVE network' = network
  BY <1>5 DEF Serve, dirVars
<1>6. Crash \/ Environment \/ UNCHANGED vars => network' = network
  BY DEF Crash, Environment, Decay, HostChanges, vars, dirVars
<1> QED BY <1>1, <1>2, <1>3, <1>4, <1>5, <1>6 DEF Next, Operator, Done

LEMMA NextNetwork ==
  ASSUME HandlerInv, [Next]_vars, Published',
         Published => network \in {NoNetwork, TornNetwork, manifest.gen}
  PROVE  network' \in {NoNetwork, TornNetwork, manifest'.gen}
<1>1. CASE Published /\ manifest' = manifest
  <2>1. ASSUME NEW r \in Snapshots, NetFill(r) PROVE draft[r] = manifest
    BY <1>1, <2>1, Values DEF NetFill, At, HandlerInv, DirectoryBy, Published
  <2> QED BY <1>1, <2>1, NetworkSteps
<1>2. ASSUME NEW r \in Snapshots, Fill(r) PROVE network' = NoNetwork
  BY <1>2 DEF Fill, At, HandlerInv, DirectoryBy
<1> QED BY <1>1, <1>2, ManifestSteps, Values DEF Published

(* What happens to a restore: nothing, it is not running afterwards, it       *)
(* begins to run with the address that is there, or it runs.                 *)
RestoreBy(r) ==
  \/ req'[r] = req[r] /\ address'[r] = address[r] /\ rpc'[r] = rpc[r] /\ m'[r] = m[r]
  \/ req'[r] # "run" /\ address'[r] = NoNetwork /\ rpc'[r] \notin Looking
  \/ /\ req[r] # "run" /\ req'[r] = "run" /\ UNCHANGED <<dirVars, rpc>>
     /\ address'[r] \in {NoNetwork, Given} \cup ({network} \cap 1..MaxGen)
  \/ Run(r)

LEMMA RestoreSteps ==
  ASSUME AddressInv, [Next]_vars, NEW r \in Restores
  PROVE  RestoreBy(r)
<1>1. /\ ReadTypes /\ AddressBy(r) /\ r \in Request /\ r \in Reader /\ r \notin Snapshots
      /\ req \in [Request -> {"waiting", "over"} \cup Handled]
      /\ address \in [Restores -> 0..(MaxGen + 1)]
  BY TypeParts, AgentFacts DEF AddressInv, HandlerInv, RequestTypes
<1>2. CASE req'[r] = req[r] /\ address'[r] = address[r] /\ rpc'[r] = rpc[r] /\ m'[r] = m[r]
  BY <1>2 DEF RestoreBy
<1>3. req[r] # "run" => address[r] = NoNetwork /\ rpc[r] \notin Looking
  BY <1>1 DEF AddressBy
<1>4. ASSUME NEW q \in Request, Serve(q) PROVE RestoreBy(r)
  BY <1>1, <1>3, <1>4 DEF Serve, At, To, readerVars, RestoreBy
<1>5. ASSUME NEW q \in Snapshots, SnapshotStep(q) PROVE RestoreBy(r)
  <2>1. \E l : To(q, l)
    BY <1>5 DEF SnapshotStep, Prepare, Dump, Hash, Open, Fill, Address, NetOpen, NetFill,
                Step, Answer
  <2>2. UNCHANGED <<address, rpc, m>>
    BY <1>5 DEF SnapshotStep, Prepare, Dump, Hash, Open, Fill, Address, NetOpen, NetFill,
                quietVars, readerVars
  <2> QED BY <1>1, <1>2, <2>1, <2>2 DEF To
<1>6. ASSUME NEW e \in Reader \ {r}, ReaderStep(e), UNCHANGED agentVars PROVE RestoreBy(r)
  BY <1>1, <1>2, <1>6
     DEF ReaderStep, ReadManifest, CheckHost, CheckFile, Refused, Verified, Checked, CheckKind,
         Restore, Go, Exit, ReadTypes, agentVars
<1>7. ASSUME NEW q \in Restores \ {r}, RestoreStep(q) PROVE RestoreBy(r)
  <2>1. CASE Run(q)
    BY <1>6, <2>1, AgentFacts DEF Run
  <2>2. CASE NetTest(q) \/ NetLoad(q) \/ Reply(q)
    BY <1>1, <1>2, <1>7, <2>2 DEF NetTest, NetLoad, Source, Reply, To, readerVars
  <2> QED BY <1>7, <2>1, <2>2 DEF RestoreStep
<1>8. CASE NetTest(r)
  BY <1>1, <1>3, <1>8 DEF NetTest, Source, At, To, readerVars, RestoreBy
<1>9. CASE NetLoad(r)
  BY <1>1, <1>3, <1>9 DEF NetLoad, Source, At, To, readerVars, RestoreBy
<1>10. CASE Reply(r)
  BY <1>1, <1>10 DEF Reply, To, readerVars, RestoreBy, Looking, VerifiedLabel
<1>11. CASE RestoreStep(r)
  BY <1>8, <1>9, <1>10, <1>11 DEF RestoreStep, RestoreBy
<1>12. ASSUME NEW c \in Cleaner, Clean(c) PROVE RestoreBy(r)
  <2>1. CASE CleanEntry(c)
    BY <1>2, <1>12, <2>1 DEF Clean, CleanEntry, agentVars, readerVars
  <2>2. CASE CleanTest(c) \/ CleanEnd(c)
    <3>1. c \notin Reader
      BY <1>1, <2>2 DEF CleanTest, CleanEnd, ReadTypes, ReaderLabel, VerifiedLabel
    <3> QED BY <1>1, <1>2, <1>12, <2>2, <3>1 DEF Clean, CleanTest, CleanEnd, Go, ReadTypes, agentVars
  <2> QED BY <1>12, <2>1, <2>2 DEF Clean, CleanerStep
<1>13. CASE Crash
  <2>1. req'[r] # "run" /\ address'[r] = NoNetwork
    BY <1>1, <1>13 DEF Crash, Handled
  <2>2. rpc'[r] = IF req[r] = "run" THEN "ended" ELSE rpc[r]
    BY <1>1, <1>13 DEF Crash, ReadTypes
  <2> QED BY <1>3, <2>1, <2>2 DEF RestoreBy, Looking, VerifiedLabel
<1>14. CASE Environment \/ UNCHANGED vars
  BY <1>2, <1>14 DEF Environment, Decay, HostChanges, agentVars, readerVars, vars
<1> QED BY <1>4, <1>5, <1>6, <1>7, <1>11, <1>12, <1>13, <1>14 DEF Next, Operator, Done

LEMMA NextAddress == AddressInv /\ [Next]_vars => AddressInv'
<1> SUFFICES ASSUME AddressInv, [Next]_vars, NEW r \in Restores PROVE AddressBy(r)'
  BY NextHandler, NextNetwork DEF AddressInv
<1>1. /\ HandlerInv /\ TypeInv /\ AddressBy(r) /\ RestoreBy(r) /\ r \in Request /\ r \in Reader
      /\ Published => network \in {NoNetwork, TornNetwork, manifest.gen}
  BY RestoreSteps, AgentFacts DEF AddressInv, HandlerInv
<1>2. CASE req'[r] = req[r] /\ address'[r] = address[r] /\ rpc'[r] = rpc[r] /\ m'[r] = m[r]
  <2>1. ASSUME Published', rpc[r] = "read" PROVE address[r] \in {NoNetwork, Given, manifest'.gen}
    <3>1. CASE manifest' = manifest
      BY <1>1, <2>1, <3>1 DEF Published, AddressBy
    <3>2. ASSUME NEW q \in Snapshots, req[q] = "fill" PROVE req[r] # "run"
      BY <1>1, <3>2, AgentFacts DEF HandlerInv, OneAtATime, Handled
    <3> QED BY <1>1, <2>1, <3>1, <3>2, ManifestSteps, Values DEF Published, AddressBy
  <2> QED BY <1>1, <1>2, <2>1 DEF AddressBy
<1>3. CASE req'[r] # "run" /\ address'[r] = NoNetwork /\ rpc'[r] \notin Looking
  BY <1>3 DEF AddressBy
<1>4. CASE /\ req[r] # "run" /\ req'[r] = "run" /\ UNCHANGED <<dirVars, rpc>>
           /\ address'[r] \in {NoNetwork, Given} \cup ({network} \cap 1..MaxGen)
  <2>1. TornNetwork \notin 1..MaxGen
    BY AgentFacts DEF TornNetwork
  <2>2. Published' => address'[r] \in {NoNetwork, Given, manifest'.gen}
    BY <1>1, <1>4, <2>1 DEF dirVars, Published
  <2> QED BY <1>1, <1>4, <2>2 DEF AddressBy
<1>5. CASE Run(r)
  <2>1. req[r] = "run" /\ req' = req /\ address' = address /\ ReadsBeside(r)
    BY <1>1, <1>5, ReaderSteps DEF Run, At, agentVars
  <2>2. rpc'[r] # "read"
    BY <1>1, <1>5, TypeParts
       DEF Run, ReaderStep, ReadManifest, CheckHost, CheckFile, Refused, Verified, Checked,
           CheckKind, Restore, Go, Exit, ReadTypes
  <2>3. rpc'[r] \in Looking => address'[r] \in {NoNetwork, Given, m'[r].gen}
    BY <1>1, <2>1, ReadsPublished DEF AddressBy
  <2> QED BY <2>1, <2>2, <2>3 DEF AddressBy
<1> QED BY <1>1, <1>2, <1>3, <1>4, <1>5 DEF RestoreBy

(* A restore remaps the address that network.json had for the very snapshot it *)
(* restores, the one its request gives, or none.                              *)
THEOREM RemapsOwn == Spec => []RemapsItsOwn
<1>1. AddressInv => RemapsItsOwn
  BY DEF AddressInv, AddressBy, RemapsItsOwn, Looking
<1> QED BY <1>1, InitAddress, NextAddress, PTL DEF Spec

=============================================================================
