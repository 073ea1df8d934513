--------------------------- MODULE FastApiQuiesce ---------------------------
(* The FastAPI adapter (examples/02_fastapi_resume/server.py): a service that *)
(* is drained before edo captures it and reopened after it has been restored. *)
(* Every handler is a thread; they share `accepting' and `inflight' under one *)
(* condition. An operator (run.sh) posts /quiesce, looks at /ready, has edo   *)
(* dump the process, and posts /resume; several may do so at once.            *)
(*                                                                            *)
(* A block under the lock is one step; Condition.wait gives the lock up, and  *)
(* what follows a wait is a step of its own.                                  *)
EXTENDS Naturals, FiniteSets

CONSTANTS
  Infer,         \* threads of /infer, each for one request after the other
  Operator       \* operators, and the threads of their /quiesce and /resume

ASSUME QuiesceAssumption == IsFiniteSet(Infer) /\ Infer \cap Operator = {}

VARIABLES
  up,            \* lifespan: "starting", "ready" (model and flag set), "down"
  accepting,
  inflight,
  pc,
  expired,       \* the deadline of the operator's /quiesce has passed
  image,         \* what the operator's dump captured, or NoImage
  reopened       \* history: a /resume has opened since the /quiesce closed

vars == <<up, accepting, inflight, pc, expired, image, reopened>>

NoImage == [taken |-> FALSE]
Image == {NoImage} \cup [taken : {TRUE}, accepting : BOOLEAN, serving : SUBSET Infer]

(* waiting: in the loop of /quiesce. quiesced, busy: out of it, the answer   *)
(* not yet sent. probe, dump, resume: the operator after a 200.              *)
OperatorLabel == {"idle", "waiting", "quiesced", "busy", "probe", "dump", "resume"}

Serving == {i \in Infer : pc[i] = "serving"}

TypeOK ==
  /\ up \in {"starting", "ready", "down"}
  /\ accepting \in BOOLEAN
  /\ inflight \in Nat
  /\ pc \in [Infer \cup Operator -> OperatorLabel \cup {"serving"}]
  /\ \A i \in Infer : pc[i] \in {"idle", "serving"}
  /\ \A o \in Operator : pc[o] # "serving"
  /\ expired \in [Operator -> BOOLEAN]
  /\ image \in [Operator -> Image]
  /\ reopened \in [Operator -> BOOLEAN]

Init ==
  /\ up = "starting"
  /\ accepting = FALSE
  /\ inflight = 0
  /\ pc = [t \in Infer \cup Operator |-> "idle"]
  /\ expired = [o \in Operator |-> FALSE]
  /\ image = [o \in Operator |-> NoImage]
  /\ reopened = [o \in Operator |-> FALSE]

Goto(t, l) == pc' = [pc EXCEPT ![t] = l]

-----------------------------------------------------------------------------
(* lifespan. The server takes requests after the startup, and shuts down     *)
(* when none is left.                                                        *)

Startup ==
  /\ up = "starting"
  /\ up' = "ready" /\ accepting' = TRUE
  /\ UNCHANGED <<inflight, pc, expired, image, reopened>>

Shutdown ==
  /\ up = "ready"
  /\ \A t \in Infer \cup Operator : pc[t] \in {"idle", "probe", "dump", "resume"}
  /\ up' = "down" /\ accepting' = FALSE
  /\ UNCHANGED <<inflight, pc, expired, image, reopened>>

-----------------------------------------------------------------------------
(* /infer.                                                                   *)

(* Mutant of Admit: `accepting' was read before the lock was taken.          *)
Admit_StaleCheck(i) ==
  /\ up = "ready" /\ pc[i] = "idle"
  /\ Goto(i, "serving") /\ inflight' = inflight + 1
  /\ UNCHANGED <<up, accepting, expired, image, reopened>>

(* A request that is not admitted is answered 503 and leaves no trace.       *)
Admit(i) ==
  /\ up = "ready" /\ accepting /\ pc[i] = "idle"
  /\ Goto(i, "serving") /\ inflight' = inflight + 1
  /\ UNCHANGED <<up, accepting, expired, image, reopened>>

(* Mutant of Finish: the count is not in the `finally', an exception skips it. *)
Finish_ExceptionLeaks(i) ==
  /\ pc[i] = "serving"
  /\ Goto(i, "idle") /\ inflight' \in {inflight, inflight - 1}
  /\ UNCHANGED <<up, accepting, expired, image, reopened>>

(* Mutant of Finish: counted down in an `except' and again in the `finally'.  *)
Finish_CountedTwice(i) ==
  /\ pc[i] = "serving"
  /\ Goto(i, "idle") /\ inflight' \in {inflight - 1, inflight - 2}
  /\ UNCHANGED <<up, accepting, expired, image, reopened>>

(* The answer or an exception. notify_all only makes a waiting /quiesce look *)
(* sooner: it wakes up every 0.1 s by itself.                                *)
Finish(i) ==
  /\ pc[i] = "serving"
  /\ Goto(i, "idle") /\ inflight' = inflight - 1
  /\ UNCHANGED <<up, accepting, expired, image, reopened>>

-----------------------------------------------------------------------------
(* /quiesce.                                                                 *)

(* Mutant of Loop: no deadline.                                              *)
Loop_NoDeadline(o, late) == Goto(o, IF inflight = 0 THEN "quiesced" ELSE "waiting")

(* The loop's test, and the test after it.                                   *)
Loop(o, late) ==
  Goto(o, IF inflight = 0 THEN "quiesced" ELSE IF late THEN "busy" ELSE "waiting")

(* The timeout is a parameter of the request and may be 0.                   *)
Close(o) ==
  /\ up = "ready" /\ pc[o] = "idle"
  /\ accepting' = FALSE
  /\ reopened' = [reopened EXCEPT ![o] = FALSE]
  /\ \E late \in BOOLEAN :
       Loop(o, late) /\ expired' = [expired EXCEPT ![o] = late]
  /\ image' = [image EXCEPT ![o] = NoImage]
  /\ UNCHANGED <<up, inflight>>

Expire(o) ==
  /\ pc[o] = "waiting" /\ ~expired[o]
  /\ expired' = [expired EXCEPT ![o] = TRUE]
  /\ UNCHANGED <<up, accepting, inflight, pc, image, reopened>>

(* The wait returns, notified or not, with the lock taken again.             *)
Wake(o) ==
  /\ pc[o] = "waiting"
  /\ Loop(o, expired[o])
  /\ UNCHANGED <<up, accepting, inflight, expired, image, reopened>>

-----------------------------------------------------------------------------
(* The operator. The script stops at a 409, and at a service that is ready.  *)

Answered(o) ==
  /\ \/ pc[o] = "quiesced" /\ Goto(o, "probe")
     \/ pc[o] = "busy" /\ Goto(o, "idle")
  /\ UNCHANGED <<up, accepting, inflight, expired, image, reopened>>

(* /ready takes no lock.                                                     *)
Probe(o) ==
  /\ pc[o] = "probe"
  /\ Goto(o, IF up = "ready" /\ accepting THEN "idle" ELSE "dump")
  /\ UNCHANGED <<up, accepting, inflight, expired, image, reopened>>

(* edo cpu-dump: the process with its threads, wherever they are.            *)
Dump(o) ==
  /\ pc[o] = "dump" /\ up = "ready"
  /\ image' = [image EXCEPT ![o] =
                 [taken |-> TRUE, accepting |-> accepting, serving |-> Serving]]
  /\ Goto(o, "resume")
  /\ UNCHANGED <<up, accepting, inflight, expired, reopened>>

(* A dump that fails ends the script: the service stays closed.              *)
DumpFails(o) ==
  /\ pc[o] = "dump"
  /\ Goto(o, "idle")
  /\ UNCHANGED <<up, accepting, inflight, expired, image, reopened>>

(* /resume opens for everyone, also for a /quiesce that is still waiting.    *)
Resume(o) ==
  /\ pc[o] = "resume"
  /\ accepting' = (up = "ready")
  /\ reopened' = [q \in Operator |-> reopened[q] \/ up = "ready"]
  /\ Goto(o, "idle")
  /\ UNCHANGED <<up, inflight, expired, image>>

-----------------------------------------------------------------------------

Service == Startup \/ Shutdown \/ \E i \in Infer : Admit(i) \/ Finish(i)

(* The service is down and every script has ended.                           *)
Done == up = "down" /\ (\A t \in Infer \cup Operator : pc[t] = "idle") /\ UNCHANGED vars

Next ==
  \/ Service
  \/ Done
  \/ \E o \in Operator :
       \/ Close(o) \/ Expire(o) \/ Wake(o) \/ Answered(o)
       \/ Probe(o) \/ Dump(o) \/ DumpFails(o) \/ Resume(o)

Spec == Init /\ [][Next]_vars

(* Time passes, the 0.1 s wait returns, and a handler that has left the loop *)
(* answers. Nothing is assumed of the inferences: one may never come back.   *)
FairSpec ==
  /\ Spec
  /\ \A o \in Operator : WF_vars(Expire(o)) /\ WF_vars(Wake(o)) /\ WF_vars(Answered(o))

-----------------------------------------------------------------------------

(* `inflight' is the number of requests between their admission and their     *)
(* `finally': none is forgotten, whatever it raises. One forgotten would make *)
(* every later /quiesce time out.                                             *)
InflightCounts == inflight = Cardinality(Serving)

(* "/quiesce rejects new work and waits for active requests to drain before   *)
(* CRIU captures the process" (examples/02_fastapi_resume/README.md:39): from *)
(* the moment /quiesce decides to answer 200 no request is under way and none *)
(* is admitted, up to the dump and in the image it writes. Only a /resume     *)
(* that has come since the /quiesce began takes that back.                    *)
QuiescedIsIdle ==
  \A o \in Operator :
    /\ pc[o] \in {"quiesced", "probe", "dump"} /\ ~reopened[o] =>
         ~accepting /\ Serving = {}
    /\ image[o].taken /\ ~reopened[o] => ~image[o].accepting /\ image[o].serving = {}

(* Every /quiesce is answered, whatever becomes of the requests it waits for  *)
(* and however often others close and open the service.                       *)
QuiesceAnswers ==
  \A o \in Operator : pc[o] = "waiting" ~> pc[o] \notin {"waiting", "quiesced", "busy"}

=============================================================================
