------------------------ MODULE FastApiQuiesceProofs ------------------------
(* What holds of FastApiQuiesce for any number of inference threads and of    *)
(* operators.                                                                *)
EXTENDS FastApiQuiesce, FiniteSetTheorems, TLAPS

(* QuiescedIsIdle is not inductive: what it says must hold before the answer, *)
(* while /quiesce waits, as far as admissions go; and nobody is in a handler  *)
(* before the startup, which opens the service.                              *)
Closed ==
  /\ up # "ready" => ~accepting
  /\ up = "starting" => \A t \in Infer \cup Operator : pc[t] = "idle"
  /\ \A o \in Operator : pc[o] = "waiting" /\ ~reopened[o] => ~accepting

IInv == TypeOK /\ InflightCounts /\ Closed /\ QuiescedIsIdle

-----------------------------------------------------------------------------

LEMMA ServingFinite == ASSUME TypeOK PROVE IsFiniteSet(Serving)
  BY QuiesceAssumption, FS_Subset DEF Serving

(* A count of zero is nobody.                                                *)
LEMMA NobodyServes ==
  ASSUME TypeOK, InflightCounts, inflight = 0
  PROVE  Serving = {}
  BY ServingFinite, FS_EmptySet DEF InflightCounts

(* A step of an operator's thread leaves the set of requests alone.           *)
LEMMA OperatorsDoNotServe ==
  ASSUME TypeOK, NEW o \in Operator, NEW l \in OperatorLabel, Goto(o, l)
  PROVE  /\ Serving' = Serving
         /\ pc' \in [Infer \cup Operator -> OperatorLabel \cup {"serving"}]
         /\ \A i \in Infer : pc'[i] = pc[i]
         /\ \A q \in Operator : pc'[q] = IF q = o THEN l ELSE pc[q]
<1>1. o \notin Infer
  BY QuiesceAssumption
<1>2. l # "serving"
  BY DEF OperatorLabel
<1> QED BY <1>1, <1>2 DEF TypeOK, Goto, Serving

(* Where the test of the loop of /quiesce leads.                             *)
LEMMA LoopGoes ==
  ASSUME TypeOK, NEW o \in Operator, NEW late \in BOOLEAN, Loop(o, late)
  PROVE  \E l \in {"quiesced", "busy", "waiting"} :
           Goto(o, l) /\ (l = "quiesced" => inflight = 0)
  BY DEF Loop, TypeOK

-----------------------------------------------------------------------------

LEMMA InitHolds == Init => IInv
<1> SUFFICES ASSUME Init PROVE IInv
  OBVIOUS
<1>1. TypeOK
  <2>1. NoImage \in Image
    BY DEF Image
  <2>2. \A t \in Infer \cup Operator : pc[t] = "idle" /\ pc[t] # "serving"
    BY DEF Init
  <2> QED BY <2>1, <2>2 DEF Init, TypeOK, OperatorLabel
<1>2. Serving = {}
  BY DEF Init, Serving
<1>3. InflightCounts
  BY <1>2, FS_EmptySet DEF Init, InflightCounts
<1>4. Closed /\ QuiescedIsIdle
  BY DEF Init, Closed, QuiescedIsIdle, NoImage
<1> QED BY <1>1, <1>3, <1>4 DEF IInv

(* A request that is admitted or answered changes the count with the set.     *)
LEMMA AdmitPreserves ==
  ASSUME IInv, NEW i \in Infer, Admit(i)
  PROVE  IInv'
<1> USE DEF IInv
<1>1. i \notin Operator /\ i \notin Serving /\ IsFiniteSet(Serving)
  BY QuiesceAssumption, ServingFinite DEF Admit, Serving
<1>2. Serving' = Serving \cup {i}
  BY DEF Admit, Goto, Serving, TypeOK
<1>3. Cardinality(Serving') = Cardinality(Serving) + 1
  BY <1>1, <1>2, FS_AddElement
<1>4. TypeOK'
  BY <1>1 DEF Admit, Goto, TypeOK, OperatorLabel
<1>5. InflightCounts'
  BY <1>3 DEF Admit, InflightCounts
<1>6. \A o \in Operator : pc'[o] = pc[o]
  BY <1>1 DEF Admit, Goto, TypeOK
<1>7. Closed' /\ QuiescedIsIdle'
  BY <1>6 DEF Admit, Closed, QuiescedIsIdle
<1> QED BY <1>4, <1>5, <1>7

LEMMA FinishPreserves ==
  ASSUME IInv, NEW i \in Infer, Finish(i)
  PROVE  IInv'
<1> USE DEF IInv
<1>1. i \notin Operator /\ i \in Serving /\ IsFiniteSet(Serving)
  BY QuiesceAssumption, ServingFinite DEF Finish, Serving
<1>2. Serving' = Serving \ {i}
  BY DEF Finish, Goto, Serving, TypeOK
<1>3. Cardinality(Serving') = Cardinality(Serving) - 1 /\ Cardinality(Serving') \in Nat
  <2>1. IsFiniteSet(Serving')
    BY <1>1, <1>2, FS_RemoveElement
  <2> QED BY <2>1, <1>1, <1>2, FS_RemoveElement, FS_CardinalityType
<1>4. inflight' = Cardinality(Serving')
  BY <1>3 DEF Finish, InflightCounts
<1>5. TypeOK'
  BY <1>1, <1>3, <1>4 DEF Finish, Goto, TypeOK, OperatorLabel
<1>6. \A o \in Operator : pc'[o] = pc[o]
  BY <1>1 DEF Finish, Goto, TypeOK
<1>7. up # "starting"
  BY DEF Finish, Closed
<1>8. Closed'
  BY <1>6, <1>7 DEF Finish, Closed
<1>9. QuiescedIsIdle'
  BY <1>2, <1>6 DEF Finish, QuiescedIsIdle
<1> QED BY <1>4, <1>5, <1>8, <1>9 DEF InflightCounts

-----------------------------------------------------------------------------
(* The service and the threads of the operators. `inflight' and the set of    *)
(* requests stay as they are.                                                *)

LEMMA LifespanPreserves ==
  ASSUME IInv, Startup \/ Shutdown
  PROVE  IInv'
<1> USE DEF IInv
<1>1. TypeOK' /\ Serving' = Serving /\ InflightCounts'
  BY DEF Startup, Shutdown, TypeOK, Serving, InflightCounts
<1>2. CASE Startup
  BY <1>1, <1>2 DEF Startup, Closed, QuiescedIsIdle
<1>3. CASE Shutdown
  BY <1>1, <1>3 DEF Shutdown, Closed, QuiescedIsIdle
<1> QED BY <1>1, <1>2, <1>3

LEMMA ClosePreserves ==
  ASSUME IInv, NEW o \in Operator, Close(o)
  PROVE  IInv'
<1> USE DEF IInv
<1>1. PICK l \in {"quiesced", "busy", "waiting"} :
        Goto(o, l) /\ (l = "quiesced" => inflight = 0)
  BY LoopGoes DEF Close
<1>2. l \in OperatorLabel
  BY DEF OperatorLabel
<1>3. Serving' = Serving /\ \A q \in Operator : pc'[q] = IF q = o THEN l ELSE pc[q]
  BY <1>1, <1>2, OperatorsDoNotServe
<1>4. TypeOK'
  <2>1. NoImage \in Image /\ l # "serving"
    BY DEF Image
  <2> QED BY <1>1, <1>2, <2>1, OperatorsDoNotServe DEF Close, TypeOK
<1>5. InflightCounts'
  BY <1>3 DEF Close, InflightCounts
<1>6. Closed'
  BY DEF Close, Closed
<1>7. QuiescedIsIdle'
  <2> SUFFICES ASSUME NEW q \in Operator
               PROVE  /\ pc'[q] \in {"quiesced", "probe", "dump"} /\ ~reopened'[q] =>
                           ~accepting' /\ Serving' = {}
                      /\ image'[q].taken /\ ~reopened'[q] =>
                           ~image'[q].accepting /\ image'[q].serving = {}
    BY DEF QuiescedIsIdle
  <2>1. CASE q = o
    BY <1>1, <1>3, <2>1, NobodyServes DEF Close, TypeOK, NoImage
  <2>2. CASE q # o
    BY <1>3, <2>2 DEF Close, TypeOK, QuiescedIsIdle
  <2> QED BY <2>1, <2>2
<1> QED BY <1>4, <1>5, <1>6, <1>7

LEMMA ExpirePreserves ==
  ASSUME IInv, NEW o \in Operator, Expire(o)
  PROVE  IInv'
  BY DEF IInv, Expire, TypeOK, InflightCounts, Serving, Closed, QuiescedIsIdle

LEMMA WakePreserves ==
  ASSUME IInv, NEW o \in Operator, Wake(o)
  PROVE  IInv'
<1> USE DEF IInv
<1>1. PICK l \in {"quiesced", "busy", "waiting"} :
        Goto(o, l) /\ (l = "quiesced" => inflight = 0)
  BY LoopGoes DEF Wake, TypeOK
<1>2. l \in OperatorLabel /\ l # "serving"
  BY DEF OperatorLabel
<1>3. Serving' = Serving /\ \A q \in Operator : pc'[q] = IF q = o THEN l ELSE pc[q]
  BY <1>1, <1>2, OperatorsDoNotServe
<1>4. TypeOK'
  BY <1>1, <1>2, OperatorsDoNotServe DEF Wake, TypeOK
<1>5. InflightCounts'
  BY <1>3 DEF Wake, InflightCounts
<1>6. Closed'
  BY <1>3 DEF Wake, Closed
<1>7. QuiescedIsIdle'
  BY <1>1, <1>3, NobodyServes DEF Wake, Closed, QuiescedIsIdle
<1> QED BY <1>4, <1>5, <1>6, <1>7

(* The steps after the answer that leave the service and the image alone.     *)
LEMMA ScriptPreserves ==
  ASSUME IInv, NEW o \in Operator, Answered(o) \/ Probe(o) \/ DumpFails(o)
  PROVE  IInv'
<1> USE DEF IInv
<1>1. /\ UNCHANGED <<up, accepting, inflight, expired, image, reopened>>
      /\ pc[o] \in {"quiesced", "busy", "probe", "dump"}
      /\ \E l \in {"idle", "probe", "dump"} :
           Goto(o, l) /\ (l # "idle" => pc[o] \in {"quiesced", "probe"})
  BY DEF Answered, Probe, DumpFails
<1>2. PICK l \in {"idle", "probe", "dump"} :
        Goto(o, l) /\ (l # "idle" => pc[o] \in {"quiesced", "probe"})
  BY <1>1
<1>3. l \in OperatorLabel /\ l # "serving"
  BY DEF OperatorLabel
<1>4. Serving' = Serving /\ \A q \in Operator : pc'[q] = IF q = o THEN l ELSE pc[q]
  BY <1>2, <1>3, OperatorsDoNotServe
<1>5. TypeOK'
  BY <1>1, <1>2, <1>3, OperatorsDoNotServe DEF TypeOK
<1>6. InflightCounts'
  BY <1>1, <1>4 DEF InflightCounts
<1>7. Closed'
  BY <1>1, <1>4 DEF Closed
<1>8. QuiescedIsIdle'
  BY <1>1, <1>2, <1>4 DEF QuiescedIsIdle
<1> QED BY <1>5, <1>6, <1>7, <1>8

LEMMA DumpPreserves ==
  ASSUME IInv, NEW o \in Operator, Dump(o)
  PROVE  IInv'
<1> USE DEF IInv
<1> DEFINE taken == [taken |-> TRUE, accepting |-> accepting, serving |-> Serving]
<1>1. "resume" \in OperatorLabel /\ Goto(o, "resume")
  BY DEF OperatorLabel, Dump
<1>2. Serving' = Serving /\ \A q \in Operator : pc'[q] = IF q = o THEN "resume" ELSE pc[q]
  BY <1>1, OperatorsDoNotServe
<1>3. taken \in Image
  BY DEF Image, Serving, TypeOK
<1>4. image' = [image EXCEPT ![o] = taken]
  BY DEF Dump
<1>5. TypeOK'
  BY <1>1, <1>3, <1>4, OperatorsDoNotServe DEF Dump, TypeOK
<1>6. InflightCounts'
  BY <1>2 DEF Dump, InflightCounts
<1>7. Closed'
  BY <1>2 DEF Dump, Closed
<1>8. QuiescedIsIdle'
  <2> SUFFICES ASSUME NEW q \in Operator
               PROVE  /\ pc'[q] \in {"quiesced", "probe", "dump"} /\ ~reopened'[q] =>
                           ~accepting' /\ Serving' = {}
                      /\ image'[q].taken /\ ~reopened'[q] =>
                           ~image'[q].accepting /\ image'[q].serving = {}
    BY DEF QuiescedIsIdle
  <2>1. CASE q = o
    BY <1>2, <1>4, <2>1 DEF Dump, TypeOK, QuiescedIsIdle
  <2>2. CASE q # o
    BY <1>2, <1>4, <2>2 DEF Dump, TypeOK, QuiescedIsIdle
  <2> QED BY <2>1, <2>2
<1> QED BY <1>5, <1>6, <1>7, <1>8

LEMMA ResumePreserves ==
  ASSUME IInv, NEW o \in Operator, Resume(o)
  PROVE  IInv'
<1> USE DEF IInv
<1>1. "idle" \in OperatorLabel /\ Goto(o, "idle")
  BY DEF OperatorLabel, Resume
<1>2. Serving' = Serving /\ \A q \in Operator : pc'[q] = IF q = o THEN "idle" ELSE pc[q]
  BY <1>1, OperatorsDoNotServe
<1>3. TypeOK'
  BY <1>1, OperatorsDoNotServe DEF Resume, TypeOK
<1>4. InflightCounts'
  BY <1>2 DEF Resume, InflightCounts
<1>5. up # "starting"
  BY DEF Resume, Closed
<1>6. CASE up = "ready"
  <2>1. \A q \in Operator : reopened'[q]
    BY <1>6 DEF Resume
  <2>2. Closed' /\ QuiescedIsIdle'
    BY <1>6, <2>1 DEF Resume, Closed, QuiescedIsIdle
  <2> QED BY <1>3, <1>4, <2>2
<1>7. CASE up # "ready"
  <2>1. ~accepting' /\ \A q \in Operator : reopened'[q] = reopened[q]
    BY <1>7 DEF Resume, TypeOK
  <2>2. Closed' /\ QuiescedIsIdle'
    BY <1>2, <1>5, <2>1 DEF Resume, Closed, QuiescedIsIdle
  <2> QED BY <1>3, <1>4, <2>2
<1> QED BY <1>6, <1>7

-----------------------------------------------------------------------------

LEMMA StepHolds == IInv /\ [Next]_vars => IInv'
<1> SUFFICES ASSUME IInv, [Next]_vars PROVE IInv'
  OBVIOUS
<1>1. CASE Service
  BY <1>1, LifespanPreserves, AdmitPreserves, FinishPreserves DEF Service
<1>2. ASSUME NEW o \in Operator, Close(o) \/ Expire(o) \/ Wake(o)
      PROVE  IInv'
  BY <1>2, ClosePreserves, ExpirePreserves, WakePreserves
<1>3. ASSUME NEW o \in Operator, Answered(o) \/ Probe(o) \/ Dump(o) \/ DumpFails(o) \/ Resume(o)
      PROVE  IInv'
  BY <1>3, ScriptPreserves, DumpPreserves, ResumePreserves
<1>4. CASE Done \/ UNCHANGED vars
  BY <1>4 DEF Done, vars, IInv, TypeOK, InflightCounts, Serving, Closed, QuiescedIsIdle
<1> QED BY <1>1, <1>2, <1>3, <1>4 DEF Next

THEOREM InvariantHolds == Spec => []IInv
<1> QED BY InitHolds, StepHolds, PTL DEF Spec

(* The variables of the adapter keep their types.                            *)
THEOREM TypeCorrect == Spec => []TypeOK
<1>1. IInv => TypeOK
  BY DEF IInv
<1> QED BY <1>1, InvariantHolds, PTL

(* However many threads and operators there are, and whatever the inferences *)
(* raise, `inflight' is the number of requests under way (infer's `finally'). *)
THEOREM InflightIsExact == Spec => []InflightCounts
<1>1. IInv => InflightCounts
  BY DEF IInv
<1> QED BY <1>1, InvariantHolds, PTL

(* A /quiesce that answers 200 has drained the service, and it stays drained *)
(* into the image, for any interleaving with the /infer, /quiesce and /resume *)
(* of others, until a /resume.                                               *)
THEOREM QuiescedStaysIdle == Spec => []QuiescedIsIdle
<1>1. IInv => QuiescedIsIdle
  BY DEF IInv
<1> QED BY <1>1, InvariantHolds, PTL

=============================================================================
