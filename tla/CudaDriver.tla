----------------------------- MODULE CudaDriver -----------------------------
(* The CUDA process-checkpoint driver as cuda.rs uses it: a state per owner  *)
(* PID that get_state reads, and four calls that move it                     *)
(*                                                                           *)
(*      RUNNING --lock--> LOCKED --checkpoint--> CHECKPOINTED                *)
(*      RUNNING <-unlock- LOCKED <---restore---- CHECKPOINTED                *)
(*                                                                           *)
(* The driver is outside the repository; what is here is what the callers    *)
(* rely on. A call is either accepted, from the one state it is legal in, or *)
(* refused with an error that leaves the process as it was. The code polls   *)
(* wait_for_state after every call, so an accepted call need not be visible  *)
(* when it returns: `pending' holds a transition the driver has taken on.    *)
EXTENDS Naturals

CONSTANTS
  Pid,           \* CUDA owner processes of the node
  AsyncDriver,   \* TRUE: a call may return before its transition is visible
  Faulty         \* the operations the environment may make fail

VARIABLES
  cuda,          \* what get_state reports, per PID
  pending,       \* transition accepted and not yet visible, or "None"
  alive          \* the process still exists

driverVars == <<cuda, pending, alive>>

ProcessState == {"Running", "Locked", "Checkpointed", "Failed"}

(* Every operation that some step lets fail; a run's Faulty is a subset.     *)
(*   lock .. unlock   the driver call returns an error                       *)
(*   state            get_state returns an error, in any poll                *)
(*   pollRunning, pollLocked, pollCheckpointed                               *)
(*                    it does in the wait for that state on the way down,    *)
(*                    and works again in the recovery                        *)
(*   driver           the driver puts a frozen process into FAILED           *)
(*   die              a CUDA process exits                                   *)
(*   load             libcuda.so or cuInit                                   *)
(*   mkdir, dump      the snapshot directory, the CRIU dump                  *)
(*   write, chmod     the manifest's write, its permissions afterwards       *)
(*   journal          an append to .edo/journal                              *)
(*   read, criu       reading or verifying a snapshot, the CRIU restore      *)
(*   pidfile          restored.pid is missing or no number                   *)
(*   kill             an edo process is killed                               *)
Fault == {"lock", "checkpoint", "restore", "unlock", "state",
          "pollRunning", "pollLocked", "pollCheckpointed",
          "driver", "die", "load", "mkdir", "dump", "write", "chmod", "journal",
          "read", "criu", "pidfile", "kill"}

ASSUME DriverAssumption == AsyncDriver \in BOOLEAN /\ Faulty \subseteq Fault

DriverTypeOK ==
  /\ cuda \in [Pid -> ProcessState]
  /\ pending \in [Pid -> {"None", "Running", "Locked", "Checkpointed"}]
  /\ alive \in [Pid -> BOOLEAN]

DriverInit ==
  /\ cuda = [p \in Pid |-> "Running"]
  /\ pending = [p \in Pid |-> "None"]
  /\ alive = [p \in Pid |-> TRUE]

(* The driver takes a call only from its legal state, with none in progress. *)
Ready(p, from) == alive[p] /\ cuda[p] = from /\ pending[p] = "None"

Call(p, from, to) ==
  /\ Ready(p, from)
  /\ \/ cuda' = [cuda EXCEPT ![p] = to] /\ pending' = pending
     \/ AsyncDriver /\ pending' = [pending EXCEPT ![p] = to] /\ cuda' = cuda
  /\ alive' = alive

Refused(p, from, op) == (~Ready(p, from) \/ op \in Faulty) /\ UNCHANGED driverVars

Lock(p)       == Call(p, "Running", "Locked")
Checkpoint(p) == Call(p, "Locked", "Checkpointed")
Restore(p)    == Call(p, "Checkpointed", "Locked")
Unlock(p)     == Call(p, "Locked", "Running")

(* CudaCheckpoint::state: what a caller sees of p, if the call succeeds.     *)
StateFails(p) == ~alive[p] \/ "state" \in Faulty
Sees(p, s) == alive[p] /\ cuda[p] = s

(* Mutant of WaitFails: a wait without a deadline.                           *)
WaitFails_NoDeadline(p, s) == StateFails(p) \/ cuda[p] = "Failed"

(* wait_for_state returns Ok at the poll that sees s. It bails when a poll   *)
(* fails, when it sees FAILED, and at the deadline with any state but s.     *)
WaitFails(p, s) == StateFails(p) \/ cuda[p] # s

-----------------------------------------------------------------------------
(* Steps of the driver and of the targets, in no caller's control.           *)

Complete(p) ==
  /\ pending[p] # "None"
  /\ cuda' = [cuda EXCEPT ![p] = pending[p]]
  /\ pending' = [pending EXCEPT ![p] = "None"]
  /\ alive' = alive

Break(p) ==
  /\ "driver" \in Faulty
  /\ alive[p] /\ cuda[p] \in {"Locked", "Checkpointed"}
  /\ cuda' = [cuda EXCEPT ![p] = "Failed"]
  /\ pending' = [pending EXCEPT ![p] = "None"]
  /\ alive' = alive

Die(p) ==
  /\ "die" \in Faulty
  /\ alive[p]
  /\ alive' = [alive EXCEPT ![p] = FALSE]
  /\ UNCHANGED <<cuda, pending>>

=============================================================================
