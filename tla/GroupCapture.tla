----------------------------- MODULE GroupCapture ---------------------------
(* What freeze-group promises, without its loops, its driver and its files:  *)
(* a group is taken a process at a time, from nobody else; it is captured     *)
(* while all of it is held; a snapshot appears when it has been let go, from   *)
(* a capture of a group that stood still, and nothing takes it away. A command *)
(* may give up at any point.                                                 *)
CONSTANTS
  Edo,           \* the commands
  Members(_),    \* the processes of each one's group
  Out,           \* the directory of each one
  Dir,
  Nobody         \* is no command

VARIABLES
  held,          \* the processes in the hands of each command
  dump,          \* its capture: none, torn (taken of a group in motion), good
  snapshot       \* the command whose snapshot a directory holds, or Nobody

vars == <<held, dump, snapshot>>

Init ==
  /\ held = [e \in Edo |-> {}]
  /\ dump = [e \in Edo |-> "none"]
  /\ snapshot = [d \in Dir |-> Nobody]

Take(e, p) ==
  /\ p \in Members(e) /\ \A f \in Edo : p \notin held[f]
  /\ dump[e] = "none"
  /\ held' = [held EXCEPT ![e] = @ \cup {p}]
  /\ UNCHANGED <<dump, snapshot>>

(* Of one process, as a recovery does, or of all, in its death.              *)
LetGo ==
  /\ DOMAIN held' = Edo /\ \A e \in Edo : held'[e] \subseteq held[e]
  /\ UNCHANGED <<dump, snapshot>>

Capture(e) ==
  /\ held[e] = Members(e) /\ dump[e] = "none"
  /\ snapshot[Out[e]] = Nobody
  /\ \E c \in {"torn", "good"} : dump' = [dump EXCEPT ![e] = c]
  /\ UNCHANGED <<held, snapshot>>

(* A dump that fails empties its directory.                                  *)
Discard(d) ==
  /\ snapshot[d] = Nobody
  /\ dump' = [e \in Edo |-> IF Out[e] = d THEN "none" ELSE dump[e]]
  /\ UNCHANGED <<held, snapshot>>

Publish(e) ==
  /\ dump[e] = "good" /\ held[e] = {}
  /\ snapshot[Out[e]] = Nobody
  /\ snapshot' = [snapshot EXCEPT ![Out[e]] = e]
  /\ UNCHANGED <<held, dump>>

Next ==
  \/ LetGo
  \/ \E e \in Edo : Capture(e) \/ Publish(e) \/ \E p \in Members(e) : Take(e, p)
  \/ \E d \in Dir : Discard(d)

Spec == Init /\ [][Next]_vars
=============================================================================
