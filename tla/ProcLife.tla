------------------------------ MODULE ProcLife ------------------------------
(* What fork(), exit() and wait() promise, in terms of pids alone. *)
EXTENDS Naturals

CONSTANTS Pid, ExitStatus

VARIABLES
  life,      \* unborn, alive, zombie or gone
  parentOf,  \* the pid that may wait for a living process or a zombie, or 0
  code       \* the status of a zombie

vars == <<life, parentOf, code>>

\* init has pid 1 and no parent.
Init ==
  /\ life = [n \in Pid |-> IF n = 1 THEN "alive" ELSE "unborn"]
  /\ parentOf = [n \in Pid |-> 0]
  /\ code = [n \in Pid |-> 0]

Fork(p, n) ==
  /\ life[p] = "alive" /\ life[n] = "unborn"
  /\ life' = [life EXCEPT ![n] = "alive"]
  /\ parentOf' = [parentOf EXCEPT ![n] = p]
  /\ UNCHANGED code

\* A fork that fails uses up a pid.
ForkFails(n) ==
  /\ life[n] = "unborn"
  /\ life' = [life EXCEPT ![n] = "gone"]
  /\ UNCHANGED <<parentOf, code>>

Exit(p, status) ==
  /\ life[p] = "alive" /\ p # 1
  /\ life' = [life EXCEPT ![p] = "zombie"]
  /\ parentOf' = [n \in Pid |-> IF parentOf[n] = p THEN 1 ELSE parentOf[n]]
  /\ code' = [code EXCEPT ![p] = status]

Wait(p, n) ==
  /\ life[p] = "alive" /\ life[n] = "zombie" /\ parentOf[n] = p
  /\ life' = [life EXCEPT ![n] = "gone"]
  /\ parentOf' = [parentOf EXCEPT ![n] = 0]
  /\ code' = [code EXCEPT ![n] = 0]

Next ==
  \/ \E p, n \in Pid : Fork(p, n) \/ Wait(p, n)
  \/ \E n \in Pid : ForkFails(n)
  \/ \E p \in Pid, status \in ExitStatus : Exit(p, status)

Spec == Init /\ [][Next]_vars
=============================================================================
