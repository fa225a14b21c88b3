------------------------------- MODULE LogAbs -------------------------------
(***************************************************************************)
(* What the log promises to the file system: a store that system calls     *)
(* change between begin_op() and end_op(), and of which a crash leaves the *)
(* state at a moment when no system call was active.                       *)
(***************************************************************************)
CONSTANTS Proc, Block, Value

VARIABLES
  committed,  \* what a crash leaves
  pending,    \* what system calls see
  active      \* the processes inside a system call

vars == <<committed, pending, active>>

Init ==
  /\ committed \in [Block -> Value]
  /\ pending = committed
  /\ active = {}

Begin(p) ==
  /\ p \notin active
  /\ active' = active \cup {p}
  /\ UNCHANGED <<committed, pending>>

Write(p, b, v) ==
  /\ p \in active
  /\ pending' = [pending EXCEPT ![b] = v]
  /\ UNCHANGED <<committed, active>>

End(p) ==
  /\ p \in active
  /\ active' = active \ {p}
  /\ UNCHANGED <<committed, pending>>

Commit ==
  /\ active = {}
  /\ committed' = pending
  /\ UNCHANGED <<pending, active>>

Crash ==
  /\ pending' = committed
  /\ active' = {}
  /\ UNCHANGED committed

Next ==
  \/ \E p \in Proc : Begin(p) \/ End(p)
  \/ \E p \in Proc, b \in Block, v \in Value : Write(p, b, v)
  \/ Commit \/ Crash

Spec == Init /\ [][Next]_vars
=============================================================================
