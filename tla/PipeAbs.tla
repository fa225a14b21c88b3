------------------------------ MODULE PipeAbs ------------------------------
(***************************************************************************)
(* What a pipe promises: a queue of bytes of limited length, from which    *)
(* bytes come out in the order they went in, each of them once, as long as *)
(* the end they are used through is open.                                  *)
(***************************************************************************)
EXTENDS Naturals, Sequences

CONSTANTS Byte, PIPESIZE

VARIABLES queue, readopen, writeopen

vars == <<queue, readopen, writeopen>>

Init == queue = <<>> /\ readopen = TRUE /\ writeopen = TRUE

Put ==
  /\ writeopen
  /\ \E n \in 1..(PIPESIZE - Len(queue)) : \E s \in [1..n -> Byte] : queue' = queue \o s
  /\ UNCHANGED <<readopen, writeopen>>

Get ==
  /\ readopen
  /\ \E n \in 1..Len(queue) : queue' = SubSeq(queue, n + 1, Len(queue))
  /\ UNCHANGED <<readopen, writeopen>>

CloseRead == readopen /\ readopen' = FALSE /\ UNCHANGED <<queue, writeopen>>

CloseWrite == writeopen /\ writeopen' = FALSE /\ UNCHANGED <<queue, readopen>>

Next == Put \/ Get \/ CloseRead \/ CloseWrite

Spec == Init /\ [][Next]_vars
=============================================================================
