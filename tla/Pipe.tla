-------------------------------- MODULE Pipe --------------------------------
(***************************************************************************)
(* A pipe (pipe.c): a ring of bytes under p->lock, with sleep() and        *)
(* wakeup() between the processes at its two ends.  A process holds        *)
(* p->lock from acquire() to the return or to sleep(), so everything in    *)
(* between is one step; only the look at p->killed is a step of its own,   *)
(* since kill() does not take p->lock.                                     *)
(***************************************************************************)
EXTENDS Integers, Sequences, FiniteSets

CONSTANTS
  Reader, Writer,  \* the processes that have the read or the write end open
  None,
  Byte,
  PIPESIZE,
  UINT,            \* the counters wrap here: 2^32, a multiple of PIPESIZE
  MaxCount         \* bytes of one read() or write()

PipeAssumption ==
  /\ Reader \cap Writer = {} /\ None \notin Reader \cup Writer
  /\ PIPESIZE \in Nat \ {0} /\ UINT \in Nat /\ UINT > PIPESIZE /\ UINT % PIPESIZE = 0
  /\ MaxCount \in Nat \ {0}

Proc == Reader \cup Writer

VARIABLES
  data, nread, nwrite, readopen, writeopen,
  freed,   \* the page of the pipe was given back by kfree()
  lock,    \* the process that holds p->lock, or None
  open,    \* the processes whose descriptor for the pipe is open
  pc,
  buf,     \* the bytes that a writer has still to write
  want,    \* the number of bytes that a reader asks for
  killed

pipeVars == <<data, nread, nwrite, readopen, writeopen, freed>>
vars == <<pipeVars, lock, open, pc, buf, want, killed>>

Buffers == UNION {[1..n -> Byte] : n \in 0..MaxCount}

Init ==
  /\ data \in [0..(PIPESIZE - 1) -> Byte]
  /\ nread = 0 /\ nwrite = 0
  /\ readopen = TRUE /\ writeopen = TRUE /\ freed = FALSE
  /\ lock = None
  /\ open = Proc
  /\ pc = [p \in Proc |-> "user"]
  /\ buf = [p \in Writer |-> <<>>]
  /\ want = [p \in Reader |-> 0]
  /\ killed = [p \in Proc |-> FALSE]

Goto(p, l) == pc' = [pc EXCEPT ![p] = l]

\* Variant of wakeup() that forgets the writers.
wakeupReaders(S) ==
  [p \in Proc |-> IF p \in S \cap Reader /\ pc[p] = "asleep" THEN "start" ELSE pc[p]]

\* wakeup(): the processes of S that sleep go back to their loops.  Readers
\* sleep on &p->nread and writers on &p->nwrite.
wakeup(S) == [p \in Proc |-> IF p \in S /\ pc[p] = "asleep" THEN "start" ELSE pc[p]]

\* p->nwrite - p->nread, in unsigned arithmetic.
Count == (nwrite - nread) % UINT

Full == nwrite = (nread + PIPESIZE) % UINT

Empty == nread = nwrite

\* The bytes in the pipe, the oldest first.
Contents == [i \in 1..Count |-> data[(nread + i - 1) % PIPESIZE]]

-----------------------------------------------------------------------------
(* pipewrite() and piperead(). *)

\* write() is called.
CallWrite(p) ==
  /\ pc[p] = "user" /\ p \in open \cap Writer /\ ~killed[p]
  /\ \E s \in Buffers : buf' = [buf EXCEPT ![p] = s]
  /\ Goto(p, "start")
  /\ UNCHANGED <<pipeVars, lock, open, want, killed>>

\* read() is called.
CallRead(p) ==
  /\ pc[p] = "user" /\ p \in open \cap Reader /\ ~killed[p]
  /\ \E n \in 0..MaxCount : want' = [want EXCEPT ![p] = n]
  /\ Goto(p, "start")
  /\ UNCHANGED <<pipeVars, lock, open, buf, killed>>

\* The bytes of s that find room are put in the ring.
Put(s, k) ==
  /\ data' = [j \in 0..(PIPESIZE - 1) |->
                IF \E i \in 1..k : (nwrite + i - 1) % PIPESIZE = j
                  THEN s[CHOOSE i \in 1..k : (nwrite + i - 1) % PIPESIZE = j]
                  ELSE data[j]]
  /\ nwrite' = (nwrite + k) % UINT

\* Variant of pipewrite() that overwrites the oldest byte.
RoomPlusOne(s) == IF Len(s) <= PIPESIZE - Count + 1 THEN Len(s) ELSE PIPESIZE - Count + 1

\* The bytes that the loop of pipewrite() writes before the ring is full.
Room(s) == IF Len(s) <= PIPESIZE - Count THEN Len(s) ELSE PIPESIZE - Count

\* pipewrite() writes all that is left and returns.
WriteReturns(p) ==
  /\ pc[p] = "start" /\ p \in Writer /\ lock = None
  /\ Room(buf[p]) = Len(buf[p])
  /\ Put(buf[p], Len(buf[p]))
  /\ pc' = [wakeup(Reader) EXCEPT ![p] = "user"]
  /\ buf' = [buf EXCEPT ![p] = <<>>]
  /\ UNCHANGED <<nread, readopen, writeopen, freed, lock, open, want, killed>>

\* pipewrite() fills the ring and has bytes left.
WriteFills(p) ==
  /\ pc[p] = "start" /\ p \in Writer /\ lock = None
  /\ Room(buf[p]) < Len(buf[p])
  /\ Put(buf[p], Room(buf[p]))
  /\ buf' = [buf EXCEPT ![p] = SubSeq(@, Room(@) + 1, Len(@))]
  /\ lock' = p
  /\ Goto(p, "check")
  /\ UNCHANGED <<nread, readopen, writeopen, freed, open, want, killed>>

\* pipewrite() looks at p->readopen and myproc()->killed, with a full ring.
WriteGivesUp(p) ==
  /\ pc[p] = "check" /\ p \in Writer
  /\ ~readopen \/ killed[p]
  /\ lock' = None
  /\ Goto(p, "user")
  /\ buf' = [buf EXCEPT ![p] = <<>>]
  /\ UNCHANGED <<pipeVars, open, want, killed>>

WriteWaits(p) ==
  /\ pc[p] = "check" /\ p \in Writer
  /\ readopen /\ ~killed[p]
  /\ pc' = [wakeup(Reader) EXCEPT ![p] = "sleep"]
  /\ UNCHANGED <<pipeVars, lock, open, buf, want, killed>>

\* piperead() with bytes to read, or with the write end closed.
ReadReturns(p) ==
  /\ pc[p] = "start" /\ p \in Reader /\ lock = None
  /\ ~Empty \/ ~writeopen
  /\ nread' = (nread + (IF want[p] <= Count THEN want[p] ELSE Count)) % UINT
  /\ pc' = [wakeup(Writer) EXCEPT ![p] = "user"]
  /\ want' = [want EXCEPT ![p] = 0]
  /\ UNCHANGED <<data, nwrite, readopen, writeopen, freed, lock, open, buf, killed>>

\* piperead() of an empty pipe looks at myproc()->killed.
ReadEmpty(p) ==
  /\ pc[p] = "start" /\ p \in Reader /\ lock = None
  /\ Empty /\ writeopen
  /\ IF killed[p]
       THEN /\ lock' = None
            /\ Goto(p, "user")
            /\ want' = [want EXCEPT ![p] = 0]
       ELSE /\ lock' = p
            /\ Goto(p, "sleep")
            /\ UNCHANGED want
  /\ UNCHANGED <<pipeVars, open, buf, killed>>

\* sleep(): under ptable.lock the process lets go of p->lock and sleeps.
sleep(p) ==
  /\ pc[p] = "sleep"
  /\ lock' = None
  /\ Goto(p, "asleep")
  /\ UNCHANGED <<pipeVars, open, buf, want, killed>>

-----------------------------------------------------------------------------
(* close() and kill(). *)

\* Variant of pipeclose() that frees the pipe with its first end.
pipecloseEither(p) ==
  /\ readopen' = (readopen /\ open \cap Reader # {p})
  /\ writeopen' = (writeopen /\ open \cap Writer # {p})
  /\ freed' = TRUE
  /\ pc' = [wakeup(IF p \in Writer THEN Reader ELSE Writer) EXCEPT ![p] = "user"]

\* The last descriptor of an end is closed: fileclose() calls pipeclose().
pipeclose(p) ==
  /\ readopen' = (readopen /\ open \cap Reader # {p})
  /\ writeopen' = (writeopen /\ open \cap Writer # {p})
  /\ freed' = (~readopen' /\ ~writeopen')
  /\ pc' = [wakeup(IF p \in Writer THEN Reader ELSE Writer) EXCEPT ![p] = "user"]

\* close(), or exit() of a killed process on its way back to user mode.
Close(p) ==
  /\ pc[p] = "user" /\ p \in open /\ lock = None
  /\ open' = open \ {p}
  /\ IF open \cap Reader = {p} \/ open \cap Writer = {p}
       THEN pipeclose(p)
       ELSE UNCHANGED <<readopen, writeopen, freed, pc>>
  /\ UNCHANGED <<data, nread, nwrite, lock, buf, want, killed>>

kill(p) ==
  /\ p \in open /\ ~killed[p]
  /\ killed' = [killed EXCEPT ![p] = TRUE]
  /\ pc' = wakeup({p})
  /\ UNCHANGED <<pipeVars, lock, open, buf, want>>

Run(p) ==
  \/ WriteReturns(p) \/ WriteFills(p) \/ WriteGivesUp(p) \/ WriteWaits(p)
  \/ ReadReturns(p) \/ ReadEmpty(p) \/ sleep(p)

Next == \E p \in Proc : CallWrite(p) \/ CallRead(p) \/ Run(p) \/ Close(p) \/ kill(p)

Spec == Init /\ [][Next]_vars

-----------------------------------------------------------------------------
(* Properties. *)

Abs == INSTANCE PipeAbs WITH queue <- Contents

\* The pipe is a bounded queue: bytes come out in the order they went in,
\* none is lost, repeated or overwritten, also when the counters wrap
\* (pipewrite(), piperead()).
Fifo == Abs!Spec

\* Whenever p->lock is free, a process sleeps only while it has to: a writer
\* while the ring is full and somebody may read it, a reader while the ring is
\* empty and somebody may write it.  One exception is in the code: pipewrite()
\* of a killed process leaves the bytes it wrote without waking the readers.
NoLostWakeup ==
  lock = None =>
    /\ \A p \in Writer : pc[p] = "asleep" => Full /\ readopen
    /\ \A p \in Reader : pc[p] = "asleep" =>
         writeopen /\ (Empty \/ \E w \in Writer : killed[w])

\* pipeclose() gives the page back when nobody is in the pipe or can get in.
NotUsedAfterFree == freed => open = {} /\ lock = None /\ \A p \in Proc : pc[p] = "user"
=============================================================================
