----------------------------- MODULE MCMachine ------------------------------
(* What is closest to the machine, each explored on its own: on says which   *)
(* machine moves.  Spinlocks and interrupts (Spinlock), physical and virtual *)
(* memory (Mem, as M), the console (Console, as C) and malloc() (Malloc, as  *)
(* U).                                                                       *)
EXTENDS Spinlock, Integers, Sequences, TLC

CONSTANTS
  Machine,                                                         \* the machines explored
  Proc, First, NPAGE, PGSIZE, NPTENTRIES, KERNBASE, WIDTH, Pipes, NCALL,  \* Mem
  User, INPUT_BUF, INDEX, COLS, ROWS, Keys, Output, Codes, Lengths, NTYPE,  \* Console: User is Proc, INDEX is WIDTH
  HEAP, TOP, SizeofHeader, NUNITS, Bytes, Growth                   \* Malloc

VARIABLES
  on,
  kmem, pipes, mem, proc, loc, image, calls, panic,
  input, screen, reader, killed, pending, edit, paper, start, left,
  heap, break, live, core

\* What sbrk() is given.
Increments == {-5, -2, 3}

\* Programs that load, one with text and data in two segments, and ones that
\* fail before and after the memory of a segment is allocated.
Seg(vaddr, memsz, filesz, bad) == [vaddr |-> vaddr, memsz |-> memsz, filesz |-> filesz, bad |-> bad]
Programs == {<<Seg(0, 1, 1, "none")>>,
             <<Seg(0, 2, 1, "none"), Seg(2, 3, 1, "none")>>,
             <<Seg(0, 1, 1, "none"), Seg(2, 1, 1, "header")>>,
             <<Seg(0, 3, 1, "load")>>}

M == INSTANCE Mem
C == INSTANCE Console WITH Proc <- User, WIDTH <- INDEX
U == INSTANCE Malloc

ASSUME SpinlockAssumption

mVars == <<kmem, pipes, mem, proc, loc, image, calls, panic>>
cVars == <<input, screen, reader, killed, pending, edit, paper, start, left>>
uVars == <<heap, break, live, core>>
allvars == <<on, vars, mVars, cVars, uVars>>

\* The variables of a machine that does not move.
mIdle ==
  /\ kmem = 0 /\ pipes = 0 /\ mem = 0 /\ proc = 0 /\ loc = 0 /\ image = 0
  /\ calls = 0 /\ panic = 0
cIdle ==
  /\ input = 0 /\ screen = 0 /\ reader = 0 /\ killed = 0 /\ pending = 0 /\ edit = 0
  /\ paper = 0 /\ start = 0 /\ left = 0
uIdle ==
  /\ heap = 0 /\ break = 0 /\ live = 0 /\ core = 0

MCInit ==
  /\ on \in Machine
  /\ Init
  /\ IF on = "mem" THEN M!Init ELSE mIdle
  /\ IF on = "console" THEN C!Init ELSE cIdle
  /\ IF on = "malloc" THEN U!Init ELSE uIdle

\* The inputs of the other machines are bounded: they stop.
Rest == on # "spin" /\ UNCHANGED allvars

MCNext ==
  \/ on = "spin" /\ Next /\ UNCHANGED <<on, mVars, cVars, uVars>>
  \/ on = "mem" /\ M!Next /\ UNCHANGED <<on, vars, cVars, uVars>>
  \/ on = "console" /\ C!Next /\ UNCHANGED <<on, vars, mVars, uVars>>
  \/ on = "malloc" /\ U!Next /\ UNCHANGED <<on, vars, mVars, cVars>>
  \/ Rest

MCSpec == MCInit /\ [][MCNext]_allvars

Symmetric == Permutations(CPU) \cup Permutations(Thread)

-----------------------------------------------------------------------------
(* The properties of Spinlock, and those of the other machines. *)

\* Every physical page has one owner, none is lost and none is mapped where
\* another one is (kalloc(), kfree(), mappages()).
OwnedOnce == on = "mem" => M!OwnedOnce /\ M!NoPanic

\* A process finds in its memory what it put there (fork(), exec(), sbrk(), trap()).
OwnMemory == on = "mem" => M!OwnMemory

\* Complete lines are read once and in order (consoleintr(), consoleread()).
Lines == on = "console" => C!Lines

\* No reader sleeps while there is a line for it (consoleintr(), consoleread()).
NoReaderStuck == on = "console" => C!NoReaderStuck

\* The screen shows the end of what was printed, with the line being edited, and
\* the colour codes set the colours they stand for (consputc(), cgaputc()).
Screen == on = "console" => C!Window /\ C!EchoIsLine /\ C!ColourBytes

\* The user heap is whole (malloc(), free(), morecore()).
HeapSound == on = "malloc" => U!HeapSound
=============================================================================
