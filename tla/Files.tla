------------------------------- MODULE Files -------------------------------
(***************************************************************************)
(* Descriptors and the file table: file.c, and the calls of sysfile.c,     *)
(* pipe.c and proc.c that make, share and drop references to open files.   *)
(* What is done under ftable.lock is one step; a process alone uses its    *)
(* ofile[].                                                                *)
(*                                                                         *)
(* Every call ends by closing the files in closing[p], one fileclose() at  *)
(* a time, each in two steps: the reference count under ftable.lock, and   *)
(* then, without it, the object of the file.                               *)
(***************************************************************************)
EXTENDS Naturals, Sequences, FiniteSets

CONSTANTS
  Proc,
  File,     \* the entries of ftable (NFILE of them)
  Page,     \* the pages that kalloc() has for pipes
  None,
  init,     \* the process that never exits
  NOFILE,
  FdArg     \* the descriptors that programs name

FilesAssumption ==
  /\ None \notin File \cup Page \cup Proc /\ init \in Proc
  /\ NOFILE \in Nat \ {0} /\ FdArg \subseteq Nat

Fds == 0..(NOFILE - 1)
End == {"r", "w"}
Inode == <<"inode">>
PipeEnd(q, e) == <<"pipe", q, e>>
VARIABLES
  ref, obj,   \* f->ref, and f->type with what the file is; None is FD_NONE
  ofile,
  ends,       \* the ends of a pipe that are open; none: the page is free
  inodes,     \* references to inodes held for open files
  pc,         \* "none": the slot of the process is not in use
  closing,    \* the files that the call has still to close
  drop,       \* the object that fileclose() is about to give up
  fold,       \* the file that dup(), dup2() or pipe() works on
  newfd,
  child,      \* the process that fork() makes
  overrun,    \* ofile[NOFILE] was used
  panicked

tableVars == <<ref, obj>>
objVars == <<ends, inodes>>
procVars == <<pc, closing, drop, fold, newfd, child>>
vars == <<tableVars, ofile, objVars, procVars, overrun, panicked>>

\* After boot one process runs, without files.
Init ==
  /\ ref = [f \in File |-> 0] /\ obj = [f \in File |-> None]
  /\ ofile = [p \in Proc |-> [d \in Fds |-> None]]
  /\ ends = [q \in Page |-> {}] /\ inodes = 0
  /\ pc = [p \in Proc |-> IF p = init THEN "user" ELSE "none"]
  /\ closing = [p \in Proc |-> <<>>] /\ drop = [p \in Proc |-> None]
  /\ fold = [p \in Proc |-> None] /\ newfd = [p \in Proc |-> 0]
  /\ child = [p \in Proc |-> None]
  /\ overrun = FALSE /\ panicked = FALSE

Goto(p, l) == pc' = [pc EXCEPT ![p] = l]
FreeFds(p) == {d \in Fds : ofile[p][d] = None}
Least(S) == CHOOSE d \in S : \A e \in S : d <= e

-----------------------------------------------------------------------------
(* The operations on the file table. *)

\* filealloc() finds a free entry f.
filealloc(f) == ref[f] = 0 /\ ref' = [ref EXCEPT ![f] = 1]

NoFree == \A f \in File : ref[f] > 0

\* filedup()
filedup(f) == ref' = [ref EXCEPT ![f] = @ + 1] /\ panicked' = (ref[f] < 1)

-----------------------------------------------------------------------------
(* open(), close(), dup(), dup2() *)

\* sys_open() of a name that namei() or create() finds, which gives a
\* reference to the inode, with an entry and a descriptor to be had.
Open(p, f) ==
  /\ pc[p] = "user" /\ FreeFds(p) # {} /\ filealloc(f)
  /\ obj' = [obj EXCEPT ![f] = Inode]
  /\ inodes' = inodes + 1
  /\ ofile' = [ofile EXCEPT ![p][Least(FreeFds(p))] = f]
  /\ UNCHANGED <<ends, procVars, overrun, panicked>>

\* sys_open() without a free descriptor closes the new entry; iunlockput()
\* gives the inode back.
OpenNoFd(p, f) ==
  /\ pc[p] = "user" /\ FreeFds(p) = {} /\ filealloc(f)
  /\ closing' = [closing EXCEPT ![p] = <<f>>]
  /\ Goto(p, "close")
  /\ UNCHANGED <<obj, ofile, objVars, drop, fold, newfd, child, overrun, panicked>>

\* sys_close()
Close(p, d) ==
  /\ pc[p] = "user" /\ d \in Fds /\ ofile[p][d] # None
  /\ ofile' = [ofile EXCEPT ![p][d] = None]
  /\ closing' = [closing EXCEPT ![p] = <<ofile[p][d]>>]
  /\ Goto(p, "close")
  /\ UNCHANGED <<tableVars, objVars, drop, fold, newfd, child, overrun, panicked>>

\* sys_dup(): fdalloc() first.
Dup(p, d) ==
  /\ pc[p] = "user" /\ d \in Fds /\ ofile[p][d] # None /\ FreeFds(p) # {}
  /\ ofile' = [ofile EXCEPT ![p][Least(FreeFds(p))] = ofile[p][d]]
  /\ fold' = [fold EXCEPT ![p] = ofile[p][d]]
  /\ Goto(p, "dup")
  /\ UNCHANGED <<tableVars, objVars, closing, drop, newfd, child, overrun, panicked>>

\* sys_dup(): filedup() second.
DupRef(p) ==
  /\ pc[p] = "dup"
  /\ filedup(fold[p])
  /\ fold' = [fold EXCEPT ![p] = None]
  /\ Goto(p, "user")
  /\ UNCHANGED <<obj, ofile, objVars, closing, drop, newfd, child, overrun>>

\* The checks of sys_dup2() on its two arguments.
Dup2Checks(d) == d <= NOFILE

\* sys_dup2() of an open descriptor closes what nd was.  ofile[NOFILE] is the
\* memory behind the array, never zero: p->cwd.
Dup2(p, od, nd) ==
  /\ pc[p] = "user" /\ Dup2Checks(od) /\ Dup2Checks(nd) /\ nd # od
  /\ od \in Fds => ofile[p][od] # None
  /\ overrun' = (NOFILE \in {od, nd})
  /\ fold' = [fold EXCEPT ![p] = IF od \in Fds THEN ofile[p][od] ELSE @]
  /\ newfd' = [newfd EXCEPT ![p] = nd]
  /\ IF nd \in Fds /\ ofile[p][nd] # None
       THEN /\ ofile' = [ofile EXCEPT ![p][nd] = None]
            /\ closing' = [closing EXCEPT ![p] = <<ofile[p][nd]>>]
       ELSE UNCHANGED <<ofile, closing>>
  /\ Goto(p, "dup2")
  /\ UNCHANGED <<tableVars, objVars, drop, child, panicked>>

\* sys_dup2() when the old file of newfd is closed.
Dup2Done(p) ==
  /\ pc[p] = "dup2" /\ closing[p] = <<>> /\ drop[p] = None
  /\ filedup(fold[p])
  /\ ofile' = [ofile EXCEPT ![p][newfd[p]] = fold[p]]
  /\ fold' = [fold EXCEPT ![p] = None] /\ newfd' = [newfd EXCEPT ![p] = 0]
  /\ Goto(p, "user")
  /\ UNCHANGED <<obj, objVars, closing, drop, child, overrun>>

-----------------------------------------------------------------------------
(* pipe() *)

\* pipealloc(): the first filealloc().
Pipe(p, f) ==
  /\ pc[p] = "user" /\ filealloc(f)
  /\ fold' = [fold EXCEPT ![p] = f]
  /\ Goto(p, "pipe")
  /\ UNCHANGED <<obj, ofile, objVars, closing, drop, newfd, child, overrun, panicked>>

\* A call gives up and closes the files fs.
GiveUp(p, fs) ==
  /\ closing' = [closing EXCEPT ![p] = fs]
  /\ Goto(p, "close")

\* pipealloc() finds no second entry.
PipeNoFile(p) ==
  /\ pc[p] = "pipe" /\ NoFree
  /\ GiveUp(p, <<fold[p]>>)
  /\ fold' = [fold EXCEPT ![p] = None]
  /\ UNCHANGED <<tableVars, ofile, objVars, drop, newfd, child, overrun, panicked>>

\* pipealloc() gets no page from kalloc().
PipeNoPage(p, f) ==
  /\ pc[p] = "pipe" /\ filealloc(f)
  /\ \A q \in Page : ends[q] # {}
  /\ GiveUp(p, <<fold[p], f>>)
  /\ fold' = [fold EXCEPT ![p] = None]
  /\ UNCHANGED <<obj, ofile, objVars, drop, newfd, child, overrun, panicked>>

\* Variant of sys_pipe() that forgets the write end when it gives up.
PipeFilesOne(rf, wf) == <<rf>>

\* The files that sys_pipe() closes when it finds no descriptors.
PipeFiles(rf, wf) == <<rf, wf>>

\* The rest of pipealloc(), and sys_pipe() with its two descriptors or without.
PipeMade(p, f, q) ==
  /\ pc[p] = "pipe" /\ filealloc(f) /\ ends[q] = {}
  /\ ends' = [ends EXCEPT ![q] = End]
  /\ obj' = [obj EXCEPT ![fold[p]] = PipeEnd(q, "r"), ![f] = PipeEnd(q, "w")]
  /\ IF Cardinality(FreeFds(p)) >= 2
       THEN LET d0 == Least(FreeFds(p))
                d1 == Least(FreeFds(p) \ {d0})
            IN  /\ ofile' = [ofile EXCEPT ![p][d0] = fold[p], ![p][d1] = f]
                /\ Goto(p, "user")
                /\ UNCHANGED closing
       ELSE GiveUp(p, PipeFiles(fold[p], f)) /\ UNCHANGED ofile
  /\ fold' = [fold EXCEPT ![p] = None]
  /\ UNCHANGED <<inodes, drop, newfd, child, overrun, panicked>>

-----------------------------------------------------------------------------
(* fork() and exit() *)

\* fork() has a process from allocproc() and copyuvm().
Fork(p, c) ==
  /\ pc[p] = "user" /\ pc[c] = "none"
  /\ pc' = [pc EXCEPT ![p] = "fork", ![c] = "embryo"]
  /\ child' = [child EXCEPT ![p] = c]
  /\ UNCHANGED <<tableVars, ofile, objVars, closing, drop, fold, newfd, overrun, panicked>>

\* The descriptors that the child does not have yet.
ToCopy(p) == {d \in Fds : ofile[p][d] # None /\ ofile[child[p]][d] = None}

\* fork() copies one descriptor.
ForkDup(p) ==
  /\ pc[p] = "fork" /\ ToCopy(p) # {}
  /\ LET d == Least(ToCopy(p))
     IN  filedup(ofile[p][d]) /\ ofile' = [ofile EXCEPT ![child[p]][d] = ofile[p][d]]
  /\ UNCHANGED <<obj, objVars, procVars, overrun>>

\* fork() makes the child runnable and returns.
ForkDone(p) ==
  /\ pc[p] = "fork" /\ ToCopy(p) = {}
  /\ pc' = [pc EXCEPT ![p] = "user", ![child[p]] = "user"]
  /\ child' = [child EXCEPT ![p] = None]
  /\ UNCHANGED <<tableVars, ofile, objVars, closing, drop, fold, newfd, overrun, panicked>>

\* The open files of p, in the order of the descriptors.
OpenFiles(p) ==
  LET at(d) == IF ofile[p][d] = None THEN <<>> ELSE <<ofile[p][d]>>
      upto[d \in 0..NOFILE] == IF d = 0 THEN <<>> ELSE upto[d - 1] \o at(d - 1)
  IN  upto[NOFILE]

\* exit() closes everything; its ofile[] is not looked at any more.
Exit(p) ==
  /\ pc[p] = "user" /\ p # init
  /\ closing' = [closing EXCEPT ![p] = OpenFiles(p)]
  /\ ofile' = [ofile EXCEPT ![p] = [d \in Fds |-> None]]
  /\ Goto(p, "exit")
  /\ UNCHANGED <<tableVars, objVars, drop, fold, newfd, child, overrun, panicked>>

-----------------------------------------------------------------------------
(* fileclose() *)

\* --f->ref > 0 is false.
LastRef(f) == ref[f] <= 1

\* The object of the file, with its type.
Dropped(f) == obj[f]

\* fileclose(), the part under ftable.lock.
fileclose(p) ==
  /\ closing[p] # <<>> /\ drop[p] = None
  /\ LET f == Head(closing[p])
     IN  /\ panicked' = (ref[f] < 1)
         /\ IF LastRef(f)
              THEN /\ ref' = [ref EXCEPT ![f] = 0]
                   /\ obj' = [obj EXCEPT ![f] = None]
                   /\ drop' = [drop EXCEPT ![p] = Dropped(f)]
              ELSE /\ ref' = [ref EXCEPT ![f] = @ - 1]
                   /\ UNCHANGED <<obj, drop>>
  /\ closing' = [closing EXCEPT ![p] = Tail(@)]
  /\ UNCHANGED <<ofile, objVars, pc, fold, newfd, child, overrun>>

\* Variant of pipeclose() that tries again while the other end is open.
FilecloseWaits(p) ==
  /\ drop[p] # None
  /\ IF drop[p] = Inode
       THEN inodes' = inodes - 1 /\ UNCHANGED ends /\ drop' = [drop EXCEPT ![p] = None]
       ELSE IF ends[drop[p][2]] = End
         THEN UNCHANGED <<inodes, ends, drop>>
         ELSE /\ ends' = [ends EXCEPT ![drop[p][2]] = @ \ {drop[p][3]}]
              /\ drop' = [drop EXCEPT ![p] = None]
              /\ UNCHANGED inodes
  /\ UNCHANGED <<tableVars, ofile, pc, closing, fold, newfd, child, overrun, panicked>>

\* fileclose(), the part after: iput(), or pipeclose() of an end.
FilecloseDrops(p) ==
  /\ drop[p] # None
  /\ IF drop[p] = Inode
       THEN inodes' = inodes - 1 /\ UNCHANGED ends
       ELSE ends' = [ends EXCEPT ![drop[p][2]] = @ \ {drop[p][3]}] /\ UNCHANGED inodes
  /\ drop' = [drop EXCEPT ![p] = None]
  /\ UNCHANGED <<tableVars, ofile, pc, closing, fold, newfd, child, overrun, panicked>>

\* The call returns; after exit() the parent can free the process.
CloseDone(p) ==
  /\ pc[p] \in {"close", "exit"} /\ closing[p] = <<>> /\ drop[p] = None
  /\ Goto(p, IF pc[p] = "exit" THEN "none" ELSE "user")
  /\ UNCHANGED <<tableVars, ofile, objVars, closing, drop, fold, newfd, child, overrun, panicked>>

-----------------------------------------------------------------------------

Call(p) ==
  \/ \E f \in File : Open(p, f) \/ OpenNoFd(p, f) \/ Pipe(p, f)
  \/ \E d \in FdArg : Close(p, d) \/ Dup(p, d)
  \/ \E od, nd \in FdArg : Dup2(p, od, nd)
  \/ \E c \in Proc : Fork(p, c)
  \/ Exit(p)

Run(p) ==
  \/ DupRef(p) \/ Dup2Done(p)
  \/ PipeNoFile(p) \/ \E f \in File : PipeNoPage(p, f) \/ \E q \in Page : PipeMade(p, f, q)
  \/ ForkDup(p) \/ ForkDone(p)
  \/ fileclose(p) \/ FilecloseDrops(p) \/ CloseDone(p)

Next == ~overrun /\ ~panicked /\ \E p \in Proc : Call(p) \/ Run(p)

Spec == Init /\ [][Next]_vars

\* The scheduler runs every process that is in the kernel.
LiveSpec == Spec /\ \A p \in Proc : WF_vars(~overrun /\ ~panicked /\ Run(p))

-----------------------------------------------------------------------------
(* Properties. *)

\* The descriptors, of all processes, for f.
Descriptors(f) == {x \in Proc \X Fds : ofile[x[1]][x[2]] = f}

\* Whenever no process is inside one of these calls, f->ref is the number of
\* descriptors, and pipe ends and inode references are held for exactly the
\* files in use: nothing leaks on the error paths of open() and pipe() or in
\* fork() and exit().
Counted ==
  (\A p \in Proc : pc[p] \in {"none", "user"}) =>
    /\ \A f \in File : ref[f] = Cardinality(Descriptors(f)) /\ (ref[f] = 0 <=> obj[f] = None)
    /\ inodes = Cardinality({f \in File : obj[f] = Inode})
    /\ \A q \in Page : ends[q] = {e \in End : \E f \in File : obj[f] = PipeEnd(q, e)}

\* A descriptor of a process in user mode is good whatever the others do: its
\* file is in use, and so is the end of the pipe it is (fileclose()).
Usable ==
  \A p \in Proc, d \in Fds : pc[p] = "user" /\ ofile[p][d] # None =>
    LET f == ofile[p][d]
    IN  /\ ref[f] > 0 /\ obj[f] # None
        /\ \A q \in Page, e \in End : obj[f] = PipeEnd(q, e) => e \in ends[q]

\* filedup() and fileclose() never find a file without references.
NoPanic == ~panicked

\* An end of a pipe is open and no descriptor is left for it.
Abandoned(q, e) ==
  e \in ends[q] /\ \A f \in File : obj[f] = PipeEnd(q, e) => Descriptors(f) = {}

\* When the last descriptor for an end of a pipe goes, by close(), dup2() or
\* exit(), the end is closed, so that the other side hears of it.
EndCloses == \A q \in Page, e \in End : Abandoned(q, e) ~> e \notin ends[q]

\* What param.h:4 says of NOFILE, "open files per process": descriptors stay
\* inside ofile[] (sys_dup2()).
InTable == ~overrun
=============================================================================
