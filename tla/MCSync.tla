------------------------------- MODULE MCSync -------------------------------
(* What processes share, each explored on its own: on says which machine     *)
(* moves.  A pipe (Pipe), and open files with their descriptors (Files, as   *)
(* F).                                                                       *)
EXTENDS Pipe

CONSTANTS
  Machine,                                \* the machines explored
  User, File, Page, init, NOFILE, FdArg   \* Files: User is Proc

VARIABLES
  on,
  ref, obj, ofile, ends, inodes, fpc, closing, drop, fold, newfd, child, overrun, panicked

F == INSTANCE Files WITH Proc <- User, pc <- fpc

ASSUME PipeAssumption /\ F!FilesAssumption

fVars == <<ref, obj, ofile, ends, inodes, fpc, closing, drop, fold, newfd, child, overrun, panicked>>
allvars == <<on, vars, fVars>>

\* The variables of the files while they do not move.
fIdle ==
  /\ ref = 0 /\ obj = 0 /\ ofile = 0 /\ ends = 0 /\ inodes = 0 /\ fpc = 0 /\ closing = 0
  /\ drop = 0 /\ fold = 0 /\ newfd = 0 /\ child = 0 /\ overrun = 0 /\ panicked = 0

MCInit ==
  /\ on \in Machine
  /\ Init /\ (on # "pipe" => data = [i \in 0..PIPESIZE - 1 |-> 0])
  /\ IF on = "files" THEN F!Init ELSE fIdle

\* A pipe whose ends are closed stops.
Rest == on = "pipe" /\ UNCHANGED allvars

MCNext ==
  \/ on = "pipe" /\ Next /\ UNCHANGED <<on, fVars>>
  \/ on = "files" /\ F!Next /\ UNCHANGED <<on, vars>>
  \/ Rest

MCSpec == MCInit /\ [][MCNext]_allvars

-----------------------------------------------------------------------------
(* The properties of Pipe, and those of Files. *)

\* References of open files are counted, and a descriptor is good as long as a
\* process has it (filedup(), fileclose(), fork(), exit()).
Counted == on = "files" => F!Counted /\ F!Usable /\ F!NoPanic

\* Descriptors stay in ofile[] (argfd(), sys_dup2()).
InTable == on = "files" => F!InTable
=============================================================================
