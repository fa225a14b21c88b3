------------------------------- MODULE MCUser -------------------------------
(* What processes share and the programs that share it, each explored on its *)
(* own: on says which machine moves.  Open files and descriptors (Files, as  *)
(* F), a sleep-lock (SleepLock), and init with the shell (Shell, as S).       *)
EXTENDS SleepLock, Sequences

CONSTANTS
  Machine,   \* the machines explored
  User, File, Page, First, NOFILE, FdArg,        \* Files: User is Proc, First is init
  MAXARGS, NPROC, NCMD, NTOKEN                   \* Shell

VARIABLES
  on,
  ref, obj, ofile, ends, inodes, fpc, closing, drop, fold, newfd, child, overrun, panicked,
  proc, left

\* Lines that are typed to the shell: the last one, and the one before it.
Typed ==
  << {<<"a", "|", "b", ">", "f">>, <<"a", "|", ")">>},
     {<<"a", "|", "b", " ", "|", "c">>,
      <<"(", "a", "<", "f", ";", "b", ")", "|", "c", "&">>} >>

F == INSTANCE Files WITH Proc <- User, init <- First, pc <- fpc
S == INSTANCE Shell WITH NOFILE <- 5, Lines <- Typed

ASSUME SleepLockAssumption /\ F!FilesAssumption

fileVars == <<ref, obj, ofile, ends, inodes, fpc, closing, drop, fold, newfd, child, overrun, panicked>>
shVars == <<proc, left>>
allvars == <<on, vars, fileVars, shVars>>

MCInit == on \in Machine /\ Init /\ F!Init /\ S!Init

\* The shell waits when all has been typed.
Prompting == on = "shell" /\ left = 0 /\ UNCHANGED allvars

MCNext ==
  \/ on = "files" /\ F!Next /\ UNCHANGED <<on, vars, shVars>>
  \/ on = "lock" /\ Next /\ UNCHANGED <<on, fileVars, shVars>>
  \/ on = "shell" /\ S!Next /\ UNCHANGED <<on, vars, fileVars>>
  \/ Prompting

MCSpec == MCInit /\ [][MCNext]_allvars

\* The fairness of each machine while it moves.
MCLiveSpec ==
  /\ MCSpec
  /\ \A p \in User : WF_fileVars(on = "files" /\ ~overrun /\ ~panicked /\ F!Run(p))
  /\ \A p \in Proc : SF_vars(on = "lock" /\ Step(p))
  /\ WF_shVars(on = "shell" /\ S!startsh) /\ WF_shVars(on = "shell" /\ S!reap)
  /\ \A p \in S!Pid : WF_shVars(on = "shell" /\ S!Step(p))

-----------------------------------------------------------------------------
(* The properties of SleepLock, and those of the other machines. *)

\* The end of a pipe is closed when its last descriptor is (fileclose()).
EndCloses == F!EndCloses

\* Programs get the descriptors their command line asks for (runcmd()).
Wired == S!Wired

\* parsecmd() accepts the lines of the grammar and builds their trees.
Parses == on = "shell" => S!Parses

\* The shell prompts again after every line (main(), runcmd()).
Prompt == on = "shell" => S!Prompt
=============================================================================
