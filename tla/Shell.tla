-------------------------------- MODULE Shell --------------------------------
(***************************************************************************)
(* init and the shell (user/init.c, user/sh.c): main() of both, fork1()    *)
(* and runcmd(), which turns the tree of a command line into processes     *)
(* joined by pipes.  One step is a stretch of code up to the next fork(),  *)
(* pipe() or wait(); the kernel below is what those calls promise.         *)
(*                                                                         *)
(* A descriptor is <<>> (closed), <<"console">>, <<"file", name>> or an    *)
(* end <<"r", n>>, <<"w", n>> of the pipe n.                               *)
(***************************************************************************)
EXTENDS Parser, FiniteSetsExt

CONSTANTS
  NPROC,   \* size of the process table; init is 1
  NOFILE,  \* descriptors of a process
  NCMD,    \* bound: lines read from the console
  Lines,   \* what may be typed when so many lines are left
  NTOKEN   \* bound: length of the lines that the grammar is compared on

VARIABLES
  proc,    \* the process table
  left     \* how many lines are still to be read

vars == <<proc, left>>

Pid == 1..NPROC
init == 1
Fd == 0..NOFILE - 1

Free == [pc |-> "free"]
\* open("console", O_RDWR) and two dup(0): what every shell starts with.
Console == [f \in Fd |-> IF f < 3 THEN <<"console">> ELSE <<>>]
NoCmd == [type |-> "none"]

Used(S) == {p \in S : proc[p].pc # "free"}
HasPc(p, pc) == proc[p].pc = pc
Children(p) == {q \in Used(Pid) : q # init /\ proc[q].parent = p}

New(pc, parent, fd, cmd, job) ==
  [pc |-> pc, parent |-> parent, fd |-> fd, cmd |-> cmd, job |-> job, sh |-> 0, p |-> <<0, 0>>]

Init ==
  /\ proc = [p \in Pid |-> IF p = init THEN New("init", 0, Console, NoCmd, <<>>) ELSE Free]
  /\ left = NCMD

-----------------------------------------------------------------------------
(* The kernel, as far as the shell relies on it. *)

close(fd, f) == [fd EXCEPT ![f] = <<>>]
Lowest(fd) == Min({f \in Fd : fd[f] = <<>>})
Install(fd, x) == [fd EXCEPT ![Lowest(fd)] = x]
dup(fd, f) == Install(fd, fd[f])

\* The processes that can still write to the pipe n.
Writers(n) == {p \in Used(Pid) : \E f \in Fd : proc[p].fd[f] = <<"w", n>>}
PipesOf(p) == {proc[p].fd[f][2] : f \in {g \in Fd : Len(proc[p].fd[g]) = 2 /\ proc[p].fd[g][1] # "file"}}
NewPipe == Min(1..NPROC + 1 \ UNION {PipesOf(p) : p \in Used(Pid)})

\* exit(): descriptors are closed and children go to init.
Exited(table, p) ==
  [q \in Pid |->
     IF q = p THEN [table[q] EXCEPT !.pc = "zombie", !.fd = [f \in Fd |-> <<>>], !.cmd = NoCmd]
     ELSE IF table[q].pc # "free" /\ q # init /\ table[q].parent = p THEN [table[q] EXCEPT !.parent = init]
     ELSE table[q]]
exit(p) == proc' = Exited(proc, p) /\ UNCHANGED left

\* fork1(): a copy of p that goes on as child, or panic() when the table is
\* full; after is p itself.
fork1(p, child, after) ==
  LET free == Pid \ Used(Pid) IN
  IF free = {} THEN proc' = Exited(proc, p)
  ELSE proc' = [proc EXCEPT ![p] = after, ![Min(free)] = child]

\* wait(): a zombie child is freed and p goes on as after.
wait(p, after) ==
  /\ \E q \in Children(p) : HasPc(q, "zombie") /\ proc' = [proc EXCEPT ![q] = Free, ![p] = after]
  /\ UNCHANGED left

-----------------------------------------------------------------------------
(* user/init.c *)

\* main() of init starts a shell, which finds 0, 1 and 2 open.
startsh ==
  /\ HasPc(init, "init")
  /\ LET sh == Min(Pid \ Used(Pid)) IN
     fork1(init, New("getcmd", init, Console, NoCmd, <<>>),
           [proc[init] EXCEPT !.pc = "initwait", !.sh = sh])
  /\ UNCHANGED left

\* It waits for the shell, and for every orphan that ends before it.
reap ==
  /\ HasPc(init, "initwait")
  /\ \E q \in Children(init) :
       /\ HasPc(q, "zombie")
       /\ proc' = [proc EXCEPT ![q] = Free,
                               ![init].pc = IF q = proc[init].sh THEN "init" ELSE @]
  /\ UNCHANGED left

-----------------------------------------------------------------------------
(* user/sh.c *)

\* main(): the end of the input, a cd, or a line for a child to parse and run.
getcmd(p) ==
  /\ HasPc(p, "getcmd") /\ left > 0
  /\ left' = left - 1
  /\ \/ proc' = Exited(proc, p)
     \/ UNCHANGED proc
     \/ \E line \in Lines[left] :
          fork1(p, New("run", p, proc[p].fd, parsecmd(line), <<left, parsecmd(line)>>), [proc[p] EXCEPT !.pc = "shwait"])

shwait(p) == HasPc(p, "shwait") /\ wait(p, [proc[p] EXCEPT !.pc = "getcmd"])

\* runcmd() by the type of the command.
Runs(p, type) == HasPc(p, "run") /\ proc[p].cmd.type = type
Child(p, fd, cmd) == New("run", p, fd, cmd, proc[p].job)

\* panic("syntax") of the parser, in the child that parses.
syntax(p) == Runs(p, "panic") /\ exit(p)

\* exec() starts the program or fails.
runEXEC(p) ==
  /\ Runs(p, "EXEC")
  /\ \/ exit(p)
     \/ /\ proc[p].cmd.argv # <<>>
        /\ proc' = [proc EXCEPT ![p].pc = "program"]
        /\ UNCHANGED left

\* Variant of redirect: the file is opened before the descriptor is closed.
redirectOpen(fd, c) == close(Install(fd, <<"file", c.file>>), c.fd)

redirect(fd, c) == Install(close(fd, c.fd), <<"file", c.file>>)

runREDIR(p) ==
  /\ Runs(p, "REDIR")
  /\ \/ exit(p)
     \/ LET c == proc[p].cmd IN
        /\ proc' = [proc EXCEPT ![p].fd = redirect(@, c), ![p].cmd = c.cmd]
        /\ UNCHANGED left

runLIST(p) ==
  /\ Runs(p, "LIST")
  /\ fork1(p, Child(p, proc[p].fd, proc[p].cmd.left), [proc[p] EXCEPT !.pc = "listwait"])
  /\ UNCHANGED left
listwait(p) ==
  HasPc(p, "listwait") /\ wait(p, [proc[p] EXCEPT !.pc = "run", !.cmd = @.right])

\* pipe(p): the two lowest descriptors, or panic("pipe").
runPIPE(p) ==
  /\ Runs(p, "PIPE")
  /\ \/ exit(p)
     \/ LET n == NewPipe
            r == Install(proc[p].fd, <<"r", n>>)
        IN /\ proc' = [proc EXCEPT ![p].fd = Install(r, <<"w", n>>), ![p].pc = "left",
                                   ![p].p = <<Lowest(proc[p].fd), Lowest(r)>>]
           /\ UNCHANGED left

\* What a child does with the pipe e before it runs its side: end e becomes
\* the descriptor f, and both ends are closed.
join(fd, pp, e, f) == close(close(dup(close(fd, f), pp[e]), pp[1]), pp[2])

runleft(p) ==
  /\ HasPc(p, "left")
  /\ fork1(p, Child(p, join(proc[p].fd, proc[p].p, 2, 1), proc[p].cmd.left),
           [proc[p] EXCEPT !.pc = "right"])
  /\ UNCHANGED left

\* Variant of bothclosed: the parent keeps the end it writes to.
bothclosedRead(fd, pp) == close(fd, pp[1])

\* The parent closes both ends once it has its two children.
bothclosed(fd, pp) == close(close(fd, pp[1]), pp[2])

runright(p) ==
  /\ HasPc(p, "right")
  /\ fork1(p, Child(p, join(proc[p].fd, proc[p].p, 1, 0), proc[p].cmd.right),
           [proc[p] EXCEPT !.pc = "wait2", !.fd = bothclosed(@, proc[p].p), !.p = <<0, 0>>])
  /\ UNCHANGED left
wait2(p) == HasPc(p, "wait2") /\ wait(p, [proc[p] EXCEPT !.pc = "wait1"])
wait1(p) == HasPc(p, "wait1") /\ wait(p, [proc[p] EXCEPT !.pc = "done"])
done(p) == HasPc(p, "done") /\ exit(p)

runBACK(p) ==
  /\ Runs(p, "BACK")
  /\ fork1(p, Child(p, proc[p].fd, proc[p].cmd.cmd), [proc[p] EXCEPT !.pc = "done"])
  /\ UNCHANGED left

\* A program may end at any time, and does when its input ends: at once for
\* the console and a file, once nobody can write any more for a pipe.
AtEof(p) == proc[p].fd[0] # <<>> /\ proc[p].fd[0][1] = "r" => Writers(proc[p].fd[0][2]) = {}
quits(p) == HasPc(p, "program") /\ ~AtEof(p) /\ exit(p)
ends(p) == HasPc(p, "program") /\ AtEof(p) /\ exit(p)

Step(p) ==
  \/ shwait(p) \/ syntax(p)
  \/ runEXEC(p) \/ runREDIR(p) \/ runLIST(p) \/ listwait(p)
  \/ runPIPE(p) \/ runleft(p) \/ runright(p) \/ wait2(p) \/ wait1(p) \/ done(p)
  \/ runBACK(p) \/ ends(p)

Next == startsh \/ reap \/ \E p \in Pid : getcmd(p) \/ Step(p) \/ quits(p)

\* Processes go on, and nobody types or makes a program give up early.
Fairness ==
  /\ WF_vars(startsh) /\ WF_vars(reap)
  /\ \A p \in Pid : WF_vars(Step(p))

Spec == Init /\ [][Next]_vars /\ Fairness

-----------------------------------------------------------------------------
(* Reference: which programs of a tree are joined by a pipe. *)

\* The programs of c whose descriptor f is the one that c was started with.
RECURSIVE Ends(_, _)
Ends(c, f) ==
  CASE c.type = "EXEC" -> {c.argv[1] : i \in 1..Len(c.argv)}
    [] c.type = "REDIR" -> IF c.fd = f THEN {} ELSE Ends(c.cmd, f)
    [] c.type = "LIST" -> Ends(c.left, f) \cup Ends(c.right, f)
    [] c.type = "PIPE" -> IF f = 0 THEN Ends(c.left, f) ELSE Ends(c.right, f)
    [] c.type = "BACK" -> Ends(c.cmd, f)
    [] OTHER -> {}

RECURSIVE Wires(_)
Wires(c) ==
  CASE c.type = "LIST" -> Wires(c.left) \cup Wires(c.right)
    [] c.type = "PIPE" ->
         Wires(c.left) \cup Wires(c.right) \cup (Ends(c.left, 1) \X Ends(c.right, 0))
    [] c.type \in {"REDIR", "BACK"} -> Wires(c.cmd)
    [] OTHER -> {}

Programs == {p \in Pid : HasPc(p, "program")}
Joined(p, q) ==
  LET out == proc[p].fd[1] IN out[1] = "w" /\ proc[q].fd[0] = <<"r", out[2]>>

\* runcmd() gives every program exactly the descriptors 0, 1 and 2, and two
\* programs have the two ends of a pipe just when the command line joins them,
\* whatever the order in which the processes of the line, and of the lines
\* before it that run in the background, take their steps.
Wired ==
  /\ \A p \in Programs, f \in Fd : proc[p].fd[f] # <<>> <=> f < 3
  /\ \A p, q \in Programs :
       Joined(p, q) <=>
         /\ proc[p].job = proc[q].job
         /\ <<proc[p].cmd.argv[1], proc[q].cmd.argv[1]>> \in Wires(proc[p].job[2])

\* The shell prompts again after every line (main(), runcmd()): no process of a
\* pipeline keeps an end that makes another one wait for ever, no wait() is for
\* the wrong child, and when fork() fails in the shell init starts another.
Prompt == []<>(\E p \in Pid : HasPc(p, "getcmd"))

\* See Grammatical; the lines are the same for every state.
Parses == left = NCMD /\ HasPc(init, "init") => Grammatical(NTOKEN)
=============================================================================
