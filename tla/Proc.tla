-------------------------------- MODULE Proc --------------------------------
(***************************************************************************)
(* The process table of the kernel (proc.c) and the parts of trap.c and    *)
(* sysproc.c that act on it: fork, exit, wait, kill, setprio, sys_sleep,   *)
(* the clock tick, preemption, and one priority scheduler per CPU.         *)
(*                                                                         *)
(* A slot of ptable.proc is a number in 1..NPROC and 0 is the null         *)
(* pointer.  Every field of struct proc that the control depends on is a   *)
(* function on slots.  ptable.lock is explicit because a scheduler takes   *)
(* it and the thread that it switches to releases it, and the other way    *)
(* around.  A stretch of code that holds the lock from beginning to end is *)
(* one step.                                                               *)
(***************************************************************************)
EXTENDS Integers, FiniteSets

CONSTANTS
  NPROC,     \* size of ptable.proc
  CPU,       \* the processors; each one runs scheduler()
  MaxPid,    \* bound: no process is created once nextpid exceeds it
  KillPids,  \* pids that processes pass to kill()
  PrioPids,  \* pids that processes pass to setprio()
  Prios,     \* priorities that processes pass to setprio()
  Status     \* values that processes pass to exit()

ASSUME ProcAssumption ==
  /\ NPROC \in Nat \ {0}
  /\ MaxPid \in Nat \ {0}
  /\ 0 \notin CPU
  /\ KillPids \subseteq Nat /\ PrioPids \subseteq Nat
  /\ Prios \subseteq Int

VARIABLES
  state, pid, parent, killed, prio, chan, ret,  \* fields of struct proc
  nextpid,
  lock,      \* the CPU that holds ptable.lock, or 0
  pc,        \* where the kernel thread of a slot is
  susp,      \* the call of sched() a switched-out thread will return from
  np,        \* fork()'s local np
  cproc,     \* c->proc, which is also the cursor p of scheduler()
  ctx,       \* what a CPU executes: its scheduler or a process
  nalta, pnormal, second,  \* scheduler(): locals, and which loop it is in
  panicked

procVars == <<state, pid, parent, killed, prio, chan, ret, nextpid>>
threadVars == <<pc, susp, np>>
cpuVars == <<cproc, ctx, nalta, pnormal, second>>
vars == <<procVars, lock, threadVars, cpuVars, panicked>>

Slot == 1..NPROC
initproc == 1
Ticks == NPROC + 1      \* the channel &ticks; a slot p is the channel p

NORMAL == 0
HIGH == 1

States == {"UNUSED", "EMBRYO", "SLEEPING", "RUNNABLE", "RUNNING", "ZOMBIE"}

\* user: in user mode.  kernel: in a system call that has not yet chosen what
\* to do.  fork: fork() after allocproc().  doze: sys_sleep() with tickslock
\* held, about to sleep.  ticking: sys_sleep() after a sleep.  exit: in exit()
\* before it takes ptable.lock.  ret: on the way back to user mode.
Pcs == {"none", "user", "kernel", "fork", "doze", "ticking", "exit", "ret"}

\* run: not inside sched().  The others name the caller of sched(), or forkret.
Susps == {"none", "run", "forkret", "yield", "sleep", "wait"}

TypeOK ==
  /\ state \in [Slot -> States]
  /\ pid \in [Slot -> Nat]
  /\ parent \in [Slot -> Slot \cup {0}]
  /\ killed \in [Slot -> BOOLEAN]
  /\ prio \in [Slot -> 0..2]
  /\ chan \in [Slot -> 0..NPROC + 1]
  /\ ret \in [Slot -> Status \cup {0}]
  /\ nextpid \in Nat
  /\ lock \in CPU \cup {0}
  /\ pc \in [Slot -> Pcs]
  /\ susp \in [Slot -> Susps]
  /\ np \in [Slot -> Slot \cup {0}]
  /\ cproc \in [CPU -> Slot \cup {0}]
  /\ ctx \in [CPU -> {"top", "proc", "back"}]
  /\ nalta \in [CPU -> BOOLEAN]
  /\ pnormal \in [CPU -> Slot \cup {0}]
  /\ second \in [CPU -> BOOLEAN]
  /\ panicked \in BOOLEAN

\* userinit() has run and every CPU is at the top of scheduler().
Init ==
  /\ state = [s \in Slot |-> IF s = initproc THEN "RUNNABLE" ELSE "UNUSED"]
  /\ pid = [s \in Slot |-> IF s = initproc THEN 1 ELSE 0]
  /\ parent = [s \in Slot |-> 0]
  /\ killed = [s \in Slot |-> FALSE]
  /\ prio = [s \in Slot |-> NORMAL]
  /\ chan = [s \in Slot |-> 0]
  /\ ret = [s \in Slot |-> 0]
  /\ nextpid = 2
  /\ lock = 0
  /\ pc = [s \in Slot |-> IF s = initproc THEN "user" ELSE "none"]
  /\ susp = [s \in Slot |-> IF s = initproc THEN "forkret" ELSE "none"]
  /\ np = [s \in Slot |-> 0]
  /\ cproc = [c \in CPU |-> 0]
  /\ ctx = [c \in CPU |-> "top"]
  /\ nalta = [c \in CPU |-> FALSE]
  /\ pnormal = [c \in CPU |-> 0]
  /\ second = [c \in CPU |-> FALSE]
  /\ panicked = FALSE

-----------------------------------------------------------------------------
(* Helpers. *)

\* The first slot of S in the order in which the loops of proc.c visit it.
First(s, S) == s \in S /\ \A t \in S : s <= t

WithState(st) == {s \in Slot : state[s] = st}
WithPid(n) == {s \in Slot : pid[s] = n}
Kids(s) == {t \in Slot : parent[t] = s}

\* wakeup1(ch), applied to the states st.
wakeup1(st, ch) ==
  [s \in Slot |-> IF st[s] = "SLEEPING" /\ chan[s] = ch THEN "RUNNABLE" ELSE st[s]]

\* CPU c executes process s outside sched(), so without ptable.lock.
Running(c, s) == ctx[c] = "proc" /\ cproc[c] = s /\ susp[s] = "run"

\* CPU c has just switched to s, which returns from sched() with the lock held.
Resumed(c, s, from) == ctx[c] = "proc" /\ cproc[c] = s /\ susp[s] = from

Goto(s, l) == pc' = [pc EXCEPT ![s] = l]

\* sched(): s has given up CPU c, which goes on in scheduler() with the lock.
sched(c, s, from) ==
  /\ lock' = c
  /\ susp' = [susp EXCEPT ![s] = from]
  /\ ctx' = [ctx EXCEPT ![c] = "back"]
  /\ UNCHANGED <<cproc, nalta, pnormal, second>>

-----------------------------------------------------------------------------
(* Traps from user mode. *)

\* trap(): system call entry, with its check of p->killed.
SyscallEntry(c, s) ==
  /\ Running(c, s) /\ pc[s] = "user"
  /\ Goto(s, IF killed[s] THEN "exit" ELSE "kernel")
  /\ UNCHANGED <<procVars, lock, susp, np, cpuVars, panicked>>

\* trap(): return to user mode, with its check of p->killed.
SyscallReturn(c, s) ==
  /\ Running(c, s) /\ pc[s] = "ret"
  /\ Goto(s, IF killed[s] THEN "exit" ELSE "user")
  /\ UNCHANGED <<procVars, lock, susp, np, cpuVars, panicked>>

\* trap(): a fault in user mode kills the process, which then exits.
UserFault(c, s) ==
  /\ Running(c, s) /\ pc[s] = "user"
  /\ killed' = [killed EXCEPT ![s] = TRUE]
  /\ Goto(s, "exit")
  /\ UNCHANGED <<state, pid, parent, prio, chan, ret, nextpid, lock, susp, np, cpuVars, panicked>>

\* trap() on a clock tick: a killed process in user mode exits.
TickKills(c, s) ==
  /\ Running(c, s) /\ pc[s] = "user" /\ killed[s]
  /\ Goto(s, "exit")
  /\ UNCHANGED <<procVars, lock, susp, np, cpuVars, panicked>>

\* trap() on a clock tick: any other process gives up the CPU, unless it holds
\* tickslock, when interrupts are off.
yield(c, s) ==
  /\ Running(c, s) /\ pc[s] # "doze" /\ ~(pc[s] = "user" /\ killed[s]) /\ lock = 0
  /\ state' = [state EXCEPT ![s] = "RUNNABLE"]
  /\ Goto(s, IF pc[s] = "user" THEN "ret" ELSE pc[s])
  /\ sched(c, s, "yield")
  /\ UNCHANGED <<pid, parent, killed, prio, chan, ret, nextpid, np, panicked>>

\* yield() and forkret(): release ptable.lock after the switch.
Release(c, s) ==
  /\ Resumed(c, s, "yield") \/ Resumed(c, s, "forkret")
  /\ lock' = 0
  /\ susp' = [susp EXCEPT ![s] = "run"]
  /\ UNCHANGED <<procVars, pc, np, cpuVars, panicked>>

-----------------------------------------------------------------------------
(* fork(). *)

\* allocproc(), the part under ptable.lock: the first unused slot is taken.
allocproc(c, s) ==
  /\ Running(c, s) /\ pc[s] = "kernel" /\ lock = 0
  /\ nextpid <= MaxPid
  /\ \E p \in Slot :
       /\ First(p, WithState("UNUSED"))
       /\ state' = [state EXCEPT ![p] = "EMBRYO"]
       /\ pid' = [pid EXCEPT ![p] = nextpid]
       /\ np' = [np EXCEPT ![s] = p]
  /\ nextpid' = nextpid + 1
  /\ Goto(s, "fork")
  /\ UNCHANGED <<parent, killed, prio, chan, ret, lock, susp, cpuVars, panicked>>

\* allocproc() finds the table full.
TableFull(c, s) ==
  /\ Running(c, s) /\ pc[s] = "kernel" /\ lock = 0
  /\ WithState("UNUSED") = {}
  /\ Goto(s, "ret")
  /\ UNCHANGED <<procVars, lock, susp, np, cpuVars, panicked>>

\* kalloc() fails in allocproc(), or copyuvm() in fork().  The slot is given
\* back without the lock; its pid stays.
ForkFails(c, s) ==
  /\ Running(c, s) /\ pc[s] = "fork"
  /\ state' = [state EXCEPT ![np[s]] = "UNUSED"]
  /\ np' = [np EXCEPT ![s] = 0]
  /\ Goto(s, "ret")
  /\ UNCHANGED <<pid, parent, killed, prio, chan, ret, nextpid, lock, susp, cpuVars, panicked>>

\* The rest of fork(): the child gets its parent and priority and may run.  (The
\* parent is stored before the lock is taken; only the parent itself looks for it.)
fork(c, s) ==
  /\ Running(c, s) /\ pc[s] = "fork" /\ lock = 0
  /\ parent' = [parent EXCEPT ![np[s]] = s]
  /\ prio' = [prio EXCEPT ![np[s]] = prio[s]]
  /\ state' = [state EXCEPT ![np[s]] = "RUNNABLE"]
  /\ pc' = [pc EXCEPT ![np[s]] = "user", ![s] = "ret"]
  /\ susp' = [susp EXCEPT ![np[s]] = "forkret"]
  /\ np' = [np EXCEPT ![s] = 0]
  /\ UNCHANGED <<pid, killed, chan, ret, nextpid, lock, cpuVars, panicked>>

-----------------------------------------------------------------------------
(* exit() and wait(). *)

\* sys_exit().
sys_exit(c, s) ==
  /\ Running(c, s) /\ pc[s] = "kernel"
  /\ Goto(s, "exit")
  /\ UNCHANGED <<procVars, lock, susp, np, cpuVars, panicked>>

\* exit() of initproc.
ExitPanics(c, s) ==
  /\ Running(c, s) /\ pc[s] = "exit" /\ s = initproc
  /\ panicked' = TRUE
  /\ UNCHANGED <<procVars, lock, threadVars, cpuVars>>

\* Variant of exit() that wakes init but not its own parent.
exitNoParentWakeup(c, s, status) ==
  /\ Running(c, s) /\ pc[s] = "exit" /\ s # initproc /\ lock = 0
  /\ state' = [wakeup1(state, initproc) EXCEPT ![s] = "ZOMBIE"]
  /\ parent' = [p \in Slot |-> IF parent[p] = s THEN initproc ELSE parent[p]]
  /\ ret' = [ret EXCEPT ![s] = status]
  /\ Goto(s, "none")
  /\ sched(c, s, "none")
  /\ UNCHANGED <<pid, killed, prio, chan, nextpid, np, panicked>>

\* Variant of exit() that keeps the children of the exiting process.
exitKeepsChildren(c, s, status) ==
  /\ Running(c, s) /\ pc[s] = "exit" /\ s # initproc /\ lock = 0
  /\ state' = [wakeup1(state, parent[s]) EXCEPT ![s] = "ZOMBIE"]
  /\ ret' = [ret EXCEPT ![s] = status]
  /\ Goto(s, "none")
  /\ sched(c, s, "none")
  /\ UNCHANGED <<parent, pid, killed, prio, chan, nextpid, np, panicked>>

\* exit(), once it has ptable.lock: wake the parent, hand the children to
\* init, become a zombie and leave the CPU for good.
exit(c, s, status) ==
  /\ Running(c, s) /\ pc[s] = "exit" /\ s # initproc /\ lock = 0
  /\ LET woken == wakeup1(state, parent[s])
         initwoken == IF \E p \in Kids(s) : woken[p] = "ZOMBIE"
                        THEN wakeup1(woken, initproc) ELSE woken
     IN  state' = [initwoken EXCEPT ![s] = "ZOMBIE"]
  /\ parent' = [p \in Slot |-> IF parent[p] = s THEN initproc ELSE parent[p]]
  /\ ret' = [ret EXCEPT ![s] = status]
  /\ Goto(s, "none")
  /\ sched(c, s, "none")
  /\ UNCHANGED <<pid, killed, prio, chan, nextpid, np, panicked>>

\* wait() looks at its children with ptable.lock held: on entry, and again
\* when its sleep() returns.
Waiting(c, s) ==
  \/ Running(c, s) /\ pc[s] = "kernel" /\ lock = 0
  \/ Resumed(c, s, "wait")

Zombies(s) == {p \in Kids(s) : state[p] = "ZOMBIE"}

\* wait() leaves with ptable.lock released.
WaitReturns(s) ==
  /\ chan' = [chan EXCEPT ![s] = 0]
  /\ lock' = 0
  /\ susp' = [susp EXCEPT ![s] = "run"]
  /\ Goto(s, "ret")
  /\ UNCHANGED <<prio, ret, nextpid, np, cpuVars, panicked>>

\* wait() frees the first zombie child.
WaitReaps(c, s) ==
  /\ Waiting(c, s)
  /\ \E p \in Slot :
       /\ First(p, Zombies(s))
       /\ pid' = [pid EXCEPT ![p] = 0]
       /\ parent' = [parent EXCEPT ![p] = 0]
       /\ killed' = [killed EXCEPT ![p] = FALSE]
       /\ state' = [state EXCEPT ![p] = "UNUSED"]
  /\ WaitReturns(s)

\* wait() returns -1: no children, or the caller has been killed.
WaitFails(c, s) ==
  /\ Waiting(c, s)
  /\ Zombies(s) = {}
  /\ Kids(s) = {} \/ killed[s]
  /\ WaitReturns(s)
  /\ UNCHANGED <<pid, parent, killed, state>>

\* wait() sleeps on its own process, with ptable.lock as the lock to release.
WaitSleeps(c, s) ==
  /\ Waiting(c, s)
  /\ Zombies(s) = {}
  /\ Kids(s) # {} /\ ~killed[s]
  /\ chan' = [chan EXCEPT ![s] = s]
  /\ state' = [state EXCEPT ![s] = "SLEEPING"]
  /\ sched(c, s, "wait")
  /\ UNCHANGED <<pid, parent, killed, prio, ret, nextpid, pc, np, panicked>>

wait(c, s) == WaitReaps(c, s) \/ WaitFails(c, s) \/ WaitSleeps(c, s)

-----------------------------------------------------------------------------
(* sleep() and wakeup(), as sys_sleep() and the clock use them. *)

\* sys_sleep(), with tickslock: enough ticks have passed, or the process was
\* killed, or it is about to sleep.  tickslock is held exactly in "doze".
sys_sleep(c, s) ==
  /\ Running(c, s) /\ pc[s] \in {"kernel", "ticking"}
  /\ \A p \in Slot : pc[p] # "doze"
  /\ \/ Goto(s, "ret")
     \/ ~killed[s] /\ Goto(s, "doze")
  /\ UNCHANGED <<procVars, lock, susp, np, cpuVars, panicked>>

\* sleep(&ticks, &tickslock): take ptable.lock, release tickslock, sleep.
sleep(c, s) ==
  /\ Running(c, s) /\ pc[s] = "doze" /\ lock = 0
  /\ chan' = [chan EXCEPT ![s] = Ticks]
  /\ state' = [state EXCEPT ![s] = "SLEEPING"]
  /\ Goto(s, "ticking")
  /\ sched(c, s, "sleep")
  /\ UNCHANGED <<pid, parent, killed, prio, ret, nextpid, np, panicked>>

\* sleep() after the switch back.
SleepReturns(c, s) ==
  /\ Resumed(c, s, "sleep")
  /\ chan' = [chan EXCEPT ![s] = 0]
  /\ lock' = 0
  /\ susp' = [susp EXCEPT ![s] = "run"]
  /\ UNCHANGED <<state, pid, parent, killed, prio, ret, nextpid, pc, np, cpuVars, panicked>>

\* The clock tick of CPU 0: wakeup(&ticks) with tickslock held.
Tick ==
  /\ lock = 0
  /\ \A p \in Slot : pc[p] # "doze"
  /\ state' = wakeup1(state, Ticks)
  /\ UNCHANGED <<pid, parent, killed, prio, chan, ret, nextpid, lock, threadVars, cpuVars, panicked>>

-----------------------------------------------------------------------------
(* kill() and setprio(). *)

\* Variant of kill() that leaves a sleeping process asleep.
killNoWakeup(c, s, n) ==
  /\ Running(c, s) /\ pc[s] = "kernel" /\ lock = 0
  /\ killed' = [p \in Slot |-> killed[p] \/ First(p, WithPid(n))]
  /\ Goto(s, "ret")
  /\ UNCHANGED <<state, pid, parent, prio, chan, ret, nextpid, lock, susp, np, cpuVars, panicked>>

\* The first slot with the pid is hit, whatever its state.
kill(c, s, n) ==
  /\ Running(c, s) /\ pc[s] = "kernel" /\ lock = 0
  /\ \E p \in Slot :
       /\ First(p, WithPid(n))
       /\ killed' = [killed EXCEPT ![p] = TRUE]
       /\ state' = [state EXCEPT ![p] = IF @ = "SLEEPING" THEN "RUNNABLE" ELSE @]
  /\ Goto(s, "ret")
  /\ UNCHANGED <<pid, parent, prio, chan, ret, nextpid, lock, susp, np, cpuVars, panicked>>

\* kill() and setprocprio() find no slot with the pid.
NoSuchPid(c, s, n) ==
  /\ Running(c, s) /\ pc[s] = "kernel" /\ lock = 0
  /\ WithPid(n) = {}
  /\ Goto(s, "ret")
  /\ UNCHANGED <<procVars, lock, susp, np, cpuVars, panicked>>

\* sys_setprio(), which lets the values 0, 1 and 2 through.
setprocprio(c, s, n, pr) ==
  /\ Running(c, s) /\ pc[s] = "kernel" /\ lock = 0
  /\ pr \in 0..2
  /\ \E p \in Slot : First(p, WithPid(n)) /\ prio' = [prio EXCEPT ![p] = pr]
  /\ Goto(s, "ret")
  /\ UNCHANGED <<state, pid, parent, killed, chan, ret, nextpid, lock, susp, np, cpuVars, panicked>>

\* sys_setprio() refuses the priority.
BadPrio(c, s, pr) ==
  /\ Running(c, s) /\ pc[s] = "kernel"
  /\ pr \notin 0..2
  /\ Goto(s, "ret")
  /\ UNCHANGED <<procVars, lock, susp, np, cpuVars, panicked>>

-----------------------------------------------------------------------------
(* scheduler(). *)

\* Variant of the switch that forgets to mark the process.
DispatchUnmarked(c, s) ==
  /\ cproc' = [cproc EXCEPT ![c] = s]
  /\ ctx' = [ctx EXCEPT ![c] = "proc"]
  /\ lock' = c
  /\ UNCHANGED state

\* Switch to s; the lock stays with the CPU until s releases it.
Dispatch(c, s) ==
  /\ cproc' = [cproc EXCEPT ![c] = s]
  /\ ctx' = [ctx EXCEPT ![c] = "proc"]
  /\ state' = [state EXCEPT ![s] = "RUNNING"]
  /\ lock' = c

\* Variant of the end of a pass that keeps pnormal.
PassEndsKeepingPnormal(c) ==
  /\ cproc' = [cproc EXCEPT ![c] = 0]
  /\ ctx' = [ctx EXCEPT ![c] = "top"]
  /\ nalta' = [nalta EXCEPT ![c] = FALSE]
  /\ second' = [second EXCEPT ![c] = FALSE]
  /\ lock' = 0
  /\ UNCHANGED <<state, pnormal>>

\* The end of a pass: pnormal = 0 and release.
PassEnds(c) ==
  /\ cproc' = [cproc EXCEPT ![c] = 0]
  /\ ctx' = [ctx EXCEPT ![c] = "top"]
  /\ nalta' = [nalta EXCEPT ![c] = FALSE]
  /\ pnormal' = [pnormal EXCEPT ![c] = 0]
  /\ second' = [second EXCEPT ![c] = FALSE]
  /\ lock' = 0
  /\ UNCHANGED state

RunnableIn(S) == {s \in S \cap Slot : state[s] = "RUNNABLE"}
HighIn(S) == {s \in RunnableIn(S) : prio[s] = HIGH}

\* pn is pnormal after the first loop has visited the slots S.
Pnormal(c, S, pn) ==
  LET normal == RunnableIn(S) \ HighIn(S) IN
  IF pnormal[c] # 0 \/ normal = {} THEN pn = pnormal[c] ELSE First(pn, normal)

\* The second loop from slot p on: every runnable process, of any priority.
SecondLoop(c, p, pn) ==
  IF RunnableIn(p..NPROC) = {}
    THEN PassEnds(c)
    ELSE /\ \E s \in Slot : First(s, RunnableIn(p..NPROC)) /\ Dispatch(c, s)
         /\ second' = [second EXCEPT ![c] = TRUE]
         /\ pnormal' = [pnormal EXCEPT ![c] = pn]
         /\ nalta' = [nalta EXCEPT ![c] = FALSE]

\* The first loop from slot p on, with nalta = n: the high-priority processes,
\* then the second loop if there was none.
FirstLoop(c, p, n) ==
  IF HighIn(p..NPROC) # {}
    THEN \E s \in Slot, pn \in Slot \cup {0} :
           /\ First(s, HighIn(p..NPROC))
           /\ Pnormal(c, p..s, pn)
           /\ Dispatch(c, s)
           /\ pnormal' = [pnormal EXCEPT ![c] = pn]
           /\ nalta' = [nalta EXCEPT ![c] = TRUE]
           /\ UNCHANGED second
    ELSE \E pn \in Slot \cup {0} :
           /\ Pnormal(c, p..NPROC, pn)
           /\ IF ~n /\ pn # 0 THEN SecondLoop(c, pn, pn) ELSE PassEnds(c)

\* Variant of scheduler() that starts a new pass after every switch.
schedulerRestarts(c) ==
  /\ \/ ctx[c] = "top" /\ lock = 0 /\ FirstLoop(c, 1, FALSE)
     \/ ctx[c] = "back" /\ PassEnds(c)
  /\ UNCHANGED <<pid, parent, killed, prio, chan, ret, nextpid, threadVars, panicked>>

\* scheduler(): a new pass, or the current one after swtch() has returned.
scheduler(c) ==
  /\ \/ ctx[c] = "top" /\ lock = 0 /\ FirstLoop(c, 1, FALSE)
     \/ ctx[c] = "back" /\ ~second[c] /\ FirstLoop(c, cproc[c] + 1, nalta[c])
     \/ ctx[c] = "back" /\ second[c] /\ SecondLoop(c, cproc[c] + 1, pnormal[c])
  /\ UNCHANGED <<pid, parent, killed, prio, chan, ret, nextpid, threadVars, panicked>>

-----------------------------------------------------------------------------
\* What a process does of its own accord, or the hardware does to it.
UserStep(c, s) == SyscallEntry(c, s) \/ UserFault(c, s)

Preempt(c, s) == TickKills(c, s) \/ yield(c, s)

\* What the kernel does for a process.
KernelStep(c, s) ==
  \/ SyscallReturn(c, s) \/ Release(c, s)
  \/ allocproc(c, s) \/ TableFull(c, s) \/ ForkFails(c, s) \/ fork(c, s)
  \/ sys_exit(c, s) \/ ExitPanics(c, s)
  \/ \E status \in Status : exit(c, s, status)
  \/ wait(c, s)
  \/ sys_sleep(c, s) \/ sleep(c, s) \/ SleepReturns(c, s)
  \/ \E n \in KillPids : kill(c, s, n) \/ NoSuchPid(c, s, n)
  \/ \E pr \in Prios : BadPrio(c, s, pr) \/ \E n \in PrioPids : setprocprio(c, s, n, pr)

Next ==
  /\ ~panicked
  /\ \/ \E c \in CPU, s \in Slot : UserStep(c, s) \/ Preempt(c, s) \/ KernelStep(c, s)
     \/ \E c \in CPU : scheduler(c)
     \/ Tick

Spec == Init /\ [][Next]_vars

\* The kernel code of a process that has a CPU goes on, clock interrupts keep
\* coming, and a spinning acquire(&ptable.lock) does not lose every race.
\* Nothing makes a process enter the kernel.
Fairness ==
  /\ \A c \in CPU : SF_vars(scheduler(c))
  /\ \A s \in Slot :
       /\ WF_vars(\E c \in CPU : ~Running(c, s) /\ KernelStep(c, s))
       /\ SF_vars(\E c \in CPU : Running(c, s) /\ KernelStep(c, s))
       /\ SF_vars(\E c \in CPU : Preempt(c, s))
  /\ WF_vars(Tick)

FairSpec == Spec /\ Fairness

-----------------------------------------------------------------------------
(* Properties. *)

Live == {"SLEEPING", "RUNNABLE", "RUNNING"}

\* A process runs on one CPU at most, and a CPU is on the kernel stack of a
\* process that is not RUNNING only between sched() and the next switch, while
\* it holds ptable.lock (scheduler(), sched(), exit()).
OneCpu ==
  /\ \A c, d \in CPU : cproc[c] # 0 /\ cproc[c] = cproc[d] => c = d
  /\ \A c \in CPU : cproc[c] # 0 /\ state[cproc[c]] # "RUNNING" => lock = c
  /\ \A s \in Slot : state[s] = "RUNNING" => \E c \in CPU : cproc[c] = s /\ ctx[c] = "proc"

\* wait() never frees the kernel stack that a CPU is still using, and a slot
\* is never given out while a CPU is on it (exit(), wait(), allocproc()).
StackInUse ==
  \A c \in CPU : cproc[c] # 0 => state[cproc[c]] \notin {"UNUSED", "EMBRYO"}

\* A parent asleep in wait() has a child to wait for, none of its children is
\* a zombie, and it has not been killed: no exit(), reparenting or kill() goes
\* unnoticed.
NoLostExit ==
  \A s \in Slot :
    state[s] = "SLEEPING" /\ chan[s] = s =>
      ~killed[s] /\ Kids(s) # {} /\ \A t \in Kids(s) : state[t] # "ZOMBIE"

\* Every process but init has a parent that is alive, so that its exit can be
\* waited for; a slot that holds no process yet is nobody's child.
NoOrphan ==
  \A s \in Slot :
    IF state[s] \in {"UNUSED", "EMBRYO"} THEN parent[s] = 0
    ELSE s # initproc => parent[s] # 0 /\ state[parent[s]] \in Live

\* No two slots in use have the same pid.
UniquePids ==
  \A s, t \in Slot :
    state[s] # "UNUSED" /\ state[t] # "UNUSED" /\ pid[s] = pid[t] => s = t

\* When scheduler() enters its second loop it starts at a process that is
\* still runnable, although pnormal was read before other processes ran.
PnormalFresh ==
  [][\A c \in CPU : ~second[c] /\ second'[c] => cproc'[c] = pnormal'[c]]_vars

\* fork(), exit() and wait() implement the life cycle of ProcLife.
Holder(n, S) == {s \in Slot : pid[s] = n /\ state[s] \in S}
ThePid(n) == CHOOSE s \in Slot : s \in Holder(n, Live \cup {"ZOMBIE"})
life ==
  [n \in 1..MaxPid |->
     IF Holder(n, Live) # {} THEN "alive"
     ELSE IF Holder(n, {"ZOMBIE"}) # {} THEN "zombie"
     ELSE IF n >= nextpid \/ Holder(n, {"EMBRYO"}) # {} THEN "unborn"
     ELSE "gone"]
parentOf ==
  [n \in 1..MaxPid |->
     IF life[n] \in {"alive", "zombie"} /\ parent[ThePid(n)] # 0
       THEN pid[parent[ThePid(n)]] ELSE 0]
code ==
  [n \in 1..MaxPid |-> IF life[n] = "zombie" THEN ret[ThePid(n)] ELSE 0]

Life == INSTANCE ProcLife WITH Pid <- 1..MaxPid, ExitStatus <- Status

\* Every process is born once, to a living parent, exits once, and is reaped
\* once with the status it exited with, by its parent or, if that has exited,
\* by init; its pid never comes back.
LifeCycle == Life!Spec

\* What the comment on scheduler() says (proc.c:402-405): a process of normal
\* priority is only chosen when no process of high priority can run, because
\* the table is searched again after each one.
HighBeforeNormal ==
  [][\A c \in CPU :
       ctx[c] # "proc" /\ ctx'[c] = "proc" /\ prio[cproc'[c]] = NORMAL =>
         HighIn(Slot) = {}]_vars

\* What the comment on kill() says (proc.c:567), "Kill the process with the
\* given pid": a slot that holds no process is not marked, so that the process
\* allocproc() creates in it is not already killed.
BornUnkilled ==
  [][\A s \in Slot : state[s] = "UNUSED" /\ state'[s] = "EMBRYO" => ~killed'[s]]_vars

\* A killed process stops being alive, wherever it was when kill() marked it:
\* in user mode, runnable, in wait() or in sys_sleep().  The exit of init is a
\* panic.
KilledDies ==
  \A s \in Slot \ {initproc} :
    killed[s] /\ state[s] \in Live ~> state[s] \notin Live \/ panicked

\* A runnable process of high priority gets a CPU, whatever the others do.
HighRuns ==
  \A s \in Slot :
    state[s] = "RUNNABLE" /\ prio[s] = HIGH ~>
      state[s] = "RUNNING" \/ prio[s] # HIGH \/ panicked

\* Where no process has high priority, every runnable process gets a CPU.
RunnableRuns ==
  \A s \in Slot : state[s] = "RUNNABLE" ~> state[s] = "RUNNING" \/ panicked
=============================================================================
