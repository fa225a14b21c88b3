------------------------------ MODULE ProcInv -------------------------------
(***************************************************************************)
(* The inductive invariant IInv of Proc, for any size of the process table *)
(* and any set of processors: the properties of Proc and what each of them *)
(* needs from the others.  Then the lemmas on what a step does to CPUs, to *)
(* ptable.lock and to the tree of processes, and the steps that do not     *)
(* touch another slot.                                                     *)
(***************************************************************************)
EXTENDS Proc, TLAPS

\* Who is on which CPU, and who has ptable.lock: a scheduler between two
\* switches, or a thread that has not yet left sched().
CpuInv ==
  /\ \A c \in CPU : ctx[c] = "top" <=> cproc[c] = 0
  /\ \A c, d \in CPU : cproc[c] # 0 /\ cproc[c] = cproc[d] => c = d
  /\ \A c \in CPU : lock = c <=> \/ ctx[c] = "back"
                                 \/ ctx[c] = "proc" /\ susp[cproc[c]] # "run"
  /\ \A c \in CPU : ctx[c] = "proc" => state[cproc[c]] = "RUNNING"
  /\ \A c \in CPU : ctx[c] = "back" => state[cproc[c]] \in {"RUNNABLE", "SLEEPING", "ZOMBIE"}
  /\ \A s \in Slot : state[s] = "RUNNING" => \E c \in CPU : ctx[c] = "proc" /\ cproc[c] = s

\* What a thread is doing, by the state of its process.
ThreadInv ==
  \A s \in Slot :
    /\ state[s] \in {"UNUSED", "EMBRYO", "ZOMBIE"} => susp[s] = "none"
    /\ state[s] = "RUNNABLE" => susp[s] \in {"forkret", "yield", "sleep", "wait"}
    /\ state[s] = "SLEEPING" => susp[s] \in {"sleep", "wait"}

\* fork() has an EMBRYO of its own.
ForkInv ==
  \A s \in Slot :
    pc[s] = "fork" =>
      /\ np[s] \in Slot /\ state[np[s]] = "EMBRYO"
      /\ \A t \in Slot : pc[t] = "fork" /\ np[t] = np[s] => s = t

\* The tree of processes: init is its root and never exits.
TreeInv ==
  /\ state[initproc] \in Live
  /\ parent[initproc] = 0
  /\ \A s \in Slot : parent[s] # s
  /\ NoOrphan

PidInv ==
  /\ \A s \in Slot : pid[s] < nextpid
  /\ UniquePids

\* The locals of scheduler().
SchedInv ==
  \A c \in CPU :
    /\ ctx[c] = "top" => pnormal[c] = 0 /\ ~second[c]
    /\ ctx[c] # "top" /\ ~second[c] => nalta[c]

IInv ==
  /\ TypeOK
  /\ CpuInv
  /\ ThreadInv
  /\ ForkInv
  /\ TreeInv
  /\ NoLostExit
  /\ PidInv
  /\ SchedInv

-----------------------------------------------------------------------------
(* How the steps move CPUs and ptable.lock. *)

\* A CPU that is not at the top of scheduler() is on the stack of a process.
LEMMA BusyCpu ==
  ASSUME TypeOK, CpuInv
  PROVE  \A d \in CPU : ctx[d] # "top" => cproc[d] \in Slot
BY DEF TypeOK, CpuInv

\* A step that leaves CPUs and lock alone and moves no process to or from a CPU.
LEMMA StayOnCpu ==
  ASSUME TypeOK, CpuInv,
         state' \in [Slot -> States], susp' \in [Slot -> Susps],
         UNCHANGED <<lock, ctx, cproc>>,
         \A t \in Slot : state[t] = "RUNNING" <=> state'[t] = "RUNNING",
         \A t \in Slot : state[t] = "RUNNING" => susp'[t] = susp[t],
         \A d \in CPU : ctx[d] = "back" => state'[cproc[d]] = state[cproc[d]]
  PROVE  CpuInv'
<1> USE ProcAssumption
<1>1. \A d \in CPU : ctx[d] # "top" => cproc[d] \in Slot
  BY DEF TypeOK, CpuInv, Slot
<1>2. \A d \in CPU : ctx[d] = "proc" => susp'[cproc[d]] = susp[cproc[d]]
  BY <1>1 DEF CpuInv
<1> QED  BY <1>1, <1>2 DEF CpuInv

\* sched(): s leaves CPU c, whose scheduler has the lock.
LEMMA LeaveCpu ==
  ASSUME TypeOK, CpuInv, NEW c \in CPU, NEW s \in Slot, NEW x \in Susps \ {"run"},
         ctx[c] = "proc", cproc[c] = s, lock \in {0, c},
         sched(c, s, x),
         state' \in [Slot -> States],
         state'[s] \in {"RUNNABLE", "SLEEPING", "ZOMBIE"},
         \A t \in Slot \ {s} : state[t] = "RUNNING" <=> state'[t] = "RUNNING"
  PROVE  CpuInv'
<1> USE ProcAssumption
<1>1. /\ lock' = c /\ cproc' = cproc
      /\ ctx' = [ctx EXCEPT ![c] = "back"]
      /\ susp' = [susp EXCEPT ![s] = x]
  BY DEF sched
<1>2. \A d \in CPU : ctx[d] # "top" => cproc[d] \in Slot
  BY DEF TypeOK, CpuInv, Slot
<1>3. \A d \in CPU \ {c} : cproc[d] # s
  BY DEF CpuInv, Slot
<1>4. \A d \in CPU \ {c} : lock # d /\ lock' # d
  BY <1>1
<1>5. \A d \in CPU \ {c} : ctx'[d] = ctx[d] /\ ctx[d] # "back"
  BY <1>1, <1>4 DEF CpuInv, TypeOK
<1>6. \A d \in CPU \ {c} : ctx[d] = "proc" => susp'[cproc[d]] = "run"
  BY <1>1, <1>2, <1>3, <1>4 DEF CpuInv, TypeOK
<1>7. ctx'[c] = "back"
  BY <1>1 DEF TypeOK
<1>8. \A d \in CPU : ctx'[d] = "top" <=> cproc'[d] = 0
  BY <1>1, <1>5, <1>7 DEF CpuInv, Slot
<1>9. \A d \in CPU : lock' = d <=> \/ ctx'[d] = "back"
                                   \/ ctx'[d] = "proc" /\ susp'[cproc'[d]] # "run"
  BY <1>1, <1>4, <1>5, <1>6, <1>7
<1>10. \A d \in CPU : ctx'[d] = "proc" => state'[cproc'[d]] = "RUNNING"
  BY <1>1, <1>2, <1>3, <1>5, <1>7 DEF CpuInv
<1>11. \A d \in CPU : ctx'[d] = "back" => state'[cproc'[d]] \in {"RUNNABLE", "SLEEPING", "ZOMBIE"}
  BY <1>1, <1>5, <1>7
<1>12. ASSUME NEW t \in Slot, state'[t] = "RUNNING"
       PROVE  \E d \in CPU : ctx'[d] = "proc" /\ cproc'[d] = t
  <2>1. t # s /\ state[t] = "RUNNING"
    BY <1>12
  <2>2. PICK d \in CPU : ctx[d] = "proc" /\ cproc[d] = t
    BY <2>1 DEF CpuInv
  <2> QED  BY <1>1, <1>5, <2>1, <2>2
<1> QED  BY <1>1, <1>8, <1>9, <1>10, <1>11, <1>12 DEF CpuInv

\* s, which has just been switched to or takes the lock, goes on without it.
LEMMA GoOn ==
  ASSUME TypeOK, CpuInv, NEW c \in CPU, NEW s \in Slot,
         ctx[c] = "proc", cproc[c] = s, lock \in {0, c}, lock' = 0,
         UNCHANGED <<ctx, cproc>>,
         susp' = [susp EXCEPT ![s] = "run"],
         state' \in [Slot -> States],
         \A t \in Slot : state[t] = "RUNNING" <=> state'[t] = "RUNNING"
  PROVE  CpuInv'
<1> USE ProcAssumption
<1>1. \A d \in CPU : ctx[d] # "top" => cproc[d] \in Slot
  BY DEF TypeOK, CpuInv, Slot
<1>2. \A d \in CPU \ {c} : lock # d /\ lock' # d /\ cproc[d] # s
  BY DEF CpuInv, Slot
<1>3. \A d \in CPU : ctx[d] # "back"
  BY <1>2 DEF CpuInv
<1>4. \A d \in CPU : ctx[d] = "proc" => susp'[cproc[d]] = "run"
  BY <1>1, <1>2 DEF CpuInv, TypeOK
<1> QED  BY <1>1, <1>2, <1>3, <1>4 DEF CpuInv

-----------------------------------------------------------------------------
(* What most steps leave alone. *)

\* Nobody starts a fork() and no EMBRYO changes.
LEMMA SameForks ==
  ASSUME ForkInv, np' = np,
         \A t \in Slot : pc'[t] = "fork" => pc[t] = "fork",
         \A t \in Slot : state[t] = "EMBRYO" => state'[t] = "EMBRYO"
  PROVE  ForkInv'
BY DEF ForkInv

\* The parents stay, and processes only move between the states of the living.
LEMMA SameTree ==
  ASSUME TypeOK, TreeInv, parent' = parent,
         \A t \in Slot : state'[t] = state[t] \/ (state[t] \in Live /\ state'[t] \in Live)
  PROVE  TreeInv'
<1>1. initproc \in Slot
  BY ProcAssumption DEF Slot, initproc
<1>2. \A t \in Slot : state[t] \in Live => state'[t] \in Live
  OBVIOUS
<1>3. NoOrphan'
  <2> SUFFICES ASSUME NEW t \in Slot
               PROVE  IF state'[t] \in {"UNUSED", "EMBRYO"} THEN parent[t] = 0
                      ELSE t # initproc => parent[t] # 0 /\ state'[parent[t]] \in Live
    BY DEF NoOrphan
  <2>1. state[t] \in {"UNUSED", "EMBRYO"} <=> state'[t] \in {"UNUSED", "EMBRYO"}
    BY DEF Live
  <2>2. parent[t] # 0 => parent[t] \in Slot
    BY DEF TypeOK
  <2> QED  BY <1>2, <2>1, <2>2 DEF TreeInv, NoOrphan
<1> QED  BY <1>1, <1>2, <1>3 DEF TreeInv

\* Nobody gets children or is killed in its sleep, and nobody starts to wait.
LEMMA SameWaits ==
  ASSUME NoLostExit, parent' = parent,
         \A t \in Slot : state'[t] = "SLEEPING" /\ chan'[t] = t =>
           state[t] = "SLEEPING" /\ chan[t] = t /\ killed'[t] = killed[t],
         \A t \in Slot : state'[t] = "ZOMBIE" => state[t] = "ZOMBIE"
  PROVE  NoLostExit'
<1>1. \A t \in Slot : Kids(t)' = Kids(t)
  BY DEF Kids
<1>2. \A t \in Slot : Kids(t) \subseteq Slot
  BY DEF Kids
<1> SUFFICES ASSUME NEW t \in Slot, state'[t] = "SLEEPING", chan'[t] = t
             PROVE  ~killed'[t] /\ Kids(t)' # {} /\ \A u \in Kids(t)' : state'[u] # "ZOMBIE"
  BY DEF NoLostExit
<1>3. ~killed[t] /\ Kids(t) # {} /\ \A u \in Kids(t) : state[u] # "ZOMBIE"
  BY DEF NoLostExit
<1> QED  BY <1>1, <1>2, <1>3

-----------------------------------------------------------------------------
(* The steps, one by one. *)

\* What the steps that only move the thread of s do.
QuietStep(s) ==
  /\ UNCHANGED <<state, pid, parent, chan, ret, nextpid, lock, susp, np, cpuVars>>
  /\ \E l \in Pcs \ {"fork"} : Goto(s, l)
  /\ killed' \in [Slot -> BOOLEAN]
  /\ \A t \in Slot : state[t] = "SLEEPING" => killed'[t] = killed[t]
  /\ prio' \in [Slot -> 0..2]
  /\ panicked' \in BOOLEAN

\* A step that only moves the thread of s keeps the invariant.
LEMMA QuietKeeps ==
  ASSUME IInv, NEW s \in Slot, QuietStep(s)
  PROVE  IInv'
<1> USE ProcAssumption DEF QuietStep, IInv, cpuVars
<1>1. TypeOK'
  <2>1. pc' \in [Slot -> Pcs]
    BY DEF TypeOK, Goto
  <2> QED  BY <2>1 DEF TypeOK
<1>2. CpuInv'
  BY DEF CpuInv
<1>3. ThreadInv'
  BY DEF ThreadInv
<1>4. ForkInv'
  BY DEF ForkInv, Goto, TypeOK
<1>5. TreeInv'
  BY DEF TreeInv, NoOrphan
<1>6. NoLostExit'
  BY DEF NoLostExit, Kids
<1>7. PidInv'
  BY DEF PidInv, UniquePids
<1>8. SchedInv'
  BY DEF SchedInv
<1> QED  BY <1>1, <1>2, <1>3, <1>4, <1>5, <1>6, <1>7, <1>8

\* A thread that executes on a CPU belongs to a RUNNING process.
LEMMA OnCpu ==
  ASSUME TypeOK, CpuInv, NEW c \in CPU, NEW s \in Slot, ctx[c] = "proc", cproc[c] = s
  PROVE  state[s] = "RUNNING"
BY DEF CpuInv

\* Traps, failed calls, sys_exit(), sys_sleep() and setprio() are such steps.
LEMMA QuietSteps ==
  ASSUME IInv, NEW c \in CPU, NEW s \in Slot,
         \/ SyscallEntry(c, s) \/ SyscallReturn(c, s) \/ TickKills(c, s)
         \/ UserFault(c, s) \/ TableFull(c, s) \/ sys_exit(c, s) \/ sys_sleep(c, s)
         \/ \E n \in KillPids : NoSuchPid(c, s, n)
         \/ \E pr \in Prios : BadPrio(c, s, pr)
         \/ \E n \in PrioPids, pr \in Prios : setprocprio(c, s, n, pr)
  PROVE  IInv'
<1> USE ProcAssumption DEF IInv, procVars, QuietStep, Pcs
<1>1. CASE SyscallEntry(c, s)
  BY <1>1, QuietKeeps DEF SyscallEntry, Goto, TypeOK
<1>2. CASE SyscallReturn(c, s)
  BY <1>2, QuietKeeps DEF SyscallReturn, Goto, TypeOK
<1>3. CASE TickKills(c, s)
  BY <1>3, QuietKeeps DEF TickKills, Goto, TypeOK
<1>4. CASE UserFault(c, s)
  <2>1. state[s] = "RUNNING"
    BY <1>4, OnCpu DEF UserFault, Running
  <2> QED  BY <1>4, <2>1, QuietKeeps, ZenonT(30) DEF UserFault, Goto, TypeOK
<1>5. CASE TableFull(c, s)
  BY <1>5, QuietKeeps DEF TableFull, Goto, TypeOK
<1>6. CASE sys_exit(c, s)
  BY <1>6, QuietKeeps DEF sys_exit, Goto, TypeOK
<1>7. CASE sys_sleep(c, s)
  BY <1>7, QuietKeeps, Zenon DEF sys_sleep, Goto, TypeOK
<1>8. ASSUME NEW n \in KillPids, NoSuchPid(c, s, n) PROVE IInv'
  BY <1>8, QuietKeeps DEF NoSuchPid, Goto, TypeOK
<1>9. ASSUME NEW pr \in Prios, BadPrio(c, s, pr) PROVE IInv'
  BY <1>9, QuietKeeps DEF BadPrio, Goto, TypeOK
<1>10. ASSUME NEW n \in PrioPids, NEW pr \in Prios, setprocprio(c, s, n, pr) PROVE IInv'
  <2>1. prio' \in [Slot -> 0..2]
    BY <1>10 DEF setprocprio, TypeOK
  <2> QED  BY <1>10, <2>1, QuietKeeps DEF setprocprio, Goto, TypeOK
<1> QED  BY <1>1, <1>2, <1>3, <1>4, <1>5, <1>6, <1>7, <1>8, <1>9, <1>10, SMTT(30)

\* The panic of exit() in initproc changes nothing else.
LEMMA ExitPanicsKeeps ==
  ASSUME IInv, NEW c \in CPU, NEW s \in Slot, ExitPanics(c, s)
  PROVE  IInv'
<1>1. /\ UNCHANGED <<state, pid, parent, killed, prio, chan, ret, nextpid, lock, pc, susp, np>>
      /\ UNCHANGED <<cproc, ctx, nalta, pnormal, second>>
      /\ panicked' = TRUE
  BY DEF ExitPanics, procVars, threadVars, cpuVars
<1>2. TypeOK'
  BY <1>1 DEF TypeOK, IInv
<1>a. CpuInv
  BY DEF IInv
<1>3. CpuInv'
  BY <1>a, <1>1 DEF CpuInv
<1>4. ThreadInv' /\ ForkInv' /\ SchedInv'
  BY <1>1 DEF ThreadInv, ForkInv, SchedInv, IInv
<1>5. TreeInv' /\ NoLostExit'
  BY <1>1, SMTT(30) DEF TreeInv, NoOrphan, NoLostExit, Kids, IInv
<1>6. PidInv'
  BY <1>1 DEF PidInv, UniquePids, IInv
<1> QED  BY <1>2, <1>3, <1>4, <1>5, <1>6 DEF IInv

\* yield() and sleep(): the process gives up the CPU, runnable or asleep on a
\* channel that is not its own.
LEMMA yieldKeeps ==
  ASSUME IInv, NEW c \in CPU, NEW s \in Slot, yield(c, s)
  PROVE  IInv'
<1> USE ProcAssumption DEF IInv, cpuVars
<1>1. state[s] = "RUNNING" /\ state' = [state EXCEPT ![s] = "RUNNABLE"]
  BY OnCpu DEF yield, Running
<1>2. state' \in [Slot -> States] /\ state'[s] = "RUNNABLE"
  BY <1>1 DEF TypeOK, States
<1>3. TypeOK'
  BY <1>2 DEF yield, sched, Goto, TypeOK, Pcs, Susps
<1>4. CpuInv'
  BY <1>1, <1>2, LeaveCpu DEF yield, Running, TypeOK, Susps
<1>5. ThreadInv'
  BY <1>1 DEF yield, sched, ThreadInv, TypeOK
<1>6. ForkInv'
  BY <1>1, SameForks DEF yield, Goto, TypeOK
<1>7. TreeInv'
  BY <1>1, SameTree DEF yield, Live, TypeOK
<1>8. NoLostExit'
  BY <1>1, SameWaits DEF yield, TypeOK
<1>9. PidInv'
  BY <1>1 DEF yield, PidInv, UniquePids, TypeOK
<1>10. SchedInv'
  BY SMTT(30) DEF yield, sched, Running, SchedInv, TypeOK
<1> QED  BY <1>3, <1>4, <1>5, <1>6, <1>7, <1>8, <1>9, <1>10, SMTT(30)

\* sleep(&ticks, ...): the process sleeps on a channel that is not its own.
LEMMA sleepKeeps ==
  ASSUME IInv, NEW c \in CPU, NEW s \in Slot, sleep(c, s)
  PROVE  IInv'
<1> USE ProcAssumption DEF IInv, cpuVars
<1>1. state[s] = "RUNNING" /\ state' = [state EXCEPT ![s] = "SLEEPING"]
  BY OnCpu DEF sleep, Running
<1>2. state' \in [Slot -> States] /\ state'[s] = "SLEEPING"
  BY <1>1 DEF TypeOK, States
<1>3. TypeOK'
  <2>1. chan' \in [Slot -> 0..NPROC + 1]
    BY DEF sleep, TypeOK, Ticks
  <2> QED  BY <1>2, <2>1 DEF sleep, sched, Goto, TypeOK, Pcs, Susps
<1>4. CpuInv'
  BY <1>1, <1>2, LeaveCpu DEF sleep, Running, TypeOK, Susps
<1>5. ThreadInv'
  BY <1>1 DEF sleep, sched, ThreadInv, TypeOK
<1>6. ForkInv'
  BY <1>1, SameForks DEF sleep, Goto, TypeOK
<1>7. TreeInv'
  BY <1>1, SameTree DEF sleep, Live, TypeOK
<1>8. NoLostExit'
  <2>1. chan'[s] # s /\ \A t \in Slot \ {s} : chan'[t] = chan[t]
    BY DEF sleep, Ticks, Slot, TypeOK
  <2> QED  BY <1>1, <2>1, SameWaits DEF sleep, TypeOK
<1>9. PidInv'
  BY <1>1 DEF sleep, PidInv, UniquePids, TypeOK
<1>10. SchedInv'
  BY DEF sleep, sched, Running, SchedInv, TypeOK
<1> QED  BY <1>3, <1>4, <1>5, <1>6, <1>7, <1>8, <1>9, <1>10, Zenon

\* wait() runs with ptable.lock held, or is about to take it.
LEMMA WaitingLock ==
  ASSUME TypeOK, CpuInv, NEW c \in CPU, NEW s \in Slot, Waiting(c, s)
  PROVE  ctx[c] = "proc" /\ cproc[c] = s /\ lock \in {0, c} /\ state[s] = "RUNNING"
<1>1. ctx[c] = "proc" /\ cproc[c] = s
  BY DEF Waiting, Running, Resumed
<1>2. lock = 0 \/ susp[s] = "wait"
  BY DEF Waiting, Resumed
<1>3. susp[s] = "wait" => lock = c
  BY <1>1, SMTT(60) DEF CpuInv
<1> QED  BY <1>1, <1>2, <1>3, OnCpu

\* wait() goes to sleep only after it has seen that no child is a zombie and
\* that it has not been killed, and ptable.lock is held from there to sched().
LEMMA WaitSleepsKeeps ==
  ASSUME IInv, NEW c \in CPU, NEW s \in Slot, WaitSleeps(c, s)
  PROVE  IInv'
<1> USE ProcAssumption DEF IInv, cpuVars
<1>1. ctx[c] = "proc" /\ cproc[c] = s /\ lock \in {0, c} /\ state[s] = "RUNNING"
  BY WaitingLock DEF WaitSleeps
<1>2. state[s] = "RUNNING" /\ state' = [state EXCEPT ![s] = "SLEEPING"]
  BY <1>1 DEF WaitSleeps
<1>3. state' \in [Slot -> States] /\ state'[s] = "SLEEPING"
  BY <1>2 DEF TypeOK, States
<1>4. TypeOK'
  <2>1. chan' \in [Slot -> 0..NPROC + 1]
    BY DEF WaitSleeps, TypeOK, Slot
  <2> QED  BY <1>3, <2>1 DEF WaitSleeps, sched, TypeOK, Susps
<1>5. CpuInv'
  BY <1>1, <1>2, <1>3, LeaveCpu DEF WaitSleeps, TypeOK, Susps
<1>6. ThreadInv'
  BY <1>2 DEF WaitSleeps, sched, ThreadInv, TypeOK
<1>7. ForkInv'
  BY <1>2, SameForks DEF WaitSleeps, TypeOK
<1>8. TreeInv'
  BY <1>2, SameTree DEF WaitSleeps, Live, TypeOK
<1>9. NoLostExit'
  <2>1. \A t \in Slot : Kids(t)' = Kids(t) /\ s \notin Kids(s)
    BY DEF WaitSleeps, Kids, TreeInv
  <2>2. ~killed'[s] /\ Kids(s)' # {} /\ \A t \in Kids(s)' : state'[t] # "ZOMBIE"
    BY <1>2, <2>1 DEF WaitSleeps, Zombies, Kids, TypeOK
  <2>3. \A t \in Slot \ {s} : chan'[t] = chan[t] /\ state'[t] = state[t] /\ killed'[t] = killed[t]
    BY <1>2 DEF WaitSleeps, TypeOK
  <2>4. ASSUME NEW t \in Slot \ {s}, state'[t] = "SLEEPING", chan'[t] = t
        PROVE  ~killed'[t] /\ Kids(t)' # {} /\ \A u \in Kids(t)' : state'[u] # "ZOMBIE"
    <3>1. ~killed[t] /\ Kids(t) # {} /\ \A u \in Kids(t) : state[u] # "ZOMBIE"
      BY <2>3, <2>4 DEF NoLostExit
    <3>2. \A u \in Kids(t) : state'[u] # "ZOMBIE"
      BY <1>3, <2>3, <3>1 DEF Kids
    <3> QED  BY <2>1, <2>3, <3>1, <3>2
  <2> QED  BY <2>2, <2>4 DEF NoLostExit
<1>10. PidInv'
  BY <1>2 DEF WaitSleeps, PidInv, UniquePids, TypeOK
<1>11. SchedInv'
  BY <1>1 DEF WaitSleeps, sched, SchedInv, TypeOK
<1> QED  BY <1>4, <1>5, <1>6, <1>7, <1>8, <1>9, <1>10, <1>11, Zenon

\* Steps that end with the thread running without the lock.
LEMMA ReleaseKeeps ==
  ASSUME IInv, NEW c \in CPU, NEW s \in Slot, Release(c, s) \/ SleepReturns(c, s)
  PROVE  IInv'
<1> USE ProcAssumption DEF IInv, procVars, cpuVars
<1>1. ctx[c] = "proc" /\ cproc[c] = s /\ lock \in {0, c}
  BY DEF Release, SleepReturns, Resumed, CpuInv
<1>2. /\ UNCHANGED <<state, pid, parent, killed, prio, ret, nextpid, pc, np, cproc, ctx, nalta, pnormal, second, panicked>>
      /\ chan' = chan \/ chan' = [chan EXCEPT ![s] = 0]
      /\ lock' = 0 /\ susp' = [susp EXCEPT ![s] = "run"]
  BY DEF Release, SleepReturns
<1>3. state[s] = "RUNNING"
  BY <1>1, OnCpu
<1>4. TypeOK'
  <2>1. chan' \in [Slot -> 0..NPROC + 1]
    BY <1>2 DEF TypeOK
  <2>2. susp' \in [Slot -> Susps]
    BY <1>2 DEF TypeOK, Susps
  <2> QED  BY <1>2, <2>1, <2>2 DEF TypeOK
<1>5. CpuInv'
  BY <1>1, <1>2, GoOn DEF TypeOK
<1>6. ThreadInv'
  BY <1>2, <1>3 DEF ThreadInv, TypeOK
<1>7. ForkInv' /\ SchedInv'
  BY <1>2 DEF ForkInv, SchedInv
<1>8. TreeInv'
  BY <1>2 DEF TreeInv, NoOrphan
<1>9. NoLostExit'
  <2>1. \A t \in Slot \ {s} : chan'[t] = chan[t]
    BY <1>2, SMTT(30) DEF TypeOK
  <2> QED  BY <1>2, <1>3, <2>1, SameWaits
<1>10. PidInv'
  BY <1>2 DEF PidInv, UniquePids
<1> QED  BY <1>4, <1>5, <1>6, <1>7, <1>8, <1>9, <1>10

\* wait() returns -1: nothing but the thread moves.
LEMMA WaitFailsKeeps ==
  ASSUME IInv, NEW c \in CPU, NEW s \in Slot, WaitFails(c, s)
  PROVE  IInv'
<1> USE ProcAssumption DEF IInv, cpuVars, WaitFails, WaitReturns
<1>1. ctx[c] = "proc" /\ cproc[c] = s /\ lock \in {0, c}
  BY WaitingLock
<1>2. state[s] = "RUNNING"
  BY WaitingLock, SMTT(30)
<1>3. TypeOK'
  <2>1. chan' \in [Slot -> 0..NPROC + 1]
    BY DEF TypeOK
  <2>2. susp' \in [Slot -> Susps] /\ pc' \in [Slot -> Pcs]
    BY DEF TypeOK, Susps, Pcs, Goto
  <2> QED  BY <2>1, <2>2 DEF TypeOK
<1>4. CpuInv'
  BY <1>1, GoOn DEF TypeOK
<1>5. ThreadInv'
  BY <1>2 DEF ThreadInv, TypeOK
<1>6. ForkInv' /\ SchedInv'
  <2>1. ForkInv'
    BY SMTT(30) DEF ForkInv, Goto, TypeOK
  <2>2. SchedInv'
    BY SMTT(30) DEF SchedInv, Goto, TypeOK
  <2> QED  BY <2>1, <2>2
<1>7. TreeInv'
  BY DEF TreeInv, NoOrphan
<1>8. NoLostExit'
  <2>1. \A t \in Slot \ {s} : chan'[t] = chan[t]
    BY SMTT(30) DEF TypeOK
  <2> QED  BY <1>2, <2>1, SameWaits
<1>9. PidInv'
  BY DEF PidInv, UniquePids
<1> QED  BY <1>3, <1>4, <1>5, <1>6, <1>7, <1>8, <1>9, SMTT(30)

\* wait() frees a zombie, which has no children and is on no CPU.
LEMMA WaitReapsKeeps ==
  ASSUME IInv, NEW c \in CPU, NEW s \in Slot, WaitReaps(c, s)
  PROVE  IInv'
<1> USE ProcAssumption DEF IInv, cpuVars
<1>1. ctx[c] = "proc" /\ cproc[c] = s /\ lock \in {0, c}
  BY WaitingLock DEF WaitReaps
<1>2. state[s] = "RUNNING"
  BY WaitingLock DEF WaitReaps
<1>3. PICK p \in Slot :
        /\ parent[p] = s /\ state[p] = "ZOMBIE"
        /\ pid' = [pid EXCEPT ![p] = 0]
        /\ parent' = [parent EXCEPT ![p] = 0]
        /\ killed' = [killed EXCEPT ![p] = FALSE]
        /\ state' = [state EXCEPT ![p] = "UNUSED"]
  BY DEF WaitReaps, First, Zombies, Kids
<1>4. WaitReturns(s)
  BY DEF WaitReaps
<1>5. TypeOK'
  <2>1. chan' \in [Slot -> 0..NPROC + 1]
    BY <1>4 DEF TypeOK, WaitReturns
  <2>2. susp' \in [Slot -> Susps] /\ pc' \in [Slot -> Pcs]
    BY <1>4 DEF TypeOK, Susps, Pcs, Goto, WaitReturns
  <2>3. state' \in [Slot -> States] /\ parent' \in [Slot -> Slot \cup {0}]
    BY <1>3, SMTT(30) DEF TypeOK, States
  <2> QED  BY <1>3, <1>4, <2>1, <2>2, <2>3 DEF TypeOK, WaitReturns
<1>6. CpuInv'
  BY <1>1, <1>3, <1>4, GoOn DEF TypeOK, States, WaitReturns
<1>7. ThreadInv'
  BY <1>2, <1>3, <1>4 DEF ThreadInv, TypeOK, WaitReturns
<1>8. ForkInv' /\ SchedInv'
  <2>1. ForkInv'
    BY <1>3, <1>4, SMTT(30) DEF ForkInv, Goto, TypeOK, WaitReturns
  <2>2. SchedInv'
    BY <1>3, <1>4, SMTT(30) DEF SchedInv, Goto, TypeOK, WaitReturns
  <2> QED  BY <2>1, <2>2
<1>9. TreeInv'
  <2>1. \A t \in Slot : parent[t] # p
    BY <1>3 DEF TreeInv, NoOrphan, Live, Slot, initproc
  <2>2. \A t \in Slot \ {p} : parent'[t] = parent[t] /\ state'[t] = state[t]
    BY <1>3 DEF TypeOK
  <2>3. parent'[p] = 0 /\ state'[p] = "UNUSED" /\ initproc \in Slot /\ initproc # p
    BY <1>3, SMTT(30) DEF TypeOK, TreeInv, Live, Slot, initproc
  <2>4. NoOrphan'
    BY <2>1, <2>2, <2>3 DEF TreeInv, NoOrphan, TypeOK
  <2> QED  BY <2>1, <2>2, <2>3, <2>4 DEF TreeInv, Slot
<1>10. NoLostExit'
  <2>1. \A t \in Slot \ {s} : Kids(t)' = Kids(t)
    BY <1>3 DEF Kids, TypeOK, Slot
  <2>2. \A t \in Slot \ {s} : chan'[t] = chan[t]
    BY <1>4 DEF WaitReturns, TypeOK
  <2>3. state'[s] = "RUNNING"
    BY <1>2, <1>3 DEF TypeOK
  <2> QED  BY <1>3, <2>1, <2>2, <2>3 DEF NoLostExit, Kids, TypeOK
<1>11. PidInv'
  <2>1. nextpid' = nextpid /\ pid \in [Slot -> Nat] /\ nextpid \in Nat
    BY <1>4 DEF WaitReturns, TypeOK
  <2>2. \A t \in Slot : pid'[t] < nextpid'
    BY <1>3, <2>1 DEF PidInv
  <2>3. UniquePids'
    BY <1>3, <2>1 DEF PidInv, UniquePids, TypeOK
  <2> QED  BY <2>2, <2>3 DEF PidInv
<1> QED  BY <1>5, <1>6, <1>7, <1>8, <1>9, <1>10, <1>11
=============================================================================
