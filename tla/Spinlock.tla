------------------------------ MODULE Spinlock ------------------------------
(***************************************************************************)
(* Spinlocks and interrupts (spinlock.c), and what sched() and scheduler() *)
(* do to them when a kernel thread leaves one CPU and goes on on another   *)
(* (proc.c).  A step is one access to shared memory, or a stretch of code  *)
(* that only touches the CPU it runs on, with interrupts off.              *)
(*                                                                         *)
(* A context is a kernel thread or the scheduler of a CPU, which has the   *)
(* name of the CPU.  Contexts take locks in the order of the kernel:       *)
(* ptable.lock is the last.                                                *)
(***************************************************************************)
EXTENDS Naturals, FiniteSets

CONSTANTS
  CPU, Thread,
  Lock,    \* the locks besides ptable.lock
  ptable,  \* ptable.lock
  None

SpinlockAssumption ==
  /\ CPU \cap Thread = {} /\ None \notin CPU
  /\ ptable \notin Lock

Context == Thread \cup CPU
Locks == Lock \cup {ptable}

VARIABLES
  locked, lkcpu,        \* lk->locked and lk->cpu
  ncli, intena, iflag,  \* of a CPU; iflag is FL_IF of its eflags
  cur,                  \* the context that a CPU runs
  pc, lk,               \* where a context is, and the lock it is busy with
  held,                 \* the locks a context has and must release
  intr,                 \* a context is inside an interrupt handler
  fresh,                \* a thread has not yet been in user mode
  saved,                \* the local intena of sched()
  panicked

lockVars == <<locked, lkcpu>>
cpuVars == <<ncli, intena, iflag, cur>>
ctxVars == <<pc, lk, held, intr, fresh, saved>>
vars == <<lockVars, cpuVars, ctxVars, panicked>>

\* mpmain(): every CPU enters scheduler() with interrupts off; the threads are
\* the children of forks ("new") and start in forkret().
Init ==
  /\ locked = [l \in Locks |-> FALSE]
  /\ lkcpu = [l \in Locks |-> None]
  /\ ncli = [c \in CPU |-> 0]
  /\ intena = [c \in CPU |-> FALSE]
  /\ iflag = [c \in CPU |-> FALSE]
  /\ cur = [c \in CPU |-> c]
  /\ pc = [x \in Context |-> IF x \in CPU THEN "run" ELSE "new"]
  /\ lk = [x \in Context |-> ptable]
  /\ held = [x \in Context |-> {}]
  /\ intr = [x \in Context |-> FALSE]
  /\ fresh = [t \in Thread |-> TRUE]
  /\ saved = [t \in Thread |-> FALSE]
  /\ panicked = FALSE

At(c, l) == pc[cur[c]] = l
Goto(c, l) == pc' = [pc EXCEPT ![cur[c]] = l]

\* holding(), on CPU c.
holding(c, l) == locked[l] /\ lkcpu[l] = c

-----------------------------------------------------------------------------
(* acquire() and release(). *)

\* pushcli(): the outermost one saves the flag.
pushcli(c) ==
  /\ iflag' = [iflag EXCEPT ![c] = FALSE]
  /\ intena' = [intena EXCEPT ![c] = IF ncli[c] = 0 THEN iflag[c] ELSE @]
  /\ ncli' = [ncli EXCEPT ![c] = @ + 1]

\* A context may take l next: the scheduler itself takes only ptable.lock.
MayAcquire(x, l) ==
  /\ held[x] \subseteq Lock /\ l \notin held[x]
  /\ l = ptable \/ held[x] = {}
  /\ x \in CPU /\ ~intr[x] => l = ptable

\* acquire() begins with pushcli().  scheduler() calls it after sti().
acquire(c, l) ==
  /\ At(c, "run") /\ MayAcquire(cur[c], l)
  /\ cur[c] = c /\ ~intr[c] => iflag[c]
  /\ pushcli(c)
  /\ lk' = [lk EXCEPT ![cur[c]] = l]
  /\ Goto(c, "pushed")
  /\ UNCHANGED <<lockVars, cur, held, intr, fresh, saved, panicked>>

\* if(holding(lk)) panic("acquire");
AcquireChecks(c) ==
  /\ At(c, "pushed")
  /\ panicked' = holding(c, lk[cur[c]])
  /\ Goto(c, "spin")
  /\ UNCHANGED <<lockVars, cpuVars, lk, held, intr, fresh, saved>>

\* Variant of the xchg that does not look at the old value.
Unlocked(c) == TRUE

\* xchg(&lk->locked, 1) finds 0.
Exchanged(c) == ~locked[lk[cur[c]]]

\* The xchg that ends the loop.
xchg(c) ==
  /\ At(c, "spin") /\ Exchanged(c)
  /\ locked' = [locked EXCEPT ![lk[cur[c]]] = TRUE]
  /\ Goto(c, "own")
  /\ UNCHANGED <<lkcpu, cpuVars, lk, held, intr, fresh, saved, panicked>>

\* Variant of acquire() that does not store the CPU.
OwnerUnset(c) == None

\* lk->cpu = mycpu();
Owner(c) == c

\* The end of acquire().
AcquireDone(c) ==
  /\ At(c, "own")
  /\ lkcpu' = [lkcpu EXCEPT ![lk[cur[c]]] = Owner(c)]
  /\ held' = [held EXCEPT ![cur[c]] = @ \cup {lk[cur[c]]}]
  /\ Goto(c, "run")
  /\ UNCHANGED <<locked, cpuVars, lk, intr, fresh, saved, panicked>>

\* release(): if(!holding(lk)) panic("release"); lk->cpu = 0;
release(c, l) ==
  /\ At(c, "run") /\ l \in held[cur[c]]
  /\ panicked' = ~holding(c, l)
  /\ lkcpu' = [lkcpu EXCEPT ![l] = None]
  /\ lk' = [lk EXCEPT ![cur[c]] = l]
  /\ Goto(c, "unlock")
  /\ UNCHANGED <<locked, cpuVars, held, intr, fresh, saved>>

\* movl $0, lk->locked
Unlock(c) ==
  /\ At(c, "unlock")
  /\ locked' = [locked EXCEPT ![lk[cur[c]]] = FALSE]
  /\ held' = [held EXCEPT ![cur[c]] = @ \ {lk[cur[c]]}]
  /\ Goto(c, "pop")
  /\ UNCHANGED <<lkcpu, cpuVars, lk, intr, fresh, saved, panicked>>

\* if(mycpu()->ncli == 0 && mycpu()->intena) sti();
Enable(c) == ncli[c] = 1 /\ intena[c]

\* The end of release().
popcli(c) ==
  /\ At(c, "pop")
  /\ panicked' = (iflag[c] \/ ncli[c] = 0)
  /\ ncli' = [ncli EXCEPT ![c] = IF @ = 0 THEN 0 ELSE @ - 1]
  /\ iflag' = [iflag EXCEPT ![c] = Enable(c) \/ @]
  /\ Goto(c, "run")
  /\ UNCHANGED <<lockVars, intena, cur, lk, held, intr, fresh, saved>>

-----------------------------------------------------------------------------
(* Interrupts, and the return to user mode. *)

\* An interrupt gate turns interrupts off.
Interrupt(c) ==
  /\ iflag[c] /\ ~intr[cur[c]]
  /\ iflag' = [iflag EXCEPT ![c] = FALSE]
  /\ intr' = [intr EXCEPT ![cur[c]] = TRUE]
  /\ UNCHANGED <<lockVars, ncli, intena, cur, pc, lk, held, fresh, saved, panicked>>

\* iret at the end of the handler restores the flags.
Iret(c) ==
  /\ At(c, "run") /\ intr[cur[c]] /\ held[cur[c]] = {}
  /\ iflag' = [iflag EXCEPT ![c] = TRUE]
  /\ intr' = [intr EXCEPT ![cur[c]] = FALSE]
  /\ UNCHANGED <<lockVars, ncli, intena, cur, pc, lk, held, fresh, saved, panicked>>

\* trapret after forkret(): the flags of user mode, with interrupts on.
ToUser(c) ==
  /\ At(c, "run") /\ cur[c] \in Thread /\ fresh[cur[c]] /\ ~intr[cur[c]] /\ held[cur[c]] = {}
  /\ iflag' = [iflag EXCEPT ![c] = TRUE]
  /\ fresh' = [fresh EXCEPT ![cur[c]] = FALSE]
  /\ UNCHANGED <<lockVars, ncli, intena, cur, pc, lk, held, intr, saved, panicked>>

-----------------------------------------------------------------------------
(* Switches.  The lock is handed from one context to the other. *)

Switch(c, x, y) ==
  /\ cur' = [cur EXCEPT ![c] = y]
  /\ pc' = [pc EXCEPT ![x] = "away", ![y] = "run"]
  /\ held' = [held EXCEPT ![x] = {}, ![y] = {ptable}]

\* sched(), called by sleep(), yield() and exit() with ptable.lock only.
sched(c) ==
  /\ At(c, "run") /\ cur[c] \in Thread /\ held[cur[c]] = {ptable}
  /\ panicked' = (~holding(c, ptable) \/ ncli[c] # 1 \/ iflag[c])
  /\ saved' = [saved EXCEPT ![cur[c]] = intena[c]]
  /\ Switch(c, cur[c], c)
  /\ UNCHANGED <<lockVars, ncli, intena, iflag, lk, intr, fresh>>

\* sti() at the start of the loop of scheduler().
sti(c) ==
  /\ cur[c] = c /\ At(c, "run") /\ held[c] = {} /\ ~intr[c]
  /\ iflag' = [iflag EXCEPT ![c] = TRUE]
  /\ UNCHANGED <<lockVars, ncli, intena, cur, ctxVars, panicked>>

\* The end of sched(); a new thread begins in forkret() instead.
Restored(c, t) == [intena EXCEPT ![c] = IF pc[t] = "new" THEN @ ELSE saved[t]]

\* scheduler() switches to a thread.
Dispatch(c, t) ==
  /\ cur[c] = c /\ At(c, "run") /\ held[c] = {ptable} /\ ~intr[c]
  /\ pc[t] \in {"new", "away"}
  /\ intena' = Restored(c, t)
  /\ Switch(c, c, t)
  /\ UNCHANGED <<lockVars, ncli, iflag, lk, intr, fresh, saved, panicked>>

Step(c) ==
  \/ \E l \in Locks : acquire(c, l) \/ release(c, l)
  \/ AcquireChecks(c) \/ xchg(c) \/ AcquireDone(c) \/ Unlock(c) \/ popcli(c)
  \/ Interrupt(c) \/ Iret(c) \/ ToUser(c)
  \/ sched(c) \/ sti(c) \/ \E t \in Thread : Dispatch(c, t)

Next == ~panicked /\ \E c \in CPU : Step(c)

Spec == Init /\ [][Next]_vars

-----------------------------------------------------------------------------
(* Properties. *)

\* The contexts that have executed the xchg of l and not yet the store.
Owners(l) == {x \in Context : l \in held[x] \/ (pc[x] = "own" /\ lk[x] = l)}

\* A lock has at most one owner, also across switches.
OneOwner == \A l \in Locks : Cardinality(Owners(l)) <= 1 /\ (locked[l] <=> Owners(l) # {})

\* A CPU takes no interrupt from pushcli() to the matching popcli(), so a
\* handler never waits for a lock of the context it interrupted.
InterruptsOff ==
  \A c \in CPU : iflag[c] => ncli[c] = 0 /\ held[cur[c]] = {} /\ pc[cur[c]] = "run"

\* A spinlock has one owner at most, and the CPU of the owner takes no interrupt
\* (acquire(), release(), pushcli(), popcli()).
MutualExclusion == OneOwner /\ InterruptsOff

\* None of the assertions of acquire(), release(), popcli(), sched() fails:
\* no CPU waits for a lock it has itself.
NoPanic == ~panicked

\* Once a thread has released its locks, interrupts are as they were when it
\* took the first, also when sched() moved it to another CPU; and no panic() of
\* acquire(), release(), popcli() or sched() is reached.
FlagRestored ==
  /\ NoPanic
  /\ \A c \in CPU :
       cur[c] \in Thread /\ ~fresh[cur[c]] /\ pc[cur[c]] = "run" /\ held[cur[c]] = {} =>
         iflag[c] = ~intr[cur[c]]
=============================================================================
