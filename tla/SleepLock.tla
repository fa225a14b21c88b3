----------------------------- MODULE SleepLock -----------------------------
(***************************************************************************)
(* A sleep-lock (sleeplock.c) over the spinlock lk->lk and ptable.lock,    *)
(* with the steps of sleep() and wakeup() (proc.c) at which another        *)
(* process can come in between.                                            *)
(***************************************************************************)
EXTENDS Naturals, FiniteSets

CONSTANTS Proc, None

SleepLockAssumption == None \notin Proc

VARIABLES
  locked, pid,  \* of the sleep-lock
  lk, ptable,   \* the processes that hold lk->lk and ptable.lock, or None
  pc

vars == <<locked, pid, lk, ptable, pc>>

\* initsleeplock()
Init ==
  /\ locked = FALSE /\ pid = None
  /\ lk = None /\ ptable = None
  /\ pc = [p \in Proc |-> "user"]

Goto(p, from, to) == pc[p] = from /\ pc' = [pc EXCEPT ![p] = to]

-----------------------------------------------------------------------------
(* acquiresleep() *)

acquiresleep(p) ==
  /\ Goto(p, "user", "acquire")
  /\ UNCHANGED <<locked, pid, lk, ptable>>

\* acquire(&lk->lk), at the start and at the end of sleep().
AcquireLk(p) ==
  /\ Goto(p, "acquire", "test")
  /\ lk = None /\ lk' = p
  /\ UNCHANGED <<locked, pid, ptable>>

\* Variant of acquiresleep() that does not look at lk->locked.
MustSleepNever == FALSE

\* while (lk->locked)
MustSleep == locked

\* Variant of sleep() that releases lk->lk before it takes ptable.lock.
TestLockedReleases(p) ==
  /\ Goto(p, "test", "sleep")
  /\ MustSleep
  /\ lk' = None
  /\ UNCHANGED <<locked, pid, ptable>>

\* The loop goes round once more.
TestLocked(p) ==
  /\ Goto(p, "test", "sleep")
  /\ MustSleep
  /\ UNCHANGED <<locked, pid, lk, ptable>>

\* lk->pid = myproc()->pid
OwnerPid(p) == p

\* The loop ends: lk->locked = 1, lk->pid = myproc()->pid, release(&lk->lk).
TestFree(p) ==
  /\ Goto(p, "test", "critical")
  /\ ~MustSleep
  /\ locked' = TRUE /\ pid' = OwnerPid(p) /\ lk' = None
  /\ UNCHANGED ptable

\* sleep(): acquire(&ptable.lock)
SleepLocks(p) ==
  /\ Goto(p, "sleep", "unlock")
  /\ ptable = None /\ ptable' = p
  /\ UNCHANGED <<locked, pid, lk>>

\* sleep(): release(lk)
SleepReleases(p) ==
  /\ Goto(p, "unlock", "sched")
  /\ lk' = None
  /\ UNCHANGED <<locked, pid, ptable>>

\* sleep(): p->state = SLEEPING, and the scheduler releases ptable.lock.
Sched(p) ==
  /\ Goto(p, "sched", "asleep")
  /\ ptable' = None
  /\ UNCHANGED <<locked, pid, lk>>

\* The scheduler runs the process again: sleep() releases ptable.lock.
Resume(p) ==
  /\ Goto(p, "woken", "acquire")
  /\ ptable = None
  /\ UNCHANGED <<locked, pid, lk, ptable>>

\* kill() of a sleeper makes it runnable; the loop of acquiresleep() ignores
\* p->killed.
kill(p) ==
  /\ Goto(p, "asleep", "woken")
  /\ ptable = None
  /\ UNCHANGED <<locked, pid, lk, ptable>>

-----------------------------------------------------------------------------
(* releasesleep() *)

releasesleep(p) ==
  /\ Goto(p, "critical", "release")
  /\ UNCHANGED <<locked, pid, lk, ptable>>

\* acquire(&lk->lk)
ReleaseLocks(p) ==
  /\ Goto(p, "release", "clear")
  /\ lk = None /\ lk' = p
  /\ UNCHANGED <<locked, pid, ptable>>

\* lk->pid = 0
ClearedPid == None

\* lk->locked = 0, lk->pid = 0
Clear(p) ==
  /\ Goto(p, "clear", "wakeup")
  /\ locked' = FALSE /\ pid' = ClearedPid
  /\ UNCHANGED <<lk, ptable>>

\* wakeup(lk) makes every sleeper on the lock runnable.
Awakened(q) == IF pc[q] = "asleep" THEN "woken" ELSE pc[q]

\* wakeup(lk), all of it under ptable.lock, and release(&lk->lk).
Wakeup(p) ==
  /\ pc[p] = "wakeup" /\ ptable = None
  /\ pc' = [q \in Proc |-> IF q = p THEN "user" ELSE Awakened(q)]
  /\ lk' = None
  /\ UNCHANGED <<locked, pid, ptable>>

Step(p) ==
  \/ AcquireLk(p) \/ TestLocked(p) \/ TestFree(p)
  \/ SleepLocks(p) \/ SleepReleases(p) \/ Sched(p) \/ Resume(p)
  \/ releasesleep(p) \/ ReleaseLocks(p) \/ Clear(p) \/ Wakeup(p)

Next == \E p \in Proc : acquiresleep(p) \/ kill(p) \/ Step(p)

Spec == Init /\ [][Next]_vars

\* Every process is scheduled again and again, and a spinlock is not kept from
\* one process for ever.
LiveSpec == Spec /\ \A p \in Proc : SF_vars(Step(p))

-----------------------------------------------------------------------------
(* Properties. *)

\* The processes between the end of acquiresleep() and the clearing of
\* lk->locked by releasesleep().
Holders == {p \in Proc : pc[p] \in {"critical", "release", "clear"}}

\* At most one process has the sleep-lock, and lk->locked says whether one has.
MutualExclusion == Cardinality(Holders) <= 1 /\ (locked <=> Holders # {})

\* holdingsleep(), which takes lk->lk, is true for the process that has the
\* lock and for no other.
HoldingExact == lk = None => \A p \in Proc : (locked /\ pid = p) <=> p \in Holders

\* One process at most has the lock, lk->locked says whether one has it and
\* holdingsleep() which one (acquiresleep(), releasesleep()).
LockExact == MutualExclusion /\ HoldingExact

\* A process that sleeps on the lock is woken: sleep() releases lk->lk after it
\* has ptable.lock, so no wakeup() of releasesleep() gets in between.
Woken == \A p \in Proc : pc[p] = "asleep" ~> pc[p] # "asleep"
=============================================================================
