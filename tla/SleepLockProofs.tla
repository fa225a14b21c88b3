--------------------------- MODULE SleepLockProofs ---------------------------
(***************************************************************************)
(* The safety of sleep-locks, for every set of processes.                  *)
(***************************************************************************)
EXTENDS SleepLock, FiniteSetTheorems, TLAPS

Pcs == {"user", "acquire", "test", "sleep", "unlock", "sched", "asleep", "woken",
        "critical", "release", "clear", "wakeup"}

TypeOK ==
  /\ locked \in BOOLEAN /\ pid \in Proc \cup {None}
  /\ lk \in Proc \cup {None} /\ ptable \in Proc \cup {None}
  /\ pc \in [Proc -> Pcs]

\* Who is between acquire() and release() of the two spinlocks.
Spins ==
  \A p \in Proc :
    /\ pc[p] \in {"test", "sleep", "unlock", "clear", "wakeup"} <=> lk = p
    /\ pc[p] \in {"unlock", "sched"} <=> ptable = p

\* lk->locked and lk->pid name the process that has the lock.
Owner ==
  /\ locked => pid \in Proc
  /\ \A p \in Proc : p \in Holders <=> locked /\ pid = p

\* No sleeper is forgotten: the lock is held, and will be released, or a
\* wakeup() is about to come that finds everyone who sleeps or is in sleep()
\* (sleep() and releasesleep() take ptable.lock and lk->lk in an order that
\* leaves no gap).
NotForgotten ==
  \A p \in Proc : pc[p] = "asleep" => locked \/ \E q \in Proc : pc[q] = "wakeup"

\* The same for a process on its way into sleep().
Falling ==
  /\ \A p \in Proc : pc[p] \in {"sleep", "unlock"} => locked
  /\ \A p \in Proc : pc[p] = "sched" => locked \/ \E q \in Proc : pc[q] = "wakeup"

IInv == TypeOK /\ Spins /\ Owner /\ NotForgotten /\ Falling

-----------------------------------------------------------------------------
LEMMA Starts ==
  ASSUME SleepLockAssumption, Init
  PROVE  IInv
<1> USE DEF SleepLockAssumption, Init
<1>1. TypeOK
  BY DEF TypeOK, Pcs
<1>2. \A p \in Proc : pc[p] = "user"
  OBVIOUS
<1>3. ~locked
  OBVIOUS
<1>4. Spins
  BY <1>2 DEF Spins
<1>5. Owner
  BY <1>2, <1>3, Zenon DEF Owner, Holders
<1>6. NotForgotten /\ Falling
  BY <1>2 DEF NotForgotten, Falling
<1> QED  BY <1>1, <1>4, <1>5, <1>6 DEF IInv

LEMMA TypeKept ==
  ASSUME TypeOK, [Next]_vars
  PROVE  TypeOK'
<1> USE DEF TypeOK, Pcs, Goto
<1>1. ASSUME NEW p \in Proc, acquiresleep(p) \/ kill(p) \/ AcquireLk(p) \/ TestLocked(p) \/ TestFree(p)
      PROVE  TypeOK'
  <2>1. locked' = locked \/ locked' = TRUE
    BY <1>1, Zenon DEF acquiresleep, kill, AcquireLk, TestLocked, TestFree
  <2>2. /\ pid' \in Proc \cup {None} /\ lk' \in Proc \cup {None}
        /\ ptable' \in Proc \cup {None} /\ pc' \in [Proc -> Pcs]
    BY <1>1, SMTT(30) DEF acquiresleep, kill, AcquireLk, TestLocked, TestFree, OwnerPid
  <2> QED  BY <2>1, <2>2
<1>2. ASSUME NEW p \in Proc, SleepLocks(p) \/ SleepReleases(p) \/ Sched(p) \/ Resume(p)
      PROVE  TypeOK'
  BY <1>2, SMTT(30) DEF SleepLocks, SleepReleases, Sched, Resume
<1>3. ASSUME NEW p \in Proc, releasesleep(p) \/ ReleaseLocks(p) \/ Clear(p) \/ Wakeup(p)
      PROVE  TypeOK'
  <2>1. locked' = locked \/ locked' = FALSE
    BY <1>3, Zenon DEF releasesleep, ReleaseLocks, Clear, Wakeup
  <2>2. /\ pid' \in Proc \cup {None} /\ lk' \in Proc \cup {None}
        /\ ptable' \in Proc \cup {None} /\ pc' \in [Proc -> Pcs]
    BY <1>3, SMTT(30) DEF releasesleep, ReleaseLocks, Clear, Wakeup, ClearedPid, Awakened
  <2> QED  BY <2>1, <2>2
<1>4. CASE UNCHANGED vars
  BY <1>4 DEF vars
<1> QED  BY <1>1, <1>2, <1>3, <1>4 DEF Next, Step

\* One step of p: where it was, where it is, and that others stay.
LEMMA Kept ==
  ASSUME SleepLockAssumption, IInv, [Next]_vars
  PROVE  IInv'
<1> USE DEF IInv, SleepLockAssumption, Holders
<1>0. TypeOK'
  BY TypeKept
<1> USE <1>0 DEF TypeOK, Spins, Owner, NotForgotten, Falling
<1>1. ASSUME NEW p \in Proc, acquiresleep(p)  PROVE IInv'
  BY <1>1, SMTT(30) DEF acquiresleep, Goto
<1>2. ASSUME NEW p \in Proc, kill(p)  PROVE IInv'
  BY <1>2, SMTT(30) DEF kill, Goto
<1>3. ASSUME NEW p \in Proc, AcquireLk(p)  PROVE IInv'
  BY <1>3, SMTT(30) DEF AcquireLk, Goto
<1>4. ASSUME NEW p \in Proc, TestLocked(p)  PROVE IInv'
  BY <1>4, SMTT(30) DEF TestLocked, MustSleep, Goto
<1>5. ASSUME NEW p \in Proc, TestFree(p)  PROVE IInv'
  BY <1>5, SMTT(30) DEF TestFree, MustSleep, OwnerPid, Goto
<1>6. ASSUME NEW p \in Proc, SleepLocks(p)  PROVE IInv'
  BY <1>6, SMTT(30) DEF SleepLocks, Goto
<1>7. ASSUME NEW p \in Proc, SleepReleases(p)  PROVE IInv'
  BY <1>7, SMTT(30) DEF SleepReleases, Goto
<1>8. ASSUME NEW p \in Proc, Sched(p)  PROVE IInv'
  BY <1>8, SMTT(30) DEF Sched, Goto
<1>9. ASSUME NEW p \in Proc, Resume(p)  PROVE IInv'
  BY <1>9, SMTT(30) DEF Resume, Goto
<1>10. ASSUME NEW p \in Proc, releasesleep(p)  PROVE IInv'
  BY <1>10, SMTT(30) DEF releasesleep, Goto
<1>11. ASSUME NEW p \in Proc, ReleaseLocks(p)  PROVE IInv'
  BY <1>11, SMTT(30) DEF ReleaseLocks, Goto
<1>12. ASSUME NEW p \in Proc, Clear(p)  PROVE IInv'
  BY <1>12, SMTT(30) DEF Clear, ClearedPid, Goto
<1>13. ASSUME NEW p \in Proc, Wakeup(p)  PROVE IInv'
  BY <1>13, SMTT(30) DEF Wakeup, Awakened
<1>14. CASE UNCHANGED vars
  BY <1>14, SMTT(30) DEF vars
<1> QED
  BY <1>1, <1>2, <1>3, <1>4, <1>5, <1>6, <1>7, <1>8, <1>9, <1>10, <1>11, <1>12, <1>13, <1>14
     DEF Next, Step

LEMMA Inductive == ASSUME SleepLockAssumption PROVE Spec => []IInv
<1>1. Init => IInv
  BY Starts
<1>2. IInv /\ [Next]_vars => IInv'
  BY Kept
<1> QED  BY <1>1, <1>2, PTL DEF Spec

-----------------------------------------------------------------------------
\* At most one process is between acquiresleep() and releasesleep(), lk->locked
\* says whether one is, and holdingsleep() is true for that one alone.
THEOREM LockExactHolds ==
  ASSUME SleepLockAssumption PROVE Spec => []LockExact
<1>1. IInv => LockExact
  <2> SUFFICES ASSUME IInv
               PROVE  LockExact
    OBVIOUS
  <2>1. locked => Holders = {pid}
    BY DEF IInv, Owner, Holders
  <2>2. ~locked => Holders = {}
    BY DEF IInv, Owner, Holders
  <2>3. Cardinality(Holders) <= 1
    <3>1. Cardinality({}) <= 1 /\ Cardinality({pid}) <= 1
      BY FS_EmptySet, FS_Singleton
    <3> QED  BY <2>1, <2>2, <3>1, Zenon
  <2>4. MutualExclusion
    <3>1. {pid} # {}
      OBVIOUS
    <3> QED  BY <2>1, <2>2, <2>3, <3>1, Zenon DEF MutualExclusion
  <2>5. HoldingExact
    BY Zenon DEF HoldingExact, IInv, Owner
  <2> QED  BY <2>4, <2>5 DEF LockExact
<1> QED  BY <1>1, Inductive, PTL

\* A process sleeps in acquiresleep() only while the lock is held or the
\* wakeup() of releasesleep() is still to come: no wakeup is lost.
THEOREM NotForgottenHolds ==
  ASSUME SleepLockAssumption PROVE Spec => []NotForgotten
<1>1. IInv => NotForgotten
  BY DEF IInv
<1> QED  BY <1>1, Inductive, PTL
=============================================================================
