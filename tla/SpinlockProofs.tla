--------------------------- MODULE SpinlockProofs ---------------------------
(***************************************************************************)
(* Mutual exclusion and the interrupt flag under spinlocks, for every set  *)
(* of CPUs, threads and locks.  The inductive invariant says where every   *)
(* context is, which CPU a lock that is held names, and what ncli and      *)
(* intena stand for in each of the places of acquire() and release().      *)
(***************************************************************************)
EXTENDS Spinlock, FiniteSetTheorems, TLAPS

Places == {"new", "away", "run", "pushed", "spin", "own", "unlock", "pop"}

TypeOK ==
  /\ locked \in [Locks -> BOOLEAN]
  /\ lkcpu \in [Locks -> CPU \cup {None}]
  /\ ncli \in [CPU -> Nat]
  /\ intena \in [CPU -> BOOLEAN]
  /\ iflag \in [CPU -> BOOLEAN]
  /\ cur \in [CPU -> Context]
  /\ pc \in [Context -> Places]
  /\ lk \in [Context -> Locks]
  /\ held \in [Context -> SUBSET Locks]
  /\ intr \in [Context -> BOOLEAN]
  /\ fresh \in [Thread -> BOOLEAN]
  /\ saved \in [Thread -> BOOLEAN]
  /\ panicked \in BOOLEAN

\* A context that no CPU runs.
Off(x) == pc[x] \in {"new", "away"}

\* A CPU runs its scheduler or a thread, and a context runs on one CPU.
Running ==
  /\ \A c \in CPU : cur[c] \in Thread \cup {c} /\ ~Off(cur[c])
  /\ \A x \in Context : ~Off(x) => \E c \in CPU : cur[c] = x
  /\ \A c, d \in CPU : cur[c] = cur[d] => c = d

\* The locks of a context: none when it does not run; the one it acquires comes
\* after those it has, and the one it releases is one of them.
Ordered ==
  \A x \in Context :
    /\ Off(x) => held[x] = {}
    /\ \A l, m \in held[x] \cap Lock : l = m
    /\ pc[x] \in {"pushed", "spin", "own"} =>
         held[x] \subseteq Lock /\ lk[x] \notin held[x] /\ (lk[x] = ptable \/ held[x] = {})
    /\ pc[x] = "unlock" => lk[x] \in held[x]

\* x has executed the xchg of l and not yet the store that frees it.
Owns(x, l) == l \in held[x] \/ (pc[x] = "own" /\ lk[x] = l)

\* A lock is locked when a context owns it, and one context at most does.
Exclusive ==
  \A l \in Locks :
    /\ locked[l] => \E x \in Context : Owns(x, l)
    /\ \A x \in Context : Owns(x, l) => locked[l]
    /\ \A x, y \in Context : Owns(x, l) /\ Owns(y, l) => x = y

\* lk->cpu is the CPU that runs the holder, from the end of acquire() to the
\* start of release(): holding() tells the truth.
Named ==
  \A c \in CPU, l \in Locks :
    lkcpu[l] = c <=> l \in held[cur[c]] /\ ~(pc[cur[c]] = "unlock" /\ lk[cur[c]] = l)

\* How many locks there are in a set that respects the order.
Count(S) == (IF ptable \in S THEN 1 ELSE 0) + (IF S \cap Lock = {} THEN 0 ELSE 1)

\* A pushcli() of a lock that is not held yet, or not any more.
Busy(x) == pc[x] \in {"pushed", "spin", "own", "pop"}

\* ncli is the number of locks of the running context, and of the one it is
\* about to have or has just released.
Nested == \A c \in CPU : ncli[c] = Count(held[cur[c]]) + (IF Busy(cur[c]) THEN 1 ELSE 0)

\* With interrupts on the CPU is outside every pushcli().
Quiet == \A c \in CPU : iflag[c] => held[cur[c]] = {} /\ pc[cur[c]] = "run"

\* What the interrupt flag is, will be after the last popcli(), or will be on
\* the CPU that resumes the thread.
Flag ==
  /\ \A c \in CPU : cur[c] \in Thread =>
       (~fresh[cur[c]] => (IF ncli[c] = 0 THEN iflag[c] ELSE intena[c]) = ~intr[cur[c]])
  /\ \A t \in Thread : pc[t] = "new" => fresh[t]
  /\ \A t \in Thread : pc[t] = "away" /\ ~fresh[t] => saved[t] = ~intr[t]

IInv ==
  TypeOK /\ Running /\ Ordered /\ Exclusive /\ Named /\ Nested /\ Quiet /\ Flag /\ ~panicked

-----------------------------------------------------------------------------
(* Counting locks. *)

LEMMA CountNone == ASSUME SpinlockAssumption PROVE Count({}) = 0 /\ Count({ptable}) = 1
  BY DEF Count, SpinlockAssumption

LEMMA CountZero ==
  ASSUME NEW S \in SUBSET Locks
  PROVE  Count(S) \in Nat /\ (Count(S) = 0 => S = {})
  BY DEF Count, Locks

\* acquire() of a lock that comes after those in S.
LEMMA CountMore ==
  ASSUME SpinlockAssumption, NEW S \in SUBSET Lock, NEW l \in Locks, l \notin S, l = ptable \/ S = {}
  PROVE  Count(S \cup {l}) = Count(S) + 1
<1>1. CASE l = ptable
  <2>1. ptable \notin S /\ (S \cup {l}) \cap Lock = S \cap Lock
    BY <1>1 DEF SpinlockAssumption
  <2> QED  BY <1>1, <2>1 DEF Count
<1>2. CASE l # ptable
  <2>1. S = {} /\ ptable \notin S \cup {l} /\ (S \cup {l}) \cap Lock # {}
    BY <1>2 DEF Locks
  <2> QED  BY <2>1 DEF Count
<1> QED  BY <1>1, <1>2

\* release() of one of the locks.
LEMMA CountLess ==
  ASSUME SpinlockAssumption, NEW S \in SUBSET Locks, NEW l \in S,
         \A k, m \in S \cap Lock : k = m
  PROVE  Count(S \ {l}) + 1 = Count(S)
<1>1. CASE l = ptable
  <2>1. (S \ {l}) \cap Lock = S \cap Lock
    BY <1>1 DEF SpinlockAssumption
  <2> QED  BY <1>1, <2>1 DEF Count
<1>2. CASE l # ptable
  <2>1. (S \ {l}) \cap Lock = {} /\ S \cap Lock # {}
    BY <1>2 DEF Locks
  <2>2. ptable \in S \ {l} <=> ptable \in S
    BY <1>2
  <2> QED  BY <2>1, <2>2 DEF Count
<1> QED  BY <1>1, <1>2

-----------------------------------------------------------------------------
(* What a step of the context x that runs on CPU c leaves alone: the other     *)
(* CPUs, and the contexts on them.                                             *)

LEMMA NestedKept ==
  ASSUME IInv, NEW c \in CPU, NEW x \in Context, x = cur[c], cur' = cur,
         \A y \in Context \ {x} : pc'[y] = pc[y] /\ held'[y] = held[y],
         \A d \in CPU \ {c} : ncli'[d] = ncli[d],
         ncli'[c] = Count(held'[x]) + (IF pc'[x] \in {"pushed", "spin", "own", "pop"} THEN 1 ELSE 0)
  PROVE  Nested'
<1> SUFFICES ASSUME NEW d \in CPU
             PROVE  ncli'[d] = Count(held'[cur[d]])
                                 + (IF pc'[cur[d]] \in {"pushed", "spin", "own", "pop"} THEN 1 ELSE 0)
  BY DEF Nested, Busy, Count
<1>1. CASE d = c
  BY <1>1
<1>2. CASE d # c
  <2>1. cur[d] \in Context \ {x}
    BY <1>2 DEF IInv, TypeOK, Running
  <2>2. pc'[cur[d]] = pc[cur[d]] /\ held'[cur[d]] = held[cur[d]] /\ ncli'[d] = ncli[d]
    BY <1>2, <2>1
  <2> QED  BY <2>2 DEF IInv, Nested, Busy
<1> QED  BY <1>1, <1>2

LEMMA FlagKept ==
  ASSUME IInv, NEW c \in CPU, NEW x \in Context, x = cur[c], cur' = cur, saved' = saved,
         \A y \in Context \ {x} : pc'[y] = pc[y] /\ intr'[y] = intr[y],
         \A t \in Thread \ {x} : fresh'[t] = fresh[t],
         pc'[x] \notin {"new", "away"},
         \A d \in CPU \ {c} : ncli'[d] = ncli[d] /\ iflag'[d] = iflag[d] /\ intena'[d] = intena[d],
         x \in Thread /\ ~fresh'[x] => (IF ncli'[c] = 0 THEN iflag'[c] ELSE intena'[c]) = ~intr'[x]
  PROVE  Flag'
<1>1. ASSUME NEW d \in CPU, cur[d] \in Thread, ~fresh'[cur[d]]
      PROVE  (IF ncli'[d] = 0 THEN iflag'[d] ELSE intena'[d]) = ~intr'[cur[d]]
  <2>1. CASE d = c
    BY <1>1, <2>1
  <2>2. CASE d # c
    <3>1. cur[d] \in Context \ {x}
      BY <2>2 DEF IInv, TypeOK, Running
    <3>2. /\ intr'[cur[d]] = intr[cur[d]] /\ fresh'[cur[d]] = fresh[cur[d]]
          /\ ncli'[d] = ncli[d] /\ iflag'[d] = iflag[d] /\ intena'[d] = intena[d]
      BY <1>1, <2>2, <3>1
    <3>3. (IF ncli[d] = 0 THEN iflag[d] ELSE intena[d]) = ~intr[cur[d]]
      BY <1>1, <3>2, Zenon DEF IInv, Flag
    <3> QED  BY <3>2, <3>3, Zenon
  <2> QED  BY <2>1, <2>2
<1>2. ASSUME NEW t \in Thread, pc'[t] \in {"new", "away"}
      PROVE  pc'[t] = pc[t] /\ intr'[t] = intr[t] /\ fresh'[t] = fresh[t]
  <2>1. t # x /\ t \in Context
    BY <1>2 DEF Context
  <2> QED  BY <2>1
<1>3. \A t \in Thread : pc'[t] = "new" => fresh'[t]
  <2> SUFFICES ASSUME NEW t \in Thread, pc'[t] = "new"
               PROVE  fresh'[t]
    OBVIOUS
  <2>1. pc'[t] = pc[t] /\ fresh'[t] = fresh[t]
    BY <1>2, Zenon
  <2> QED  BY <2>1, Zenon DEF IInv, Flag
<1>4. \A t \in Thread : pc'[t] = "away" /\ ~fresh'[t] => saved'[t] = ~intr'[t]
  <2> SUFFICES ASSUME NEW t \in Thread, pc'[t] = "away", ~fresh'[t]
               PROVE  saved'[t] = ~intr'[t]
    OBVIOUS
  <2>1. pc'[t] = pc[t] /\ intr'[t] = intr[t] /\ fresh'[t] = fresh[t]
    BY <1>2, Zenon
  <2>2. saved[t] = ~intr[t]
    BY <2>1, Zenon DEF IInv, Flag
  <2> QED  BY <2>1, <2>2, Zenon
<1> QED  BY <1>1, <1>3, <1>4, Zenon DEF Flag

\* A step inside acquire() or release() that leaves the CPU alone.
LEMMA CpuKept ==
  ASSUME IInv, NEW c \in CPU, NEW x \in Context, x = cur[c], UNCHANGED cpuVars,
         UNCHANGED <<saved, intr, fresh>>,
         pc[x] \in {"pushed", "spin", "own", "unlock", "pop"} \/ held[x] # {},
         pc'[x] \notin {"new", "away"}, \A y \in Context \ {x} : pc'[y] = pc[y] /\ held'[y] = held[y]
  PROVE  Running' /\ Quiet' /\ Flag'
<1>1. Running'
  BY SMTT(30) DEF IInv, TypeOK, Running, Off, cpuVars
<1>2. Quiet'
  BY SMTT(30) DEF IInv, TypeOK, Running, Quiet, cpuVars
<1>3. x \in Thread /\ ~fresh[x] => (IF ncli[c] = 0 THEN iflag[c] ELSE intena[c]) = ~intr[x]
  BY Zenon DEF IInv, Flag
<1>4. Flag'
  <2>1. cur' = cur /\ saved' = saved /\ ncli' = ncli /\ iflag' = iflag /\ intena' = intena /\ intr' = intr /\ fresh' = fresh
    BY DEF cpuVars
  <2>2. \A y \in Context \ {x} : pc'[y] = pc[y] /\ intr'[y] = intr[y]
    BY <2>1
  <2>3. \A d \in CPU \ {c} : ncli'[d] = ncli[d] /\ iflag'[d] = iflag[d] /\ intena'[d] = intena[d]
    BY <2>1
  <2>4. x \in Thread /\ ~fresh'[x] => (IF ncli'[c] = 0 THEN iflag'[c] ELSE intena'[c]) = ~intr'[x]
    BY <1>3, <2>1, Zenon
  <2>5. \A t \in Thread \ {x} : fresh'[t] = fresh[t]
    BY <2>1
  <2>6. IInv /\ cur' = cur /\ saved' = saved /\ pc'[x] \notin {"new", "away"}
    BY <2>1
  <2> QED  BY <2>2, <2>3, <2>4, <2>5, <2>6, FlagKept
<1> QED  BY <1>1, <1>2, <1>4

-----------------------------------------------------------------------------
(* The steps of acquire(). *)

LEMMA Starts == ASSUME SpinlockAssumption, Init PROVE IInv
<1>1. TypeOK
  <2>1. /\ cur \in [CPU -> Context] /\ lk \in [Context -> Locks]
        /\ pc \in [Context -> Places] /\ held \in [Context -> SUBSET Locks]
    BY DEF Init, Context, Locks, Places
  <2>2. /\ locked \in [Locks -> BOOLEAN] /\ lkcpu \in [Locks -> CPU \cup {None}]
        /\ ncli \in [CPU -> Nat] /\ intena \in [CPU -> BOOLEAN] /\ iflag \in [CPU -> BOOLEAN]
    BY DEF Init
  <2>3. /\ intr \in [Context -> BOOLEAN] /\ fresh \in [Thread -> BOOLEAN]
        /\ saved \in [Thread -> BOOLEAN] /\ panicked \in BOOLEAN
    BY DEF Init
  <2> QED  BY <2>1, <2>2, <2>3 DEF TypeOK
<1>2. Running
  BY SMTT(30) DEF Init, Running, Off, SpinlockAssumption, Context
<1>3. Ordered
  BY SMTT(30) DEF Init, Ordered, Off
<1>4. Exclusive
  BY SMTT(30) DEF Init, Exclusive, Owns
<1>5. Named
  BY SMTT(30) DEF Init, Named, SpinlockAssumption, Context
<1>6. Nested
  <2> SUFFICES ASSUME NEW c \in CPU
               PROVE  ncli[c] = Count(held[cur[c]]) + (IF Busy(cur[c]) THEN 1 ELSE 0)
    BY DEF Nested
  <2>1. ncli[c] = 0 /\ cur[c] = c /\ held[cur[c]] = {} /\ ~Busy(cur[c])
    BY DEF Init, Busy, Context
  <2> QED  BY <2>1, CountNone
<1>7. Quiet /\ ~panicked
  BY DEF Init, Quiet
<1>8. Flag
  BY SMTT(30) DEF Init, Flag, SpinlockAssumption, Context
<1> QED  BY <1>1, <1>2, <1>3, <1>4, <1>5, <1>6, <1>7, <1>8 DEF IInv

LEMMA AcquireKeeps ==
  ASSUME SpinlockAssumption, IInv, NEW c \in CPU, NEW l \in Locks, acquire(c, l)
  PROVE  IInv'
<1> DEFINE x == cur[c]
<1>0. /\ x \in Context /\ pc[x] = "run"
      /\ pc' = [pc EXCEPT ![x] = "pushed"] /\ lk' = [lk EXCEPT ![x] = l]
      /\ MayAcquire(x, l)
      /\ UNCHANGED <<locked, lkcpu, cur, held, intr, fresh, saved, panicked>>
  BY DEF IInv, TypeOK, acquire, At, Goto, lockVars
<1>1. TypeOK'
  BY <1>0, SMTT(30) DEF IInv, TypeOK, acquire, pushcli, Places
<1>2. Running'
  BY <1>0, SMTT(30) DEF IInv, TypeOK, Running, Off
<1>3. Ordered'
  BY <1>0, SMTT(30) DEF IInv, TypeOK, Ordered, Off, MayAcquire
<1>4. Exclusive'
  BY <1>0, SMTT(30) DEF IInv, TypeOK, Exclusive, Owns
<1>5. Named'
  BY <1>0, SMTT(30) DEF IInv, TypeOK, Running, Named
<1>6. Nested'
  <2>1. ncli'[c] = ncli[c] + 1 /\ ~Busy(x) /\ Count(held[x]) \in Nat
    BY <1>0, CountZero DEF IInv, TypeOK, acquire, pushcli, Busy
  <2>2. ncli'[c] = Count(held'[x]) + (IF pc'[x] \in {"pushed", "spin", "own", "pop"} THEN 1 ELSE 0)
    BY <1>0, <2>1 DEF IInv, TypeOK, Nested
  <2>3. \A d \in CPU \ {c} : ncli'[d] = ncli[d]
    BY DEF IInv, TypeOK, acquire, pushcli
  <2>4. \A y \in Context \ {x} : pc'[y] = pc[y] /\ held'[y] = held[y]
    BY <1>0 DEF IInv, TypeOK
  <2>5. x \in Context /\ cur' = cur
    BY <1>0
  <2> QED  BY <2>2, <2>3, <2>4, <2>5, NestedKept, Zenon
<1>7. Quiet'
  BY <1>0, SMTT(30) DEF IInv, TypeOK, Running, Quiet, acquire, pushcli
<1>8. Flag'
  <2>1. x \in Thread /\ ~fresh[x] => (IF ncli[c] = 0 THEN iflag[c] ELSE intena[c]) = ~intr[x]
    BY Zenon DEF IInv, Flag
  <2>2. ncli'[c] # 0 /\ intena'[c] = (IF ncli[c] = 0 THEN iflag[c] ELSE intena[c])
    BY DEF IInv, TypeOK, acquire, pushcli
  <2>3. x \in Thread /\ ~fresh'[x] => (IF ncli'[c] = 0 THEN iflag'[c] ELSE intena'[c]) = ~intr'[x]
    BY <1>0, <2>1, <2>2, Zenon
  <2>4. \A d \in CPU \ {c} : ncli'[d] = ncli[d] /\ iflag'[d] = iflag[d] /\ intena'[d] = intena[d]
    BY DEF IInv, TypeOK, acquire, pushcli
  <2>5. pc'[x] \notin {"new", "away"} /\ \A y \in Context \ {x} : pc'[y] = pc[y] /\ intr'[y] = intr[y]
    BY <1>0 DEF IInv, TypeOK
  <2>6. x \in Context /\ cur' = cur /\ saved' = saved /\ fresh' = fresh
    BY <1>0
  <2> QED  BY <2>3, <2>4, <2>5, <2>6, FlagKept, Zenon
<1> QED  BY <1>0, <1>1, <1>2, <1>3, <1>4, <1>5, <1>6, <1>7, <1>8 DEF IInv

LEMMA AcquireChecksKeeps ==
  ASSUME SpinlockAssumption, IInv, NEW c \in CPU, AcquireChecks(c)
  PROVE  IInv'
<1> DEFINE x == cur[c]
<1>0. /\ x \in Context /\ pc[x] = "pushed" /\ pc' = [pc EXCEPT ![x] = "spin"]
      /\ panicked' = holding(c, lk[x])
      /\ UNCHANGED <<locked, lkcpu, lk, held, intr, fresh, saved>> /\ UNCHANGED cpuVars
  BY DEF IInv, TypeOK, AcquireChecks, At, Goto, lockVars
<1>1. panicked' = FALSE
  <2>1. lk[x] \notin held[x] /\ lk[x] \in Locks
    BY <1>0 DEF IInv, TypeOK, Ordered
  <2>2. lkcpu[lk[x]] # c
    BY <2>1 DEF IInv, Named
  <2> QED  BY <1>0, <2>2, Zenon DEF holding
<1>2. TypeOK'
  <2>1. panicked' \in BOOLEAN
    BY <1>1
  <2>2. pc' \in [Context -> Places]
    BY <1>0 DEF IInv, TypeOK, Places
  <2> QED  BY <1>0, <2>1, <2>2 DEF IInv, TypeOK, cpuVars
<1>3. Ordered'
  BY <1>0, SMTT(30) DEF IInv, TypeOK, Ordered, Off
<1>4. Exclusive'
  BY <1>0, SMTT(30) DEF IInv, TypeOK, Exclusive, Owns
<1>5. Named'
  BY <1>0, SMTT(30) DEF IInv, TypeOK, Running, Named, cpuVars
<1>6. pc'[x] \notin {"new", "away"} /\ \A y \in Context \ {x} : pc'[y] = pc[y] /\ held'[y] = held[y]
  BY <1>0 DEF IInv, TypeOK
<1>7. Nested'
  <2>1. ncli'[c] = Count(held'[x]) + (IF pc'[x] \in {"pushed", "spin", "own", "pop"} THEN 1 ELSE 0)
    BY <1>0 DEF IInv, TypeOK, Nested, Busy, cpuVars
  <2>4. x \in Context /\ cur' = cur /\ \A d \in CPU \ {c} : ncli'[d] = ncli[d]
    BY <1>0 DEF cpuVars
  <2> QED  BY <1>6, <2>1, <2>4, NestedKept, Zenon
<1>8. Running' /\ Quiet' /\ Flag'
  BY <1>0, <1>6, CpuKept
<1> QED  BY <1>1, <1>2, <1>3, <1>4, <1>5, <1>7, <1>8 DEF IInv

LEMMA XchgKeeps ==
  ASSUME SpinlockAssumption, IInv, NEW c \in CPU, xchg(c)
  PROVE  IInv'
<1> DEFINE x == cur[c]
<1>0. /\ x \in Context /\ pc[x] = "spin" /\ pc' = [pc EXCEPT ![x] = "own"]
      /\ ~locked[lk[x]] /\ locked' = [locked EXCEPT ![lk[x]] = TRUE]
      /\ UNCHANGED <<lkcpu, lk, held, intr, fresh, saved, panicked>> /\ UNCHANGED cpuVars
  BY DEF IInv, TypeOK, xchg, Exchanged, At, Goto, lockVars
<1>2. TypeOK'
  BY <1>0, SMTT(30) DEF IInv, TypeOK, Places, cpuVars
<1>3. Ordered'
  BY <1>0, SMTT(30) DEF IInv, TypeOK, Ordered, Off
<1>4. Exclusive'
  <2> SUFFICES ASSUME NEW l \in Locks
               PROVE  /\ locked'[l] => \E y \in Context : Owns(y, l)'
                      /\ \A y \in Context : Owns(y, l)' => locked'[l]
                      /\ \A y, z \in Context : Owns(y, l)' /\ Owns(z, l)' => y = z
    BY DEF Exclusive
  <2>1. CASE l = lk[x]
    <3>1. \A y \in Context : Owns(y, l)' <=> y = x
      BY <1>0, <2>1 DEF IInv, TypeOK, Exclusive, Owns, Ordered
    <3> QED  BY <1>0, <2>1, <3>1 DEF IInv, TypeOK
  <2>2. CASE l # lk[x]
    <3>1. \A y \in Context : Owns(y, l)' <=> Owns(y, l)
      BY <1>0, <2>2 DEF IInv, TypeOK, Owns
    <3>2. locked'[l] = locked[l]
      BY <1>0, <2>2 DEF IInv, TypeOK
    <3> QED  BY <3>1, <3>2, Zenon DEF IInv, Exclusive
  <2> QED  BY <2>1, <2>2
<1>5. Named'
  BY <1>0, SMTT(30) DEF IInv, TypeOK, Running, Named, cpuVars
<1>6. pc'[x] \notin {"new", "away"} /\ \A y \in Context \ {x} : pc'[y] = pc[y] /\ held'[y] = held[y]
  BY <1>0 DEF IInv, TypeOK
<1>7. Nested'
  <2>1. ncli'[c] = Count(held'[x]) + (IF pc'[x] \in {"pushed", "spin", "own", "pop"} THEN 1 ELSE 0)
    BY <1>0 DEF IInv, TypeOK, Nested, Busy, cpuVars
  <2>4. x \in Context /\ cur' = cur /\ \A d \in CPU \ {c} : ncli'[d] = ncli[d]
    BY <1>0 DEF cpuVars
  <2> QED  BY <1>6, <2>1, <2>4, NestedKept, Zenon
<1>8. Running' /\ Quiet' /\ Flag'
  BY <1>0, <1>6, CpuKept
<1> QED  BY <1>0, <1>2, <1>3, <1>4, <1>5, <1>7, <1>8 DEF IInv

LEMMA AcquireDoneKeeps ==
  ASSUME SpinlockAssumption, IInv, NEW c \in CPU, AcquireDone(c)
  PROVE  IInv'
<1> DEFINE x == cur[c]
<1>0. /\ x \in Context /\ pc[x] = "own" /\ pc' = [pc EXCEPT ![x] = "run"]
      /\ lkcpu' = [lkcpu EXCEPT ![lk[x]] = c]
      /\ held' = [held EXCEPT ![x] = held[x] \cup {lk[x]}]
      /\ UNCHANGED <<locked, lk, intr, fresh, saved, panicked>> /\ UNCHANGED cpuVars
  BY DEF IInv, TypeOK, AcquireDone, Owner, At, Goto
<1>1. lk[x] \in Locks /\ held[x] \in SUBSET Lock /\ lk[x] \notin held[x] /\ (lk[x] = ptable \/ held[x] = {})
  BY <1>0 DEF IInv, TypeOK, Ordered
<1>2. TypeOK'
  BY <1>0, SMTT(30) DEF IInv, TypeOK, Places, cpuVars
<1>3. Ordered'
  BY <1>0, <1>1, SMTT(30) DEF IInv, TypeOK, Ordered, Off, SpinlockAssumption
<1>4. Exclusive'
  <2>1. \A l \in Locks, y \in Context : Owns(y, l)' <=> Owns(y, l)
    BY <1>0, <1>1, SMTT(30) DEF IInv, TypeOK, Owns
  <2> QED  BY <1>0, <2>1, Zenon DEF IInv, Exclusive
<1>5. Named'
  <2> SUFFICES ASSUME NEW d \in CPU, NEW l \in Locks
               PROVE  lkcpu'[l] = d <=>
                        l \in held'[cur[d]] /\ ~(pc'[cur[d]] = "unlock" /\ lk[cur[d]] = l)
    BY <1>0 DEF Named, cpuVars
  <2>1. Owns(x, lk[x])
    BY <1>0 DEF Owns
  <2>2. \A y \in Context : lk[x] \in held[y] => y = x
    BY <1>0, <1>1, <2>1 DEF IInv, Exclusive, Owns
  <2>3. CASE d = c
    BY <1>0, <1>1, <2>3, SMTT(30) DEF IInv, TypeOK, Named
  <2>4. CASE d # c
    <3>1. cur[d] \in Context /\ cur[d] # x
      BY <2>4 DEF IInv, TypeOK, Running
    <3> QED  BY <1>0, <1>1, <2>2, <2>4, <3>1, SMTT(30) DEF IInv, TypeOK, Named
  <2> QED  BY <2>3, <2>4
<1>6. pc'[x] \notin {"new", "away"} /\ \A y \in Context \ {x} : pc'[y] = pc[y] /\ held'[y] = held[y]
  BY <1>0 DEF IInv, TypeOK
<1>7. Nested'
  <2>1. ncli[c] = Count(held[x]) + 1
    BY <1>0 DEF IInv, TypeOK, Nested, Busy, cpuVars
  <2>2. Count(held'[x]) = Count(held[x]) + 1 /\ Count(held'[x]) \in Nat
    BY <1>0, <1>1, <1>2, CountMore, CountZero DEF TypeOK, IInv
  <2>3. ncli'[c] = Count(held'[x]) + (IF pc'[x] \in {"pushed", "spin", "own", "pop"} THEN 1 ELSE 0)
    BY <1>0, <2>1, <2>2 DEF IInv, TypeOK, cpuVars
  <2>4. x \in Context /\ cur' = cur /\ \A d \in CPU \ {c} : ncli'[d] = ncli[d]
    BY <1>0 DEF cpuVars
  <2> QED  BY <1>6, <2>3, <2>4, NestedKept, Zenon
<1>8. Running' /\ Quiet' /\ Flag'
  BY <1>0, <1>6, CpuKept
<1> QED  BY <1>0, <1>2, <1>3, <1>4, <1>5, <1>7, <1>8 DEF IInv

-----------------------------------------------------------------------------
(* The steps of release(). *)

LEMMA ReleaseKeeps ==
  ASSUME SpinlockAssumption, IInv, NEW c \in CPU, NEW l \in Locks, release(c, l)
  PROVE  IInv'
<1> DEFINE x == cur[c]
<1>0. /\ x \in Context /\ pc[x] = "run" /\ pc' = [pc EXCEPT ![x] = "unlock"]
      /\ l \in held[x] /\ lkcpu' = [lkcpu EXCEPT ![l] = None] /\ lk' = [lk EXCEPT ![x] = l]
      /\ panicked' = ~holding(c, l)
      /\ UNCHANGED <<locked, held, intr, fresh, saved>> /\ UNCHANGED cpuVars
  BY DEF IInv, TypeOK, release, At, Goto
<1>1. panicked' = FALSE
  <2>1. lkcpu[l] = c
    BY <1>0 DEF IInv, Named
  <2>2. locked[l]
    BY <1>0 DEF IInv, Exclusive, Owns
  <2> QED  BY <1>0, <2>1, <2>2, Zenon DEF holding
<1>2. TypeOK'
  <2>1. panicked' \in BOOLEAN
    BY <1>1
  <2>2. pc' \in [Context -> Places] /\ lkcpu' \in [Locks -> CPU \cup {None}] /\ lk' \in [Context -> Locks]
    BY <1>0 DEF IInv, TypeOK, Places
  <2> QED  BY <1>0, <2>1, <2>2 DEF IInv, TypeOK, cpuVars
<1>3. Ordered'
  BY <1>0, SMTT(30) DEF IInv, TypeOK, Ordered, Off
<1>4. Exclusive'
  <2>1. \A k \in Locks, y \in Context : Owns(y, k)' <=> Owns(y, k)
    BY <1>0, SMTT(30) DEF IInv, TypeOK, Owns
  <2> QED  BY <1>0, <2>1, Zenon DEF IInv, Exclusive
<1>5. Named'
  <2> SUFFICES ASSUME NEW d \in CPU, NEW k \in Locks
               PROVE  lkcpu'[k] = d <=>
                        k \in held[cur[d]] /\ ~(pc'[cur[d]] = "unlock" /\ lk'[cur[d]] = k)
    BY <1>0 DEF Named, cpuVars
  <2>1. \A y \in Context : l \in held[y] => y = x
    BY <1>0 DEF IInv, Exclusive, Owns
  <2>2. CASE d = c
    BY <1>0, <2>2, SMTT(30) DEF IInv, TypeOK, Named, SpinlockAssumption
  <2>3. CASE d # c
    <3>1. cur[d] \in Context /\ cur[d] # x
      BY <2>3 DEF IInv, TypeOK, Running
    <3> QED  BY <1>0, <2>1, <2>3, <3>1, SMTT(30) DEF IInv, TypeOK, Named, SpinlockAssumption
  <2> QED  BY <2>2, <2>3
<1>6. pc'[x] \notin {"new", "away"} /\ \A y \in Context \ {x} : pc'[y] = pc[y] /\ held'[y] = held[y]
  BY <1>0 DEF IInv, TypeOK
<1>7. Nested'
  <2>1. ncli'[c] = Count(held'[x]) + (IF pc'[x] \in {"pushed", "spin", "own", "pop"} THEN 1 ELSE 0)
    BY <1>0 DEF IInv, TypeOK, Nested, Busy, cpuVars
  <2>4. x \in Context /\ cur' = cur /\ \A d \in CPU \ {c} : ncli'[d] = ncli[d]
    BY <1>0 DEF cpuVars
  <2> QED  BY <1>6, <2>1, <2>4, NestedKept, Zenon
<1>8. Running' /\ Quiet' /\ Flag'
  BY <1>0, <1>6, CpuKept
<1> QED  BY <1>1, <1>2, <1>3, <1>4, <1>5, <1>7, <1>8 DEF IInv

LEMMA UnlockKeeps ==
  ASSUME SpinlockAssumption, IInv, NEW c \in CPU, Unlock(c)
  PROVE  IInv'
<1> DEFINE x == cur[c]
<1>0. /\ x \in Context /\ pc[x] = "unlock" /\ pc' = [pc EXCEPT ![x] = "pop"]
      /\ locked' = [locked EXCEPT ![lk[x]] = FALSE]
      /\ held' = [held EXCEPT ![x] = held[x] \ {lk[x]}]
      /\ UNCHANGED <<lkcpu, lk, intr, fresh, saved, panicked>> /\ UNCHANGED cpuVars
  BY DEF IInv, TypeOK, Unlock, At, Goto
<1>1. lk[x] \in held[x] /\ lk[x] \in Locks
  BY <1>0 DEF IInv, TypeOK, Ordered
<1>2. TypeOK'
  <2>1. pc' \in [Context -> Places] /\ locked' \in [Locks -> BOOLEAN] /\ held' \in [Context -> SUBSET Locks]
    BY <1>0 DEF IInv, TypeOK, Places
  <2> QED  BY <1>0, <2>1 DEF IInv, TypeOK, cpuVars
<1>3. Ordered'
  BY <1>0, SMTT(30) DEF IInv, TypeOK, Ordered, Off
<1>4. Exclusive'
  <2> SUFFICES ASSUME NEW l \in Locks
               PROVE  /\ locked'[l] => \E y \in Context : Owns(y, l)'
                      /\ \A y \in Context : Owns(y, l)' => locked'[l]
                      /\ \A y, z \in Context : Owns(y, l)' /\ Owns(z, l)' => y = z
    BY DEF Exclusive
  <2>1. CASE l = lk[x]
    <3>1. \A y \in Context : Owns(y, l) => y = x
      BY <1>0, <1>1, <2>1 DEF IInv, Exclusive, Owns
    <3>2. \A y \in Context : ~Owns(y, l)'
      BY <1>0, <2>1, <3>1 DEF IInv, TypeOK, Owns
    <3>3. locked'[l] = FALSE
      BY <1>0, <1>1, <2>1 DEF IInv, TypeOK
    <3> QED  BY <3>2, <3>3, Zenon
  <2>2. CASE l # lk[x]
    <3>1. \A y \in Context : Owns(y, l)' <=> Owns(y, l)
      BY <1>0, <2>2 DEF IInv, TypeOK, Owns
    <3>2. locked'[l] = locked[l]
      BY <1>0, <2>2 DEF IInv, TypeOK
    <3> QED  BY <3>1, <3>2, Zenon DEF IInv, Exclusive
  <2> QED  BY <2>1, <2>2
<1>5. Named'
  <2> SUFFICES ASSUME NEW d \in CPU, NEW k \in Locks
               PROVE  lkcpu[k] = d <=>
                        k \in held'[cur[d]] /\ ~(pc'[cur[d]] = "unlock" /\ lk[cur[d]] = k)
    BY <1>0 DEF Named, cpuVars
  <2>1. CASE d = c
    BY <1>0, <2>1, SMTT(30) DEF IInv, TypeOK, Named
  <2>2. CASE d # c
    <3>1. cur[d] \in Context /\ cur[d] # x
      BY <2>2 DEF IInv, TypeOK, Running
    <3> QED  BY <1>0, <2>2, <3>1, SMTT(30) DEF IInv, TypeOK, Named
  <2> QED  BY <2>1, <2>2
<1>6. pc'[x] \notin {"new", "away"} /\ \A y \in Context \ {x} : pc'[y] = pc[y] /\ held'[y] = held[y]
  BY <1>0 DEF IInv, TypeOK
<1>7. Nested'
  <2>1. ncli[c] = Count(held[x]) /\ Count(held'[x]) \in Nat /\ Count(held[x]) \in Nat
    BY <1>0, <1>2, CountZero DEF IInv, TypeOK, Nested, Busy, cpuVars
  <2>2. Count(held'[x]) + 1 = Count(held[x])
    <3>1. held[x] \in SUBSET Locks /\ held'[x] = held[x] \ {lk[x]} /\ \A k, m \in held[x] \cap Lock : k = m
      BY <1>0 DEF IInv, TypeOK, Ordered
    <3> QED  BY <1>1, <3>1, CountLess
  <2>3. ncli'[c] = Count(held'[x]) + (IF pc'[x] \in {"pushed", "spin", "own", "pop"} THEN 1 ELSE 0)
    BY <1>0, <2>1, <2>2 DEF IInv, TypeOK, cpuVars
  <2>4. x \in Context /\ cur' = cur /\ \A d \in CPU \ {c} : ncli'[d] = ncli[d]
    BY <1>0 DEF cpuVars
  <2> QED  BY <1>6, <2>3, <2>4, NestedKept, Zenon
<1>8. Running' /\ Quiet' /\ Flag'
  BY <1>0, <1>6, CpuKept
<1> QED  BY <1>0, <1>2, <1>3, <1>4, <1>5, <1>7, <1>8 DEF IInv

LEMMA PopcliKeeps ==
  ASSUME SpinlockAssumption, IInv, NEW c \in CPU, popcli(c)
  PROVE  IInv'
<1> DEFINE x == cur[c]
<1>0. /\ x \in Context /\ pc[x] = "pop" /\ pc' = [pc EXCEPT ![x] = "run"]
      /\ panicked' = (iflag[c] \/ ncli[c] = 0)
      /\ ncli' = [ncli EXCEPT ![c] = IF ncli[c] = 0 THEN 0 ELSE ncli[c] - 1]
      /\ iflag' = [iflag EXCEPT ![c] = Enable(c) \/ iflag[c]]
      /\ UNCHANGED <<locked, lkcpu, intena, cur, lk, held, intr, fresh, saved>>
  BY DEF IInv, TypeOK, popcli, At, Goto, lockVars
<1>1. iflag[c] = FALSE
  BY <1>0, Zenon DEF IInv, TypeOK, Quiet
<1>2. ncli[c] = Count(held[x]) + 1 /\ Count(held[x]) \in Nat /\ (Count(held[x]) = 0 => held[x] = {})
  BY <1>0, CountZero DEF IInv, TypeOK, Nested, Busy
<1>3. panicked' = FALSE
  <2>1. ncli[c] # 0
    BY <1>2
  <2> QED  BY <1>0, <1>1, <2>1, Zenon
<1>4. ncli'[c] = Count(held[x]) /\ ncli[c] # 0
  <2> DEFINE k == Count(held[x])
  <2>1. ncli'[c] = (IF ncli[c] = 0 THEN 0 ELSE ncli[c] - 1)
    BY <1>0 DEF IInv, TypeOK
  <2>2. ncli[c] = k + 1 /\ k \in Nat
    BY <1>2
  <2> HIDE DEF k
  <2>3. ncli'[c] = k /\ ncli[c] # 0
    BY <2>1, <2>2
  <2> QED  BY <2>3 DEF k
<1>5. iflag'[c] = Enable(c)
  <2>1. Enable(c) \in BOOLEAN
    BY DEF Enable, IInv, TypeOK
  <2>2. iflag'[c] = (Enable(c) \/ iflag[c])
    BY <1>0 DEF IInv, TypeOK
  <2> QED  BY <1>1, <2>1, <2>2
<1>6. \A d \in CPU \ {c} : ncli'[d] = ncli[d] /\ iflag'[d] = iflag[d] /\ intena'[d] = intena[d]
  BY <1>0 DEF IInv, TypeOK
<1>7. pc'[x] = "run" /\ \A y \in Context \ {x} : pc'[y] = pc[y] /\ held'[y] = held[y] /\ intr'[y] = intr[y]
  BY <1>0 DEF IInv, TypeOK
<1>8. TypeOK'
  <2>1. panicked' \in BOOLEAN
    BY <1>3
  <2>2. pc' \in [Context -> Places]
    BY <1>0 DEF IInv, TypeOK, Places
  <2>3. iflag' \in [CPU -> BOOLEAN]
    BY <1>0 DEF IInv, TypeOK, Enable
  <2>4. ncli' \in [CPU -> Nat]
    BY <1>0, <1>2 DEF IInv, TypeOK
  <2> QED  BY <1>0, <2>1, <2>2, <2>3, <2>4 DEF IInv, TypeOK
<1>9. Running'
  BY <1>0, SMTT(30) DEF IInv, TypeOK, Running, Off
<1>10. Ordered'
  BY <1>0, SMTT(30) DEF IInv, TypeOK, Ordered, Off
<1>11. Exclusive'
  BY <1>0, SMTT(30) DEF IInv, TypeOK, Exclusive, Owns
<1>12. Named'
  BY <1>0, SMTT(30) DEF IInv, TypeOK, Running, Named
<1>13. Nested'
  <2>1. ncli'[c] = Count(held'[x]) + (IF pc'[x] \in {"pushed", "spin", "own", "pop"} THEN 1 ELSE 0)
    <3>1. held'[x] = held[x] /\ pc'[x] \notin {"pushed", "spin", "own", "pop"}
      BY <1>0, <1>7
    <3> DEFINE k == Count(held[x])
    <3>2. ncli'[c] = k /\ k \in Nat /\ Count(held'[x]) = k
      BY <1>2, <1>4, <3>1, Zenon
    <3> HIDE DEF k
    <3>3. ncli'[c] = k + 0
      BY <3>2
    <3> QED  BY <3>1, <3>2, <3>3
  <2>2. x \in Context /\ cur' = cur
    BY <1>0
  <2>3. \A y \in Context \ {x} : pc'[y] = pc[y] /\ held'[y] = held[y]
    BY <1>7
  <2>4. \A d \in CPU \ {c} : ncli'[d] = ncli[d]
    BY <1>6
  <2> QED  BY <2>1, <2>2, <2>3, <2>4, NestedKept, Zenon
<1>14. Quiet'
  <2> SUFFICES ASSUME NEW d \in CPU, iflag'[d]
               PROVE  held[cur[d]] = {} /\ pc'[cur[d]] = "run"
    BY <1>0 DEF Quiet
  <2>1. CASE d = c
    <3>1. Enable(c)
      BY <1>5, <2>1, Zenon
    <3>2. ncli[c] = 1
      BY <3>1 DEF Enable
    <3> DEFINE k == Count(held[x])
    <3>3. ncli[c] = k + 1 /\ k \in Nat /\ (k = 0 => held[x] = {})
      BY <1>2
    <3> HIDE DEF k
    <3>4. held[x] = {}
      BY <3>2, <3>3
    <3> QED  BY <1>7, <2>1, <3>4
  <2>2. CASE d # c
    <3>1. cur[d] \in Context \ {x} /\ iflag[d]
      BY <1>6, <2>2 DEF IInv, TypeOK, Running
    <3> QED  BY <1>7, <3>1 DEF IInv, Quiet
  <2> QED  BY <2>1, <2>2
<1>15. Flag'
  <2>1. ASSUME x \in Thread, ~fresh[x]
        PROVE  (IF ncli'[c] = 0 THEN iflag'[c] ELSE intena'[c]) = ~intr'[x]
    <3>1. intena[c] = ~intr[x]
      BY <1>4, <2>1, Zenon DEF IInv, Flag
    <3>2. ncli'[c] = 0 => ncli[c] = 1
      BY <1>2, <1>4
    <3>3. ncli'[c] = 0 => iflag'[c] = intena[c]
      <4>1. intena[c] \in BOOLEAN
        BY DEF IInv, TypeOK
      <4> QED  BY <1>5, <3>2, <4>1, Zenon DEF Enable
    <3>4. intr'[x] = intr[x] /\ intena'[c] = intena[c]
      BY <1>0
    <3>5. (IF ncli'[c] = 0 THEN iflag'[c] ELSE intena'[c]) = intena[c]
      BY <3>3, <3>4
    <3> QED  BY <3>1, <3>4, <3>5, Zenon
  <2>2. x \in Context /\ cur' = cur /\ saved' = saved /\ fresh' = fresh /\ pc'[x] \notin {"new", "away"}
    BY <1>0, <1>7
  <2>3. \A y \in Context \ {x} : pc'[y] = pc[y] /\ intr'[y] = intr[y]
    BY <1>7
  <2> QED  BY <1>6, <2>1, <2>2, <2>3, FlagKept, Zenon
<1> QED  BY <1>3, <1>8, <1>9, <1>10, <1>11, <1>12, <1>13, <1>14, <1>15 DEF IInv

-----------------------------------------------------------------------------
(* Interrupts: contexts and their locks stay as they are. *)

LEMMA ContextsKept ==
  ASSUME IInv, UNCHANGED <<locked, lkcpu, ncli, cur, pc, lk, held>>
  PROVE  Running' /\ Ordered' /\ Exclusive' /\ Named' /\ Nested'
<1>1. Running' /\ Ordered'
  BY DEF IInv, Running, Ordered, Off
<1>2. Exclusive' /\ Named'
  BY DEF IInv, Exclusive, Named, Owns
<1>3. Nested'
  BY DEF IInv, Nested, Busy, Count
<1> QED  BY <1>1, <1>2, <1>3

\* The interrupt flag of CPU c becomes f, and its context is outside every
\* pushcli().
LEMMA FlagSet ==
  ASSUME SpinlockAssumption, IInv, NEW c \in CPU, NEW x \in Context, x = cur[c],
         pc[x] = "run", held[x] = {},
         NEW f \in BOOLEAN, iflag' = [iflag EXCEPT ![c] = f],
         intr' \in [Context -> BOOLEAN], \A y \in Context \ {x} : intr'[y] = intr[y],
         fresh' \in [Thread -> BOOLEAN], \A t \in Thread \ {x} : fresh'[t] = fresh[t],
         x \in Thread /\ ~fresh'[x] => f = ~intr'[x],
         UNCHANGED <<locked, lkcpu, ncli, intena, cur, pc, lk, held, saved, panicked>>
  PROVE  IInv'
<1>1. ncli[c] = 0 /\ ncli'[c] = 0
  <2>1. ~Busy(x) /\ Count(held[x]) = 0
    BY CountNone DEF Busy
  <2>2. ncli[c] = Count(held[x]) + (IF Busy(x) THEN 1 ELSE 0)
    BY DEF IInv, Nested
  <2> QED  BY <2>1, <2>2
<1>2. iflag'[c] = f /\ \A d \in CPU \ {c} : iflag'[d] = iflag[d]
  BY DEF IInv, TypeOK
<1>3. TypeOK'
  BY DEF IInv, TypeOK
<1>4. Quiet'
  BY <1>2 DEF IInv, Quiet
<1>5. Flag'
  <2>1. x \in Thread /\ ~fresh'[x] => (IF ncli'[c] = 0 THEN iflag'[c] ELSE intena'[c]) = ~intr'[x]
    <3>1. (IF ncli'[c] = 0 THEN iflag'[c] ELSE intena'[c]) = f
      BY <1>1, <1>2
    <3> QED  BY <3>1, Zenon
  <2> QED  BY <1>2, <2>1, FlagKept, SMTT(30)
<1> QED  BY <1>3, <1>4, <1>5, ContextsKept DEF IInv

LEMMA InterruptKeeps ==
  ASSUME SpinlockAssumption, IInv, NEW c \in CPU, Interrupt(c)
  PROVE  IInv'
<1>1. cur[c] \in Context /\ pc[cur[c]] = "run" /\ held[cur[c]] = {}
  BY DEF IInv, TypeOK, Quiet, Interrupt
<1>2. intr' \in [Context -> BOOLEAN] /\ intr'[cur[c]] = TRUE /\ \A y \in Context \ {cur[c]} : intr'[y] = intr[y]
  BY <1>1 DEF IInv, TypeOK, Interrupt
<1>3. FALSE = ~intr'[cur[c]]
  BY <1>2, Zenon
<1> QED  BY <1>1, <1>2, <1>3, FlagSet DEF IInv, TypeOK, Interrupt, lockVars

LEMMA IretKeeps ==
  ASSUME SpinlockAssumption, IInv, NEW c \in CPU, Iret(c)
  PROVE  IInv'
<1>1. cur[c] \in Context /\ pc[cur[c]] = "run" /\ held[cur[c]] = {}
  BY DEF IInv, TypeOK, Iret, At
<1>2. intr' \in [Context -> BOOLEAN] /\ intr'[cur[c]] = FALSE /\ \A y \in Context \ {cur[c]} : intr'[y] = intr[y]
  BY <1>1 DEF IInv, TypeOK, Iret
<1>3. TRUE = ~intr'[cur[c]]
  BY <1>2, Zenon
<1> QED  BY <1>1, <1>2, <1>3, FlagSet DEF IInv, TypeOK, Iret, lockVars

LEMMA ToUserKeeps ==
  ASSUME SpinlockAssumption, IInv, NEW c \in CPU, ToUser(c)
  PROVE  IInv'
<1>1. cur[c] \in Context /\ pc[cur[c]] = "run" /\ held[cur[c]] = {}
  BY DEF IInv, TypeOK, ToUser, At
<1>2. fresh' \in [Thread -> BOOLEAN] /\ \A t \in Thread \ {cur[c]} : fresh'[t] = fresh[t]
  BY <1>1 DEF IInv, TypeOK, ToUser
<1>3. TRUE = ~intr'[cur[c]]
  BY Zenon DEF ToUser
<1> QED  BY <1>1, <1>2, <1>3, FlagSet DEF IInv, TypeOK, ToUser, lockVars

LEMMA StiKeeps ==
  ASSUME SpinlockAssumption, IInv, NEW c \in CPU, sti(c)
  PROVE  IInv'
<1>1. cur[c] \in Context /\ pc[cur[c]] = "run" /\ held[cur[c]] = {}
  BY DEF IInv, TypeOK, sti, At
<1>2. cur[c] \notin Thread
  BY DEF sti, SpinlockAssumption
<1> QED  BY <1>1, <1>2, FlagSet DEF IInv, TypeOK, sti, lockVars, ctxVars

-----------------------------------------------------------------------------
(* Switches: ptable.lock goes from the context x to y, on the same CPU. *)

LEMMA SwitchKeeps ==
  ASSUME SpinlockAssumption, IInv, NEW c \in CPU, NEW x \in Context, NEW y \in Context,
         x = cur[c], pc[x] = "run", held[x] = {ptable}, Off(y), y \in Thread \cup {c},
         Switch(c, x, y), UNCHANGED <<locked, lkcpu, ncli, iflag, lk>>
  PROVE  /\ cur' \in [CPU -> Context] /\ pc' \in [Context -> Places] /\ held' \in [Context -> SUBSET Locks]
         /\ Running' /\ Ordered' /\ Exclusive' /\ Named' /\ Nested' /\ Quiet'
<1>0. x # y /\ held[y] = {}
  BY DEF IInv, Ordered, Off
<1>1. /\ cur'[c] = y /\ \A d \in CPU \ {c} : cur'[d] = cur[d]
      /\ pc'[x] = "away" /\ pc'[y] = "run" /\ \A z \in Context \ {x, y} : pc'[z] = pc[z]
      /\ held'[x] = {} /\ held'[y] = {ptable} /\ \A z \in Context \ {x, y} : held'[z] = held[z]
  BY <1>0 DEF IInv, TypeOK, Switch
<1>2. cur' \in [CPU -> Context] /\ pc' \in [Context -> Places] /\ held' \in [Context -> SUBSET Locks]
  BY DEF IInv, TypeOK, Switch, Places, Locks
<1>3. \A d \in CPU \ {c} : cur[d] \in Context \ {x, y}
  BY DEF IInv, TypeOK, Running
<1>3a. \A d \in CPU \ {c} : cur'[d] = cur[d] /\ pc'[cur[d]] = pc[cur[d]] /\ held'[cur[d]] = held[cur[d]]
  BY <1>1, <1>3, Zenon
<1>4. Running'
  <2>1. \A d \in CPU : cur'[d] \in Thread \cup {d} /\ ~Off(cur[d])'
    <3> SUFFICES ASSUME NEW d \in CPU
                 PROVE  cur'[d] \in Thread \cup {d} /\ pc'[cur'[d]] \notin {"new", "away"}
      BY DEF Off
    <3>1. CASE d = c
      BY <1>1, <3>1
    <3>2. CASE d # c
      <4>1. cur'[d] = cur[d] /\ pc'[cur[d]] = pc[cur[d]]
        BY <1>3a, <3>2
      <4> QED  BY <4>1 DEF IInv, Running, Off
    <3> QED  BY <3>1, <3>2
  <2>2. \A z \in Context : ~Off(z)' => \E d \in CPU : cur'[d] = z
    <3> SUFFICES ASSUME NEW z \in Context, pc'[z] \notin {"new", "away"}
                 PROVE  \E d \in CPU : cur'[d] = z
      BY DEF Off
    <3>1. CASE z = y
      BY <1>1, <3>1
    <3>2. CASE z # y
      <4>1. z # x /\ pc'[z] = pc[z]
        BY <1>1, <3>2
      <4>2. PICK d \in CPU : cur[d] = z
        BY <4>1 DEF IInv, Running, Off
      <4> QED  BY <1>1, <4>1, <4>2
    <3> QED  BY <3>1, <3>2
  <2>3. ASSUME NEW d \in CPU, NEW e \in CPU, cur'[d] = cur'[e]
        PROVE  d = e
    <3>1. CASE d = c /\ e # c
      <4>1. cur'[d] = y /\ cur'[e] = cur[e] /\ cur[e] # y
        BY <1>1, <1>3, <3>1
      <4> QED  BY <2>3, <4>1
    <3>2. CASE d # c /\ e = c
      <4>1. cur'[e] = y /\ cur'[d] = cur[d] /\ cur[d] # y
        BY <1>1, <1>3, <3>2
      <4> QED  BY <2>3, <4>1
    <3>3. CASE d # c /\ e # c
      <4>1. cur[d] = cur[e]
        BY <1>3a, <2>3, <3>3, Zenon
      <4> QED  BY <4>1, Zenon DEF IInv, Running
    <3> QED  BY <3>1, <3>2, <3>3
  <2> QED  BY <2>1, <2>2, <2>3, Zenon DEF Running
<1>5. Ordered'
  <2> SUFFICES ASSUME NEW z \in Context
               PROVE  /\ pc'[z] \in {"new", "away"} => held'[z] = {}
                      /\ \A l, m \in held'[z] \cap Lock : l = m
                      /\ pc'[z] \in {"pushed", "spin", "own"} =>
                           /\ held'[z] \subseteq Lock /\ lk[z] \notin held'[z]
                           /\ lk[z] = ptable \/ held'[z] = {}
                      /\ pc'[z] = "unlock" => lk[z] \in held'[z]
    BY DEF Ordered, Off
  <2>1. CASE z = x
    BY <1>1, <2>1
  <2>2. CASE z = y
    BY <1>1, <2>2
  <2>3. CASE z \notin {x, y}
    <3>1. pc'[z] = pc[z] /\ held'[z] = held[z]
      BY <1>1, <2>3
    <3> QED  BY <3>1 DEF IInv, Ordered, Off
  <2> QED  BY <2>1, <2>2, <2>3
<1>6. Exclusive'
  <2> SUFFICES ASSUME NEW l \in Locks
               PROVE  /\ locked[l] => \E z \in Context : Owns(z, l)'
                      /\ \A z \in Context : Owns(z, l)' => locked[l]
                      /\ \A z, w \in Context : Owns(z, l)' /\ Owns(w, l)' => z = w
    BY DEF Exclusive
  <2>1. \A z \in Context \ {x, y} : Owns(z, l)' <=> Owns(z, l)
    BY <1>1 DEF Owns
  <2>2. /\ Owns(x, l) <=> l = ptable
        /\ ~Owns(y, l)
        /\ ~Owns(x, l)'
        /\ Owns(y, l)' <=> l = ptable
    BY <1>0, <1>1 DEF Owns, Off
  <2>3. /\ locked[l] => \E z \in Context : Owns(z, l)
        /\ \A z \in Context : Owns(z, l) => locked[l]
        /\ \A z, w \in Context : Owns(z, l) /\ Owns(w, l) => z = w
    BY DEF IInv, Exclusive
  <2>4. locked[l] => \E z \in Context : Owns(z, l)'
    BY <2>1, <2>2, <2>3
  <2>5. \A z \in Context : Owns(z, l)' => locked[l]
    BY <2>1, <2>2, <2>3
  <2>6. \A z, w \in Context : Owns(z, l)' /\ Owns(w, l)' => z = w
    BY <2>1, <2>2, <2>3
  <2> QED  BY <2>4, <2>5, <2>6
<1>7. Named'
  <2> SUFFICES ASSUME NEW d \in CPU, NEW k \in Locks
               PROVE  lkcpu[k] = d <=>
                        k \in held'[cur'[d]] /\ ~(pc'[cur'[d]] = "unlock" /\ lk[cur'[d]] = k)
    BY DEF Named
  <2>1. CASE d = c
    <3>1. lkcpu[k] = c <=> k \in held[x] /\ ~(pc[x] = "unlock" /\ lk[x] = k)
      BY DEF IInv, Named
    <3>2. cur'[c] = y /\ held'[y] = held[x] /\ pc'[y] # "unlock" /\ pc[x] # "unlock"
      BY <1>1
    <3> QED  BY <2>1, <3>1, <3>2, Zenon
  <2>2. CASE d # c
    <3>1. cur'[d] = cur[d] /\ pc'[cur[d]] = pc[cur[d]] /\ held'[cur[d]] = held[cur[d]]
      BY <1>3a, <2>2
    <3>2. lkcpu[k] = d <=> k \in held[cur[d]] /\ ~(pc[cur[d]] = "unlock" /\ lk[cur[d]] = k)
      <4>1. Named
        BY DEF IInv
      <4> QED  BY <4>1 DEF Named
    <3> QED  BY <3>1, <3>2, Zenon
  <2> QED  BY <2>1, <2>2
<1>8. Nested'
  <2> SUFFICES ASSUME NEW d \in CPU
               PROVE  ncli[d] = Count(held'[cur'[d]])
                                 + (IF pc'[cur'[d]] \in {"pushed", "spin", "own", "pop"} THEN 1 ELSE 0)
    BY DEF Nested, Busy, Count
  <2>1. ncli[d] = Count(held[cur[d]]) + (IF pc[cur[d]] \in {"pushed", "spin", "own", "pop"} THEN 1 ELSE 0)
    BY DEF IInv, Nested, Busy
  <2>2. CASE d = c
    BY <1>1, <2>1, <2>2
  <2>3. CASE d # c
    <3>1. cur'[d] = cur[d] /\ pc'[cur[d]] = pc[cur[d]] /\ held'[cur[d]] = held[cur[d]]
      BY <1>3a, <2>3
    <3> QED  BY <2>1, <3>1, Zenon
  <2> QED  BY <2>2, <2>3
<1>9. Quiet'
  <2> SUFFICES ASSUME NEW d \in CPU, iflag[d]
               PROVE  held'[cur'[d]] = {} /\ pc'[cur'[d]] = "run"
    BY DEF Quiet
  <2>1. held[cur[d]] = {} /\ pc[cur[d]] = "run"
    BY DEF IInv, Quiet
  <2>2. d # c
    BY <2>1
  <2> QED  BY <1>3a, <2>1, <2>2
<1> QED  BY <1>2, <1>4, <1>5, <1>6, <1>7, <1>8, <1>9

LEMMA SchedKeeps ==
  ASSUME SpinlockAssumption, IInv, NEW c \in CPU, sched(c)
  PROVE  IInv'
<1> DEFINE x == cur[c]
<1>0. /\ x \in Context /\ x \in Thread /\ c \in Context /\ pc[x] = "run" /\ held[x] = {ptable}
      /\ Switch(c, x, c) /\ saved' = [saved EXCEPT ![x] = intena[c]]
      /\ UNCHANGED <<locked, lkcpu, ncli, intena, iflag, lk, intr, fresh>>
  BY DEF sched, At, lockVars, Context
<1>1. Off(c)
  <2> SUFFICES ASSUME ~Off(c) PROVE FALSE
    OBVIOUS
  <2>1. PICK d \in CPU : cur[d] = c
    BY <1>0 DEF IInv, Running
  <2>2. d = c
    BY <2>1 DEF IInv, Running, SpinlockAssumption
  <2> QED  BY <1>0, <2>1, <2>2 DEF SpinlockAssumption
<1>2. /\ cur' \in [CPU -> Context] /\ pc' \in [Context -> Places] /\ held' \in [Context -> SUBSET Locks]
      /\ Running' /\ Ordered' /\ Exclusive' /\ Named' /\ Nested' /\ Quiet'
  BY <1>0, <1>1, SwitchKeeps
<1>3. ncli[c] = 1
  <2>1. ncli[c] = Count(held[x]) + (IF Busy(x) THEN 1 ELSE 0)
    BY DEF IInv, Nested
  <2>2. ~Busy(x)
    BY <1>0 DEF Busy
  <2>3. Count(held[x]) = 1
    BY <1>0, CountNone, Zenon
  <2> QED  BY <2>1, <2>2, <2>3
<1>4. panicked' = FALSE
  <2>1. ptable \in Locks /\ lkcpu[ptable] = c
    BY <1>0 DEF IInv, Named, Locks
  <2>2. locked[ptable]
    BY <1>0, <2>1 DEF IInv, Exclusive, Owns
  <2>3. iflag[c] = FALSE
    <3>1. held[x] # {}
      BY <1>0
    <3> QED  BY <3>1, Zenon DEF IInv, TypeOK, Quiet
  <2>4. panicked' = (~holding(c, ptable) \/ ncli[c] # 1 \/ iflag[c])
    BY DEF sched
  <2> QED  BY <1>3, <2>1, <2>2, <2>3, <2>4, Zenon DEF holding
<1>5. TypeOK'
  <2>1. panicked' \in BOOLEAN
    BY <1>4
  <2>2. saved' \in [Thread -> BOOLEAN]
    BY <1>0 DEF IInv, TypeOK
  <2> QED  BY <1>0, <1>2, <2>1, <2>2 DEF IInv, TypeOK
<1>6. Flag'
  <2>0. /\ cur'[c] = c /\ \A d \in CPU \ {c} : cur'[d] = cur[d]
        /\ pc'[x] = "away" /\ pc'[c] = "run" /\ \A z \in Context \ {x, c} : pc'[z] = pc[z]
    BY <1>0 DEF IInv, TypeOK, Switch, SpinlockAssumption
  <2>1. ASSUME NEW d \in CPU, cur'[d] \in Thread, ~fresh[cur'[d]]
        PROVE  (IF ncli[d] = 0 THEN iflag[d] ELSE intena[d]) = ~intr[cur'[d]]
    <3>1. cur'[d] = cur[d]
      BY <2>0, <2>1 DEF SpinlockAssumption
    <3> QED  BY <2>1, <3>1, Zenon DEF IInv, Flag
  <2>2. \A t \in Thread : pc'[t] = "new" => fresh[t]
    <3>1. \A t \in Thread : pc'[t] = "new" => pc[t] = "new"
      BY <2>0 DEF Context, SpinlockAssumption
    <3> QED  BY <3>1, Zenon DEF IInv, Flag
  <2>3. ASSUME NEW t \in Thread, pc'[t] = "away", ~fresh[t]
        PROVE  saved'[t] = ~intr[t]
    <3>1. CASE t = x
      <4>1. saved'[t] = intena[c]
        BY <1>0, <3>1 DEF IInv, TypeOK
      <4>2. ncli[c] # 0
        BY <1>3
      <4>3. intena[c] = ~intr[t]
        BY <1>0, <2>3, <3>1, <4>2, Zenon DEF IInv, Flag
      <4> QED  BY <4>1, <4>3, Zenon
    <3>2. CASE t # x
      <4>1. saved'[t] = saved[t] /\ pc[t] = "away"
        BY <1>0, <2>0, <2>3, <3>2 DEF IInv, TypeOK, Context, SpinlockAssumption
      <4>2. saved[t] = ~intr[t]
        BY <2>3, <4>1, Zenon DEF IInv, Flag
      <4> QED  BY <4>1, <4>2, Zenon
    <3> QED  BY <3>1, <3>2
  <2>4. ncli' = ncli /\ iflag' = iflag /\ intena' = intena /\ fresh' = fresh /\ intr' = intr
    BY <1>0
  <2> QED  BY <2>1, <2>2, <2>3, <2>4, Zenon DEF Flag
<1> QED  BY <1>2, <1>4, <1>5, <1>6 DEF IInv

LEMMA DispatchKeeps ==
  ASSUME SpinlockAssumption, IInv, NEW c \in CPU, NEW t \in Thread, Dispatch(c, t)
  PROVE  IInv'
<1>0. /\ cur[c] = c /\ c \in Context /\ t \in Context /\ pc[c] = "run" /\ held[c] = {ptable} /\ Off(t)
      /\ Switch(c, c, t) /\ intena' = [intena EXCEPT ![c] = IF pc[t] = "new" THEN intena[c] ELSE saved[t]]
      /\ UNCHANGED <<locked, lkcpu, ncli, iflag, lk, intr, fresh, saved, panicked>>
  BY DEF Dispatch, At, Off, Restored, lockVars, Context
<1>1. /\ cur' \in [CPU -> Context] /\ pc' \in [Context -> Places] /\ held' \in [Context -> SUBSET Locks]
      /\ Running' /\ Ordered' /\ Exclusive' /\ Named' /\ Nested' /\ Quiet'
  BY <1>0, SwitchKeeps
<1>2. ncli[c] # 0
  <2>1. ncli[c] = Count(held[c]) + (IF Busy(c) THEN 1 ELSE 0)
    BY <1>0 DEF IInv, Nested
  <2>2. ~Busy(c)
    BY <1>0 DEF Busy
  <2>3. Count(held[c]) = 1
    BY <1>0, CountNone, Zenon
  <2> QED  BY <2>1, <2>2, <2>3
<1>3. TypeOK'
  <2>1. intena' \in [CPU -> BOOLEAN]
    BY <1>0 DEF IInv, TypeOK
  <2> QED  BY <1>0, <1>1, <2>1 DEF IInv, TypeOK
<1>4. Flag'
  <2>0. /\ cur'[c] = t /\ \A d \in CPU \ {c} : cur'[d] = cur[d] /\ intena'[d] = intena[d]
        /\ pc'[t] = "run" /\ \A u \in Thread \ {t} : pc'[u] = pc[u]
    BY <1>0 DEF IInv, TypeOK, Switch, SpinlockAssumption, Context
  <2>1. ASSUME NEW d \in CPU, cur'[d] \in Thread, ~fresh[cur'[d]]
        PROVE  (IF ncli[d] = 0 THEN iflag[d] ELSE intena'[d]) = ~intr[cur'[d]]
    <3>1. CASE d = c
      <4>1. ~fresh[t]
        BY <2>0, <2>1, <3>1
      <4>2. pc[t] # "new"
        BY <4>1, Zenon DEF IInv, Flag
      <4>3. pc[t] = "away" /\ intena'[c] = saved[t]
        BY <1>0, <4>2 DEF Off, IInv, TypeOK
      <4>4. saved[t] = ~intr[t]
        BY <4>1, <4>3, Zenon DEF IInv, Flag
      <4> QED  BY <1>2, <2>0, <3>1, <4>3, <4>4, Zenon
    <3>2. CASE d # c
      <4>1. cur'[d] = cur[d] /\ intena'[d] = intena[d]
        BY <2>0, <3>2
      <4>2. (IF ncli[d] = 0 THEN iflag[d] ELSE intena[d]) = ~intr[cur[d]]
        BY <2>1, <4>1, Zenon DEF IInv, Flag
      <4> QED  BY <4>1, <4>2, Zenon
    <3> QED  BY <3>1, <3>2
  <2>2. \A u \in Thread : pc'[u] = "new" => fresh[u]
    <3>1. \A u \in Thread : pc'[u] = "new" => pc[u] = "new"
      BY <2>0
    <3> QED  BY <3>1, Zenon DEF IInv, Flag
  <2>3. \A u \in Thread : pc'[u] = "away" /\ ~fresh[u] => saved[u] = ~intr[u]
    <3>1. \A u \in Thread : pc'[u] = "away" => pc[u] = "away"
      BY <2>0
    <3> QED  BY <3>1, Zenon DEF IInv, Flag
  <2>4. ncli' = ncli /\ iflag' = iflag /\ fresh' = fresh /\ intr' = intr /\ saved' = saved
    BY <1>0
  <2> QED  BY <2>1, <2>2, <2>3, <2>4, Zenon DEF Flag
<1> QED  BY <1>0, <1>1, <1>3, <1>4 DEF IInv

-----------------------------------------------------------------------------
(* The invariant, and what follows from it. *)

LEMMA Kept == ASSUME SpinlockAssumption, IInv, [Next]_vars PROVE IInv'
<1>1. CASE UNCHANGED vars
  <2>1. UNCHANGED <<locked, lkcpu, ncli, intena, iflag, cur, pc, lk, held, intr, fresh, saved, panicked>>
    BY <1>1 DEF vars, lockVars, cpuVars, ctxVars
  <2>2. TypeOK'
    BY <2>1 DEF IInv, TypeOK
  <2>3. Quiet' /\ Flag'
    BY <2>1 DEF IInv, Quiet, Flag
  <2> QED  BY <2>1, <2>2, <2>3, ContextsKept DEF IInv
<1>2. CASE Next
  <2>1. PICK c \in CPU : Step(c)
    BY <1>2 DEF Next
  <2> QED  BY <2>1, AcquireKeeps, ReleaseKeeps, AcquireChecksKeeps, XchgKeeps, AcquireDoneKeeps,
              UnlockKeeps, PopcliKeeps, InterruptKeeps, IretKeeps, ToUserKeeps, SchedKeeps, StiKeeps,
              DispatchKeeps DEF Step
<1> QED  BY <1>1, <1>2

LEMMA Inductive == ASSUME SpinlockAssumption PROVE Spec => []IInv
<1>1. Init => IInv
  BY Starts
<1>2. IInv /\ [Next]_vars => IInv'
  BY Kept
<1> QED  BY <1>1, <1>2, PTL DEF Spec

\* At most one context is between the xchg of acquire() and the store of
\* release() for a lock, lk->locked says whether one is, also when sched() and
\* scheduler() hand ptable.lock over, and a CPU inside pushcli() and popcli()
\* takes no interrupt.
THEOREM MutualExclusionHolds ==
  ASSUME SpinlockAssumption PROVE Spec => []MutualExclusion
<1>1. ASSUME IInv PROVE MutualExclusion
  <2>1. OneOwner
    <3> SUFFICES ASSUME NEW l \in Locks
                 PROVE  Cardinality(Owners(l)) <= 1 /\ (locked[l] <=> Owners(l) # {})
      BY DEF OneOwner
    <3>1. Owners(l) = {x \in Context : Owns(x, l)}
      BY DEF Owners, Owns
    <3>2. locked[l] <=> Owners(l) # {}
      BY <1>1, <3>1 DEF IInv, Exclusive
    <3>4. Owners(l) = {} \/ \E x : Owners(l) = {x}
      BY <1>1, <3>1 DEF IInv, Exclusive
    <3>5. CASE Owners(l) = {}
      <4>1. Cardinality(Owners(l)) = 0
        BY <3>5, FS_EmptySet, Zenon
      <4> QED  BY <3>2, <4>1
    <3>6. CASE \E x : Owners(l) = {x}
      <4>1. Cardinality(Owners(l)) = 1
        BY <3>6, FS_Singleton, Zenon
      <4> QED  BY <3>2, <4>1
    <3> QED  BY <3>4, <3>5, <3>6
  <2>2. InterruptsOff
    <3> SUFFICES ASSUME NEW c \in CPU, iflag[c]
                 PROVE  ncli[c] = 0 /\ held[cur[c]] = {} /\ pc[cur[c]] = "run"
      BY DEF InterruptsOff
    <3>1. held[cur[c]] = {} /\ pc[cur[c]] = "run"
      BY <1>1 DEF IInv, Quiet
    <3>2. ncli[c] = Count(held[cur[c]]) + (IF Busy(cur[c]) THEN 1 ELSE 0) /\ ~Busy(cur[c])
      BY <1>1, <3>1 DEF IInv, Nested, Busy
    <3> QED  BY <3>1, <3>2, CountNone
  <2> QED  BY <2>1, <2>2 DEF MutualExclusion
<1> QED  BY <1>1, Inductive, PTL

\* A thread that has released its locks finds the interrupt flag as it was when
\* it took the first, on whichever CPU sched() has brought it, and no panic() of
\* acquire(), release(), popcli() or sched() is reached.
THEOREM FlagRestoredHolds ==
  ASSUME SpinlockAssumption PROVE Spec => []FlagRestored
<1>1. ASSUME IInv PROVE FlagRestored
  <2> SUFFICES ASSUME NEW c \in CPU, cur[c] \in Thread, ~fresh[cur[c]], pc[cur[c]] = "run", held[cur[c]] = {}
               PROVE  iflag[c] = ~intr[cur[c]]
    BY <1>1 DEF FlagRestored, NoPanic, IInv
  <2>1. ncli[c] = Count(held[cur[c]]) + (IF Busy(cur[c]) THEN 1 ELSE 0) /\ ~Busy(cur[c])
    BY <1>1 DEF IInv, Nested, Busy
  <2>2. ncli[c] = 0
    BY <2>1, CountNone
  <2> QED  BY <1>1, <2>2, Zenon DEF IInv, Flag
<1> QED  BY <1>1, Inductive, PTL
=============================================================================
