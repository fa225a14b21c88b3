----------------------------- MODULE DiskProofs -----------------------------
(***************************************************************************)
(* The buffer cache and the disk driver are coherent (bio.c, ide.c): proofs *)
(* for every number of processes, blocks and buffers.                      *)
(***************************************************************************)
EXTENDS Disk, FiniteSetTheorems, SequenceTheorems, WellFoundedInduction, TLAPS

Buffer ==
  [blk : Blockno \cup {None}, valid : BOOLEAN, dirty : BOOLEAN, ref : Nat,
   lock : Proc \cup {None}, data : Value \cup {None}]

Places == {"idle", "lock", "iderw", "sleep", "awake", "have", "drop"}

TypeOK ==
  /\ buf \in [Buf -> Buffer]
  /\ lru \in [Buf -> Buf]
  /\ idequeue \in Seq(Buf)
  /\ disk \in [Blockno -> Value]
  /\ irq \in BOOLEAN
  /\ pc \in [Proc -> Places]
  /\ mine \in [Proc -> Buf \cup {None}]
  /\ latest \in [Blockno -> Value]

\* The places where a process holds the lock of its buffer.
Locked == {"iderw", "sleep", "awake", "have"}

\* A process has a buffer, of some block, from bget() to brelse().
Mine ==
  \A p \in Proc : IF pc[p] = "idle" THEN mine[p] = None
                  ELSE mine[p] \in Buf /\ buf[mine[p]].blk \in Blockno

\* b->refcnt is the number of processes that have b.
Users(b) == {p \in Proc : mine[p] = b}
Refs == \A b \in Buf : buf[b].ref = Cardinality(Users(b))

\* A buffer's lock is held by one that has it, and is past acquiresleep().
Locks ==
  /\ \A p \in Proc : pc[p] \in Locked => buf[mine[p]].lock = p
  /\ \A b \in Buf, p \in Proc : buf[b].lock = p => mine[p] = b /\ pc[p] \in Locked

OneBlock == \A b, c \in Buf : buf[b].blk \in Blockno /\ buf[b].blk = buf[c].blk => b = c

\* A valid buffer has the last value of its block, which the disk has as well
\* unless the buffer is dirty.
Data ==
  /\ \A b \in Buf : buf[b].dirty => buf[b].valid
  /\ \A b \in Buf : buf[b].valid => buf[b].blk \in Blockno /\ buf[b].data = latest[buf[b].blk]
  /\ \A k \in Blockno : disk[k] = latest[k] \/ \E b \in Buf : buf[b].blk = k /\ buf[b].dirty
  /\ \A p \in Proc : pc[p] = "have" => buf[mine[p]].valid
  /\ \A p \in Proc : pc[p] = "awake" => buf[mine[p]].valid /\ ~buf[mine[p]].dirty

\* The requests in the queue are those of the processes that sleep, and the disk
\* works on the first: when it has raised its interrupt for a write, it has the
\* data of that buffer.
Queue ==
  /\ \A n \in 1..Len(idequeue) : \E p \in Proc : mine[p] = idequeue[n] /\ pc[p] = "sleep"
  /\ \A p \in Proc : pc[p] = "sleep" => \E n \in 1..Len(idequeue) : idequeue[n] = mine[p]
  /\ \A m, n \in 1..Len(idequeue) : idequeue[m] = idequeue[n] => m = n
  /\ active = IF idequeue = <<>> THEN <<>> ELSE idestart(Head(idequeue))
  /\ irq => idequeue # <<>>
  /\ irq /\ buf[Head(idequeue)].dirty =>
       disk[buf[Head(idequeue)].blk] = latest[buf[Head(idequeue)].blk]

IInv == TypeOK /\ Mine /\ Refs /\ Locks /\ OneBlock /\ Data /\ Queue

-----------------------------------------------------------------------------
(* The buffer that bget() takes. *)

\* A nonempty set of positions in the list has a last one.
LEMMA LastExists ==
  ASSUME NEW N \in Nat, NEW S \in SUBSET (1..N), S # {}
  PROVE  \E n \in S : \A m \in S : m <= n
<1> DEFINE T == {N - n : n \in S}
<1>1. T \subseteq Nat /\ T # {}
  <2>1. \A n \in S : N - n \in Nat
    OBVIOUS
  <2>2. PICK n \in S : TRUE
    OBVIOUS
  <2>3. N - n \in T
    OBVIOUS
  <2> QED  BY <2>1, <2>3
<1>2. PICK x \in T : \A y \in T : ~(<<y, x>> \in OpToRel(<, Nat))
  <2> HIDE DEF T
  <2> QED  BY <1>1, NatLessThanWellFounded, WFMin, Zenon
<1>3. \A y \in T : ~(y < x)
  BY <1>1, <1>2 DEF OpToRel
<1>4. PICK n \in S : x = N - n
  OBVIOUS
<1>5. ASSUME NEW m \in S PROVE m <= n
  <2>1. N - m \in T
    OBVIOUS
  <2>2. ~(N - m < N - n)
    BY <1>3, <1>4, <2>1
  <2> QED  BY <2>2
<1> QED  BY <1>5

LEMMA VictimFree ==
  ASSUME DiskAssumption, TypeOK, unused # {}
  PROVE  victim \in Buf /\ buf[victim].ref = 0 /\ buf[victim].dirty = FALSE
<1>1. unused \subseteq 1..NBUF /\ NBUF \in Nat
  BY DEF unused, Buf, DiskAssumption
<1>2. \E n \in unused : \A m \in unused : m <= n
  BY <1>1, LastExists
<1> DEFINE n == CHOOSE n \in unused : \A m \in unused : m <= n
<1>3. n \in unused
  BY <1>2, Zenon
<1>4. victim = lru[n]
  BY DEF victim
<1> HIDE DEF n
<1> QED  BY <1>3, <1>4 DEF unused, TypeOK, Buffer

-----------------------------------------------------------------------------
(* Counting the processes that have a buffer. *)

LEMMA UsersCount ==
  ASSUME DiskAssumption, NEW b
  PROVE  /\ IsFiniteSet(Users(b)) /\ Cardinality(Users(b)) \in Nat
         /\ Cardinality(Users(b)) = 0 <=> Users(b) = {}
<1>1. IsFiniteSet(Proc) /\ Users(b) \subseteq Proc
  BY DEF DiskAssumption, Users
<1>2. IsFiniteSet(Users(b))
  BY <1>1, FS_Subset, Zenon
<1> QED  BY <1>2, FS_CardinalityType, FS_EmptySet, Zenon

\* bget(): p comes to b.
LEMMA RefsTaken ==
  ASSUME DiskAssumption, TypeOK, Refs, NEW p \in Proc, NEW b \in Buf, mine[p] = None,
         mine' = [mine EXCEPT ![p] = b], buf'[b].ref = buf[b].ref + 1,
         \A c \in Buf \ {b} : buf'[c].ref = buf[c].ref
  PROVE  Refs'
<1>0. mine \in [Proc -> Buf \cup {None}] /\ None \notin Buf
  BY DEF TypeOK, DiskAssumption, Buf
<1>1. Users(b)' = Users(b) \cup {p} /\ p \notin Users(b)
  BY <1>0 DEF Users
<1>2. \A c \in Buf \ {b} : Users(c)' = Users(c)
  BY <1>0 DEF Users
<1>3. Cardinality(Users(b) \cup {p}) = Cardinality(Users(b)) + 1
  BY <1>1, UsersCount, FS_AddElement, Zenon
<1> QED  BY <1>1, <1>2, <1>3 DEF Refs

\* drop: p leaves b.
LEMMA RefsDropped ==
  ASSUME DiskAssumption, TypeOK, Refs, NEW p \in Proc, NEW b \in Buf, mine[p] = b,
         mine' = [mine EXCEPT ![p] = None], buf'[b].ref = buf[b].ref - 1,
         \A c \in Buf \ {b} : buf'[c].ref = buf[c].ref
  PROVE  Refs' /\ buf'[b].ref \in Nat
<1>0. mine \in [Proc -> Buf \cup {None}] /\ None \notin Buf
  BY DEF TypeOK, DiskAssumption, Buf
<1>1. Users(b)' = Users(b) \ {p} /\ p \in Users(b)
  BY <1>0 DEF Users
<1>2. \A c \in Buf \ {b} : Users(c)' = Users(c)
  BY <1>0 DEF Users
<1>3. Cardinality(Users(b) \ {p}) = Cardinality(Users(b)) - 1
  BY <1>1, UsersCount, FS_RemoveElement, Zenon
<1>4. Cardinality(Users(b)) \in Nat /\ Cardinality(Users(b)) # 0
  BY <1>1, UsersCount, Zenon
<1>5. buf[b].ref = Cardinality(Users(b))
  BY DEF Refs
<1>6. buf'[b].ref = Cardinality(Users(b)') /\ buf'[b].ref \in Nat
  BY <1>1, <1>3, <1>4, <1>5
<1>7. ASSUME NEW c \in Buf \ {b} PROVE buf'[c].ref = Cardinality(Users(c)')
  BY <1>2, <1>7, Zenon DEF Refs
<1> QED  BY <1>6, <1>7 DEF Refs

\* Every other step.
LEMMA RefsSame ==
  ASSUME Refs, mine' = mine, \A c \in Buf : buf'[c].ref = buf[c].ref
  PROVE  Refs'
  BY DEF Refs, Users

-----------------------------------------------------------------------------
(* Steps that leave the data, or the queue, alone. *)

SameData(b) ==
  buf'[b].blk = buf[b].blk /\ buf'[b].valid = buf[b].valid /\ buf'[b].dirty = buf[b].dirty
    /\ buf'[b].data = buf[b].data

LEMMA DataSame ==
  ASSUME Data, disk' = disk, latest' = latest, \A b \in Buf : SameData(b),
         \A p \in Proc : pc'[p] \in {"have", "awake"} => mine'[p] \in Buf,
         \A p \in Proc : pc'[p] = "have" => buf[mine'[p]].valid,
         \A p \in Proc : pc'[p] = "awake" => buf[mine'[p]].valid /\ ~buf[mine'[p]].dirty
  PROVE  Data'
<1>1. \A b \in Buf : buf'[b].dirty => buf'[b].valid
  BY Zenon DEF Data, SameData
<1>2. ASSUME NEW b \in Buf, buf'[b].valid
      PROVE  buf'[b].blk \in Blockno /\ buf'[b].data = latest[buf'[b].blk]
  <2>1. SameData(b)
    OBVIOUS
  <2>2. buf[b].valid => buf[b].blk \in Blockno /\ buf[b].data = latest[buf[b].blk]
    BY DEF Data
  <2> QED  BY <1>2, <2>1, <2>2 DEF SameData
<1>3. ASSUME NEW k \in Blockno, disk[k] # latest[k]
      PROVE  \E b \in Buf : buf'[b].blk = k /\ buf'[b].dirty
  <2>1. PICK b \in Buf : buf[b].blk = k /\ buf[b].dirty
    BY <1>3, Zenon DEF Data
  <2>2. SameData(b)
    OBVIOUS
  <2> QED  BY <2>1, <2>2 DEF SameData
<1>4. \A p \in Proc : pc'[p] = "have" => buf'[mine'[p]].valid
  BY Zenon DEF SameData
<1>5. \A p \in Proc : pc'[p] = "awake" => buf'[mine'[p]].valid /\ ~buf'[mine'[p]].dirty
  BY Zenon DEF SameData
<1> QED  BY <1>1, <1>2, <1>3, <1>4, <1>5 DEF Data

LEMMA HeadIn ==
  ASSUME TypeOK, idequeue # <<>>
  PROVE  /\ Head(idequeue) \in Buf /\ Head(idequeue) = idequeue[1]
         /\ Len(idequeue) \in Nat /\ 1 \in 1..Len(idequeue)
  BY DEF TypeOK

\* The first buffer of the queue belongs to a process that sleeps.
LEMMA HeadHeld ==
  ASSUME TypeOK, Locks, Queue, idequeue # <<>>
  PROVE  \E q \in Proc : pc[q] = "sleep" /\ mine[q] = Head(idequeue) /\ buf[Head(idequeue)].lock = q
<1>1. PICK q \in Proc : mine[q] = Head(idequeue) /\ pc[q] = "sleep"
  BY HeadIn DEF Queue
<1>2. buf[mine[q]].lock = q
  BY <1>1 DEF Locks, Locked
<1> QED  BY <1>1, <1>2

LEMMA QueueSame ==
  ASSUME TypeOK, Queue, UNCHANGED <<idequeue, active, irq, disk>>,
         \A p \in Proc : pc'[p] = "sleep" <=> pc[p] = "sleep",
         \A p \in Proc : pc[p] = "sleep" => mine'[p] = mine[p],
         idequeue # <<>> => /\ SameData(Head(idequeue))
                            /\ latest'[buf[Head(idequeue)].blk] = latest[buf[Head(idequeue)].blk]
  PROVE  Queue'
<1>1. \A n \in 1..Len(idequeue) : \E p \in Proc : mine'[p] = idequeue[n] /\ pc'[p] = "sleep"
  <2> SUFFICES ASSUME NEW n \in 1..Len(idequeue)
               PROVE  \E p \in Proc : mine'[p] = idequeue[n] /\ pc'[p] = "sleep"
    OBVIOUS
  <2>1. PICK p \in Proc : mine[p] = idequeue[n] /\ pc[p] = "sleep"
    BY DEF Queue
  <2>2. mine'[p] = mine[p] /\ pc'[p] = "sleep"
    BY <2>1
  <2> QED  BY <2>1, <2>2
<1>2. \A p \in Proc : pc'[p] = "sleep" => \E n \in 1..Len(idequeue) : idequeue[n] = mine'[p]
  <2>1. ASSUME NEW p \in Proc, pc'[p] = "sleep"
        PROVE  \E n \in 1..Len(idequeue) : idequeue[n] = mine'[p]
    <3>1. pc[p] = "sleep" /\ mine'[p] = mine[p]
      BY <2>1
    <3> QED  BY <3>1 DEF Queue
  <2> QED  BY <2>1
<1>3. active = IF idequeue = <<>> THEN <<>> ELSE idestart(Head(idequeue))'
  BY DEF Queue, idestart, SameData
<1>4. irq /\ buf'[Head(idequeue)].dirty =>
        disk[buf'[Head(idequeue)].blk] = latest'[buf'[Head(idequeue)].blk]
  BY DEF Queue, SameData
<1> QED  BY <1>1, <1>2, <1>3, <1>4 DEF Queue

-----------------------------------------------------------------------------
(* bget() and bread(). *)

LEMMA SameKeeps ==
  ASSUME IInv, UNCHANGED <<buf, pc, mine, lru, idequeue, disk, active, irq, latest>>
  PROVE  IInv'
<1> USE DEF IInv
<1>1. TypeOK' /\ Mine' /\ Locks' /\ OneBlock'
  BY DEF TypeOK, Mine, Locks, OneBlock
<1>2. Refs'
  BY RefsSame
<1>3. Data'
  BY DEF Data
<1>4. Queue'
  BY DEF Queue, idestart
<1> QED  BY <1>1, <1>2, <1>3, <1>4

\* The block has a buffer.
LEMMA GotHit ==
  ASSUME DiskAssumption, IInv, NEW p \in Proc, NEW b \in Buf, buf[b].blk \in Blockno,
         pc[p] = "idle", mine[p] = None,
         buf' = [buf EXCEPT ![b].ref = @ + 1],
         mine' = [mine EXCEPT ![p] = b], pc' = [pc EXCEPT ![p] = "lock"],
         UNCHANGED <<lru, idequeue, disk, active, irq, latest>>
  PROVE  IInv'
<1> USE DEF IInv
<1>1. /\ buf' \in [Buf -> Buffer] /\ buf'[b].ref = buf[b].ref + 1
      /\ \A c \in Buf : SameData(c) /\ buf'[c].lock = buf[c].lock
      /\ \A c \in Buf \ {b} : buf'[c].ref = buf[c].ref
  <2>1. buf[b] \in Buffer /\ buf'[b] = [buf[b] EXCEPT !.ref = buf[b].ref + 1]
    BY DEF TypeOK
  <2>2. \A c \in Buf \ {b} : buf'[c] = buf[c]
    BY DEF TypeOK
  <2>3. buf'[b] \in Buffer /\ buf'[b].ref = buf[b].ref + 1 /\ SameData(b) /\ buf'[b].lock = buf[b].lock
    BY <2>1 DEF Buffer, SameData
  <2>4. buf' \in [Buf -> Buffer]
    BY <2>1, <2>3 DEF TypeOK
  <2> QED  BY <2>2, <2>3, <2>4 DEF SameData
<1>2. /\ mine'[p] = b /\ pc'[p] = "lock"
      /\ \A q \in Proc \ {p} : mine'[q] = mine[q] /\ pc'[q] = pc[q]
      /\ mine' \in [Proc -> Buf \cup {None}] /\ pc' \in [Proc -> Places]
  BY DEF TypeOK, Places
<1>3. TypeOK'
  BY <1>1, <1>2 DEF TypeOK
<1>4. Mine'
  BY <1>1, <1>2 DEF Mine, SameData
<1>5. Refs'
  BY <1>1, RefsTaken
<1>6. Locks'
  <2>1. \A q \in Proc : pc'[q] \in Locked => buf'[mine'[q]].lock = q
    BY <1>1, <1>2 DEF Locks, Mine, Locked
  <2>2. \A c \in Buf, q \in Proc : buf'[c].lock = q => mine'[q] = c /\ pc'[q] \in Locked
    BY <1>1, <1>2 DEF Locks, Locked
  <2> QED  BY <2>1, <2>2 DEF Locks
<1>7. OneBlock'
  BY <1>1 DEF OneBlock, SameData
<1>8. Data'
  BY <1>1, <1>2, DataSame DEF Mine, Data
<1>9. Queue'
  BY <1>1, <1>2, HeadIn, QueueSame
<1> QED  BY <1>3, <1>4, <1>5, <1>6, <1>7, <1>8, <1>9, Zenon

\* The block gets the buffer of another, which nobody has and is not dirty.
LEMMA GotVictim ==
  ASSUME DiskAssumption, IInv, NEW p \in Proc, NEW k \in Blockno, NEW b \in Buf,
         buf[b].ref = 0, buf[b].dirty = FALSE, \A x \in Buf : buf[x].blk # k,
         pc[p] = "idle", mine[p] = None,
         buf' = [buf EXCEPT ![b].blk = k, ![b].valid = FALSE, ![b].ref = 1],
         mine' = [mine EXCEPT ![p] = b], pc' = [pc EXCEPT ![p] = "lock"],
         UNCHANGED <<lru, idequeue, disk, active, irq, latest>>
  PROVE  IInv'
<1> USE DEF IInv
<1>1. /\ buf' \in [Buf -> Buffer] /\ buf'[b].ref = buf[b].ref + 1
      /\ buf'[b].blk = k /\ buf'[b].valid = FALSE /\ buf'[b].dirty = FALSE
      /\ \A c \in Buf : buf'[c].lock = buf[c].lock
      /\ \A c \in Buf \ {b} : SameData(c) /\ buf'[c].ref = buf[c].ref
  BY DEF TypeOK, Buffer, SameData
<1>2. /\ mine'[p] = b /\ pc'[p] = "lock"
      /\ \A q \in Proc \ {p} : mine'[q] = mine[q] /\ pc'[q] = pc[q]
      /\ mine' \in [Proc -> Buf \cup {None}] /\ pc' \in [Proc -> Places]
  BY DEF TypeOK, Places
<1>3. \A q \in Proc : mine[q] # b
  <2>1. Cardinality(Users(b)) = 0
    BY DEF Refs
  <2>2. Users(b) = {}
    BY <2>1, UsersCount
  <2> QED  BY <2>2 DEF Users
<1>4. TypeOK'
  BY <1>1, <1>2 DEF TypeOK
<1>5. Mine'
  <2>1. ASSUME NEW q \in Proc \ {p}, pc[q] # "idle" PROVE mine[q] \in Buf \ {b} /\ buf'[mine[q]].blk \in Blockno
    BY <1>1, <1>3, <2>1 DEF Mine, SameData
  <2> QED  BY <1>1, <1>2, <2>1 DEF Mine
<1>6. Refs'
  BY <1>1, RefsTaken
<1>7. Locks'
  <2>1. \A q \in Proc : pc'[q] \in Locked => buf'[mine'[q]].lock = q
    BY <1>1, <1>2 DEF Locks, Mine, Locked
  <2>2. \A c \in Buf, q \in Proc : buf'[c].lock = q => mine'[q] = c /\ pc'[q] \in Locked
    BY <1>1, <1>2 DEF Locks, Locked
  <2> QED  BY <2>1, <2>2 DEF Locks
<1>8. OneBlock'
  <2> SUFFICES ASSUME NEW c \in Buf, NEW d \in Buf, buf'[c].blk \in Blockno, buf'[c].blk = buf'[d].blk
               PROVE  c = d
    BY DEF OneBlock
  <2>1. CASE c = b \/ d = b
    BY <1>1, <2>1 DEF SameData
  <2>2. CASE c # b /\ d # b
    BY <1>1, <2>2 DEF SameData, OneBlock
  <2> QED  BY <2>1, <2>2
<1>9. Data'
  <2>1. \A c \in Buf : buf'[c].dirty => buf'[c].valid
    BY <1>1 DEF Data, SameData
  <2>2. \A c \in Buf : buf'[c].valid => buf'[c].blk \in Blockno /\ buf'[c].data = latest'[buf'[c].blk]
    BY <1>1 DEF Data, SameData
  <2>3. \A i \in Blockno : disk'[i] = latest'[i] \/ \E c \in Buf : buf'[c].blk = i /\ buf'[c].dirty
    <3> SUFFICES ASSUME NEW i \in Blockno, disk[i] # latest[i]
                 PROVE  \E c \in Buf : buf'[c].blk = i /\ buf'[c].dirty
      OBVIOUS
    <3>1. PICK c \in Buf : buf[c].blk = i /\ buf[c].dirty
      BY DEF Data
    <3>2. c # b
      BY <3>1
    <3> QED  BY <1>1, <3>1, <3>2 DEF SameData
  <2>4. \A q \in Proc : pc'[q] \in {"have", "awake"} =>
          pc[q] = pc'[q] /\ mine'[q] = mine[q] /\ mine[q] \in Buf \ {b} /\ SameData(mine[q])
    BY <1>1, <1>2, <1>3 DEF Mine
  <2>5. \A q \in Proc : pc'[q] = "have" => buf'[mine'[q]].valid
    <3> SUFFICES ASSUME NEW q \in Proc, pc'[q] = "have" PROVE buf'[mine'[q]].valid
      OBVIOUS
    <3>1. buf[mine[q]].valid
      BY <2>4 DEF Data
    <3> QED  BY <2>4, <3>1 DEF SameData
  <2>6. \A q \in Proc : pc'[q] = "awake" => buf'[mine'[q]].valid /\ ~buf'[mine'[q]].dirty
    <3> SUFFICES ASSUME NEW q \in Proc, pc'[q] = "awake"
                 PROVE  buf'[mine'[q]].valid /\ ~buf'[mine'[q]].dirty
      OBVIOUS
    <3>1. buf[mine[q]].valid /\ ~buf[mine[q]].dirty
      BY <2>4 DEF Data
    <3> QED  BY <2>4, <3>1 DEF SameData
  <2> QED  BY <2>1, <2>2, <2>3, <2>5, <2>6, Zenon DEF Data
<1>10. Queue'
  <2>1. idequeue # <<>> => Head(idequeue) \in Buf \ {b}
    BY <1>3, HeadIn, HeadHeld
  <2> QED  BY <1>1, <1>2, <2>1, QueueSame
<1> QED  BY <1>4, <1>5, <1>6, <1>7, <1>8, <1>9, <1>10, Zenon

LEMMA bgetKeeps ==
  ASSUME DiskAssumption, IInv, NEW p \in Proc, NEW k \in Blockno, bget(p, k)
  PROVE  IInv'
<1> USE DEF IInv
<1>1. CASE hit(k) # {}
  <2> DEFINE b == CHOOSE x \in hit(k) : TRUE
  <2>1. b \in Buf /\ buf[b].blk = k
    BY <1>1 DEF hit
  <2>2. /\ pc[p] = "idle" /\ mine[p] = None
        /\ buf' = [buf EXCEPT ![b].ref = @ + 1]
        /\ mine' = [mine EXCEPT ![p] = b] /\ pc' = [pc EXCEPT ![p] = "lock"]
        /\ UNCHANGED <<lru, idequeue, disk, active, irq, latest>>
    BY <1>1 DEF bget, At, Goto, Mine
  <2> HIDE DEF b
  <2> QED  BY <2>1, <2>2, GotHit
<1>2. CASE hit(k) = {} /\ unused # {}
  <2>1. /\ pc[p] = "idle" /\ mine[p] = None
        /\ buf' = [buf EXCEPT ![victim].blk = k, ![victim].valid = FALSE, ![victim].ref = 1]
        /\ mine' = [mine EXCEPT ![p] = victim] /\ pc' = [pc EXCEPT ![p] = "lock"]
        /\ UNCHANGED <<lru, idequeue, disk, active, irq, latest>>
    BY <1>2 DEF bget, At, Goto, Mine
  <2>2. \A x \in Buf : buf[x].blk # k
    BY <1>2 DEF hit
  <2> QED  BY <1>2, <2>1, <2>2, VictimFree, GotVictim
<1>3. CASE hit(k) = {} /\ unused = {}
  <2>1. UNCHANGED <<buf, pc, mine, lru, idequeue, disk, active, irq, latest>>
    BY <1>3 DEF bget
  <2> QED  BY <2>1, SameKeeps
<1> QED  BY <1>1, <1>2, <1>3

\* The fields of buffer b other than its lock stay as they are.
LEMMA LockSet ==
  ASSUME TypeOK, NEW b \in Buf, NEW h \in Proc \cup {None}, buf' = [buf EXCEPT ![b].lock = h]
  PROVE  /\ buf' \in [Buf -> Buffer] /\ buf'[b].lock = h
         /\ \A c \in Buf : SameData(c) /\ buf'[c].ref = buf[c].ref
         /\ \A c \in Buf \ {b} : buf'[c].lock = buf[c].lock
<1>1. buf[b] \in Buffer /\ buf'[b] = [buf[b] EXCEPT !.lock = h]
  BY DEF TypeOK
<1>2. \A c \in Buf \ {b} : buf'[c] = buf[c]
  BY DEF TypeOK
<1>3. buf'[b] \in Buffer /\ buf'[b].lock = h /\ SameData(b) /\ buf'[b].ref = buf[b].ref
  BY <1>1 DEF Buffer, SameData
<1>4. buf' \in [Buf -> Buffer]
  BY <1>1, <1>3 DEF TypeOK
<1> QED  BY <1>2, <1>3, <1>4 DEF SameData

LEMMA breadKeeps ==
  ASSUME DiskAssumption, IInv, NEW p \in Proc, bread(p)
  PROVE  IInv'
<1> USE DEF IInv
<1> DEFINE b == mine[p]
<1>0. /\ pc[p] = "lock" /\ b \in Buf /\ buf[b].lock = None /\ buf' = [buf EXCEPT ![b].lock = p]
      /\ pc' = [pc EXCEPT ![p] = IF buf[b].valid THEN "have" ELSE "iderw"]
      /\ UNCHANGED <<lru, idequeue, disk, active, irq, mine, latest>>
  BY DEF bread, At, Goto, Mine
<1> HIDE DEF b
<1>1. /\ buf' \in [Buf -> Buffer] /\ buf'[b].lock = p
      /\ \A c \in Buf : SameData(c) /\ buf'[c].ref = buf[c].ref
      /\ \A c \in Buf \ {b} : buf'[c].lock = buf[c].lock
  BY <1>0, LockSet
<1>2. /\ pc'[p] \in {"have", "iderw"} /\ (pc'[p] = "have" => buf[b].valid)
      /\ \A q \in Proc \ {p} : pc'[q] = pc[q]
      /\ pc' \in [Proc -> Places] /\ b = mine[p]
  BY <1>0 DEF TypeOK, Places, b
<1>3. TypeOK'
  BY <1>0, <1>1, <1>2 DEF TypeOK
<1>4. Mine'
  BY <1>0, <1>1, <1>2 DEF Mine, SameData
<1>5. Refs'
  BY <1>0, <1>1, RefsSame
<1>6. Locks'
  <2>1. \A q \in Proc : pc'[q] \in Locked => buf'[mine[q]].lock = q
    <3>1. ASSUME NEW q \in Proc \ {p}, pc[q] \in Locked PROVE mine[q] \in Buf \ {b} /\ buf[mine[q]].lock = q
      BY <1>0, <3>1 DEF Locks, Mine, Locked, DiskAssumption
    <3> QED  BY <1>1, <1>2, <3>1
  <2>2. \A c \in Buf, q \in Proc : buf'[c].lock = q => mine[q] = c /\ pc'[q] \in Locked
    <3>1. \A c \in Buf : buf[c].lock # p
      BY <1>0 DEF Locks, Locked
    <3> QED  BY <1>1, <1>2, <3>1 DEF Locks, Locked
  <2> QED  BY <1>0, <2>1, <2>2 DEF Locks
<1>7. OneBlock'
  BY <1>1 DEF OneBlock, SameData
<1>8. Data'
  <2>1. \A q \in Proc : pc'[q] \in {"have", "awake"} => mine[q] \in Buf
    BY <1>0, <1>2 DEF Mine
  <2>2. \A q \in Proc : pc'[q] = "have" => buf[mine[q]].valid
    BY <1>2 DEF Data
  <2>3. \A q \in Proc : pc'[q] = "awake" => buf[mine[q]].valid /\ ~buf[mine[q]].dirty
    BY <1>2 DEF Data
  <2> QED  BY <1>0, <1>1, <2>1, <2>2, <2>3, DataSame
<1>9. Queue'
  <2>1. \A q \in Proc : pc'[q] = "sleep" <=> pc[q] = "sleep"
    BY <1>0, <1>2
  <2> QED  BY <1>0, <1>1, <2>1, HeadIn, QueueSame
<1> QED  BY <1>3, <1>4, <1>5, <1>6, <1>7, <1>8, <1>9, Zenon

-----------------------------------------------------------------------------
(* brelse(). *)

LEMMA brelseKeeps ==
  ASSUME DiskAssumption, IInv, NEW p \in Proc, brelse(p)
  PROVE  IInv'
<1> USE DEF IInv
<1> DEFINE b == mine[p]
<1>0. /\ pc[p] = "have" /\ b \in Buf /\ buf[b].lock = p /\ buf' = [buf EXCEPT ![b].lock = None]
      /\ pc' = [pc EXCEPT ![p] = "drop"]
      /\ UNCHANGED <<lru, idequeue, disk, active, irq, mine, latest>>
  BY DEF brelse, At, Goto, Mine, Locks, Locked
<1> HIDE DEF b
<1>1. /\ buf' \in [Buf -> Buffer] /\ buf'[b].lock = None
      /\ \A c \in Buf : SameData(c) /\ buf'[c].ref = buf[c].ref
      /\ \A c \in Buf \ {b} : buf'[c].lock = buf[c].lock
  BY <1>0, LockSet
<1>2. /\ pc'[p] = "drop" /\ \A q \in Proc \ {p} : pc'[q] = pc[q]
      /\ pc' \in [Proc -> Places] /\ b = mine[p]
  BY <1>0 DEF TypeOK, Places, b
<1>3. TypeOK'
  BY <1>0, <1>1, <1>2 DEF TypeOK
<1>4. Mine'
  BY <1>0, <1>1, <1>2 DEF Mine, SameData
<1>5. Refs'
  BY <1>0, <1>1, RefsSame
<1>6. Locks'
  <2>1. \A q \in Proc : pc'[q] \in Locked => buf'[mine[q]].lock = q
    <3>1. ASSUME NEW q \in Proc \ {p}, pc[q] \in Locked PROVE mine[q] \in Buf \ {b} /\ buf[mine[q]].lock = q
      BY <1>0, <3>1 DEF Locks, Mine, Locked
    <3> QED  BY <1>1, <1>2, <3>1 DEF Locked
  <2>2. \A c \in Buf, q \in Proc : buf'[c].lock = q => mine[q] = c /\ pc'[q] \in Locked
    <3>1. ASSUME NEW c \in Buf, NEW q \in Proc, buf'[c].lock = q PROVE c # b /\ buf[c].lock = q
      BY <1>1, <3>1 DEF DiskAssumption
    <3>2. ASSUME NEW c \in Buf, NEW q \in Proc, c # b, buf[c].lock = q PROVE q # p /\ mine[q] = c /\ pc[q] \in Locked
      BY <1>2, <3>2 DEF Locks
    <3> QED  BY <1>2, <3>1, <3>2
  <2> QED  BY <1>0, <2>1, <2>2 DEF Locks
<1>7. OneBlock'
  BY <1>1 DEF OneBlock, SameData
<1>8. Data'
  <2>1. \A q \in Proc : pc'[q] \in {"have", "awake"} => mine[q] \in Buf
    BY <1>0, <1>2 DEF Mine
  <2>2. \A q \in Proc : pc'[q] = "have" => buf[mine[q]].valid
    BY <1>2 DEF Data
  <2>3. \A q \in Proc : pc'[q] = "awake" => buf[mine[q]].valid /\ ~buf[mine[q]].dirty
    BY <1>2 DEF Data
  <2> QED  BY <1>0, <1>1, <2>1, <2>2, <2>3, DataSame
<1>9. Queue'
  <2>1. \A q \in Proc : pc'[q] = "sleep" <=> pc[q] = "sleep"
    BY <1>0, <1>2
  <2> QED  BY <1>0, <1>1, <2>1, HeadIn, QueueSame
<1> QED  BY <1>3, <1>4, <1>5, <1>6, <1>7, <1>8, <1>9, Zenon

\* A step of the list moves no buffer out of it.
LEMMA MovedType ==
  ASSUME DiskAssumption, TypeOK, NEW b \in Buf
  PROVE  moved(b) \in [Buf -> Buf]
<1>1. ASSUME NEW n \in Buf, n # 1 PROVE n - 1 \in Buf
  BY <1>1 DEF Buf, DiskAssumption
<1>2. ASSUME NEW n \in Buf
      PROVE  (IF n = 1 THEN b ELSE IF \E m \in n..NBUF : lru[m] = b THEN lru[n - 1] ELSE lru[n]) \in Buf
  BY <1>1 DEF TypeOK
<1> QED  BY <1>2 DEF moved

LEMMA dropKeeps ==
  ASSUME DiskAssumption, IInv, NEW p \in Proc, drop(p)
  PROVE  IInv'
<1> USE DEF IInv
<1> DEFINE b == mine[p]
<1>0. /\ pc[p] = "drop" /\ b \in Buf /\ buf' = [buf EXCEPT ![b].ref = @ - 1]
      /\ lru' = (IF buf[b].ref = 1 THEN moved(b) ELSE lru)
      /\ mine' = [mine EXCEPT ![p] = None] /\ pc' = [pc EXCEPT ![p] = "idle"]
      /\ UNCHANGED <<idequeue, disk, active, irq, latest>>
  BY DEF drop, At, Goto, Mine
<1>00. b = mine[p]
  OBVIOUS
<1> HIDE DEF b
<1>1. /\ buf'[b].ref = buf[b].ref - 1
      /\ \A c \in Buf : SameData(c) /\ buf'[c].lock = buf[c].lock
      /\ \A c \in Buf \ {b} : buf'[c].ref = buf[c].ref
      /\ buf'[b] = [buf[b] EXCEPT !.ref = buf[b].ref - 1] /\ buf[b] \in Buffer
  <2>1. buf[b] \in Buffer /\ buf'[b] = [buf[b] EXCEPT !.ref = buf[b].ref - 1]
    BY <1>0 DEF TypeOK
  <2>2. \A c \in Buf \ {b} : buf'[c] = buf[c]
    BY <1>0 DEF TypeOK
  <2>3. buf'[b].ref = buf[b].ref - 1 /\ SameData(b) /\ buf'[b].lock = buf[b].lock
    BY <2>1 DEF Buffer, SameData
  <2> QED  BY <2>1, <2>2, <2>3 DEF SameData
<1>2. /\ mine'[p] = None /\ pc'[p] = "idle"
      /\ \A q \in Proc \ {p} : mine'[q] = mine[q] /\ pc'[q] = pc[q]
      /\ mine' \in [Proc -> Buf \cup {None}] /\ pc' \in [Proc -> Places]
  BY <1>0 DEF TypeOK, Places
<1>3. Refs' /\ buf'[b].ref \in Nat
  BY <1>0, <1>00, <1>1, RefsDropped
<1>4. TypeOK'
  <2>1. buf'[b] \in Buffer
    BY <1>1, <1>3 DEF Buffer
  <2>2. buf' \in [Buf -> Buffer]
    BY <1>0, <2>1 DEF TypeOK
  <2>3. lru' \in [Buf -> Buf]
    BY <1>0, MovedType DEF TypeOK
  <2> QED  BY <1>0, <1>2, <2>2, <2>3 DEF TypeOK
<1>5. Mine'
  BY <1>1, <1>2 DEF Mine, SameData
<1>6. Locks'
  <2>1. \A q \in Proc : pc'[q] \in Locked => buf'[mine'[q]].lock = q
    BY <1>1, <1>2 DEF Locks, Mine, Locked
  <2>2. \A c \in Buf, q \in Proc : buf'[c].lock = q => mine'[q] = c /\ pc'[q] \in Locked
    BY <1>0, <1>1, <1>2 DEF Locks, Locked
  <2> QED  BY <2>1, <2>2 DEF Locks
<1>7. OneBlock'
  BY <1>1 DEF OneBlock, SameData
<1>8. Data'
  <2>1. \A q \in Proc : pc'[q] \in {"have", "awake"} => mine'[q] \in Buf /\ pc'[q] = pc[q] /\ mine'[q] = mine[q]
    BY <1>2 DEF Mine
  <2>2. \A q \in Proc : pc'[q] = "have" => buf[mine'[q]].valid
    BY <2>1 DEF Data
  <2>3. \A q \in Proc : pc'[q] = "awake" => buf[mine'[q]].valid /\ ~buf[mine'[q]].dirty
    BY <2>1 DEF Data
  <2> QED  BY <1>0, <1>1, <2>1, <2>2, <2>3, DataSame
<1>9. Queue'
  <2>1. \A q \in Proc : pc'[q] = "sleep" <=> pc[q] = "sleep"
    BY <1>0, <1>2
  <2>2. \A q \in Proc : pc[q] = "sleep" => mine'[q] = mine[q]
    BY <1>0, <1>2
  <2> QED  BY <1>0, <1>1, <2>1, <2>2, HeadIn, QueueSame
<1> QED  BY <1>3, <1>4, <1>5, <1>6, <1>7, <1>8, <1>9, Zenon

-----------------------------------------------------------------------------
(* bwrite() and log_write(): the owner of a buffer changes it. *)

LEMMA PutKeeps ==
  ASSUME DiskAssumption, IInv, NEW p \in Proc, NEW v \in Value, Put(p, v),
         \/ pc' = [pc EXCEPT ![p] = "iderw"] \/ pc' = pc
  PROVE  IInv'
<1> USE DEF IInv
<1> DEFINE b == mine[p]
           k == buf[b].blk
<1>0. /\ pc[p] = "have" /\ b \in Buf /\ k \in Blockno /\ buf[b].lock = p
      /\ buf' = [buf EXCEPT ![b].data = v, ![b].dirty = TRUE]
      /\ latest' = [latest EXCEPT ![k] = v]
      /\ UNCHANGED <<lru, idequeue, disk, active, irq, mine>>
  BY DEF Put, At, Mine, Locks, Locked
<1>00. b = mine[p] /\ k = buf[b].blk
  OBVIOUS
<1> HIDE DEF b, k
<1>1. /\ buf' \in [Buf -> Buffer]
      /\ buf'[b].blk = k /\ buf'[b].valid = buf[b].valid /\ buf'[b].dirty = TRUE /\ buf'[b].data = v
      /\ \A c \in Buf : buf'[c].blk = buf[c].blk /\ buf'[c].ref = buf[c].ref /\ buf'[c].lock = buf[c].lock
      /\ \A c \in Buf \ {b} : SameData(c)
  <2>1. buf[b] \in Buffer /\ buf'[b] = [buf[b] EXCEPT !.data = v, !.dirty = TRUE]
    BY <1>0 DEF TypeOK
  <2>2. \A c \in Buf \ {b} : buf'[c] = buf[c]
    BY <1>0 DEF TypeOK
  <2>3. /\ buf'[b] \in Buffer /\ buf'[b].blk = k /\ buf'[b].valid = buf[b].valid /\ buf'[b].dirty = TRUE
        /\ buf'[b].data = v /\ buf'[b].ref = buf[b].ref /\ buf'[b].lock = buf[b].lock
    BY <1>00, <2>1 DEF Buffer
  <2>4. buf' \in [Buf -> Buffer]
    BY <1>0, <2>3 DEF TypeOK
  <2> QED  BY <1>00, <2>2, <2>3, <2>4 DEF SameData
<1>2. /\ pc'[p] \in {"iderw", "have"} /\ \A q \in Proc \ {p} : pc'[q] = pc[q]
      /\ pc' \in [Proc -> Places]
  BY <1>0 DEF TypeOK, Places
<1>3. latest' \in [Blockno -> Value] /\ latest'[k] = v /\ \A i \in Blockno \ {k} : latest'[i] = latest[i]
  BY <1>0 DEF TypeOK
<1>4. TypeOK'
  BY <1>0, <1>1, <1>2, <1>3 DEF TypeOK
<1>5. Mine'
  BY <1>0, <1>1, <1>2 DEF Mine
<1>6. Refs'
  BY <1>0, <1>1, RefsSame
<1>7. Locks'
  <2>1. \A q \in Proc : pc'[q] \in Locked => buf'[mine[q]].lock = q
    BY <1>0, <1>1, <1>2 DEF Locks, Mine, Locked
  <2>2. \A c \in Buf, q \in Proc : buf'[c].lock = q => mine[q] = c /\ pc'[q] \in Locked
    BY <1>1, <1>2 DEF Locks, Locked
  <2> QED  BY <1>0, <2>1, <2>2 DEF Locks
<1>8. OneBlock'
  BY <1>1 DEF OneBlock
<1>9. \A c \in Buf \ {b} : buf[c].blk # k
  BY <1>0, <1>00 DEF OneBlock
<1>10. Data'
  <2>0. buf[b].valid
    BY <1>0, <1>00 DEF Data
  <2>1. \A c \in Buf : buf'[c].dirty => buf'[c].valid
    BY <1>1, <2>0 DEF Data, SameData
  <2>2. \A c \in Buf : buf'[c].valid => buf'[c].blk \in Blockno /\ buf'[c].data = latest'[buf'[c].blk]
    <3>1. ASSUME NEW c \in Buf \ {b}, buf'[c].valid
          PROVE  buf'[c].blk \in Blockno /\ buf'[c].data = latest'[buf'[c].blk]
      <4>1. buf[c].valid /\ buf'[c].blk = buf[c].blk /\ buf'[c].data = buf[c].data
        BY <1>1, <3>1 DEF SameData
      <4>2. buf[c].blk \in Blockno /\ buf[c].data = latest[buf[c].blk]
        BY <4>1 DEF Data
      <4> QED  BY <1>3, <1>9, <4>1, <4>2
    <3> QED  BY <1>0, <1>1, <1>3, <3>1
  <2>3. \A i \in Blockno : disk'[i] = latest'[i] \/ \E c \in Buf : buf'[c].blk = i /\ buf'[c].dirty
    <3> SUFFICES ASSUME NEW i \in Blockno, disk[i] # latest'[i]
                 PROVE  \E c \in Buf : buf'[c].blk = i /\ buf'[c].dirty
      BY <1>0
    <3>1. CASE i = k
      BY <1>0, <1>1, <3>1
    <3>2. CASE i # k
      <4>1. PICK c \in Buf : buf[c].blk = i /\ buf[c].dirty
        BY <1>3, <3>2 DEF Data
      <4> QED  BY <1>00, <1>1, <3>2, <4>1 DEF SameData
    <3> QED  BY <3>1, <3>2
  <2>4. \A q \in Proc : pc'[q] = "have" => buf'[mine'[q]].valid
    <3> SUFFICES ASSUME NEW q \in Proc, pc'[q] = "have" PROVE buf'[mine[q]].valid
      BY <1>0
    <3>1. pc[q] = "have" /\ mine[q] \in Buf
      BY <1>0, <1>2 DEF Mine
    <3>2. buf[mine[q]].valid
      BY <3>1 DEF Data
    <3> QED  BY <1>1, <3>1, <3>2 DEF SameData
  <2>5. \A q \in Proc : pc'[q] = "awake" => buf'[mine'[q]].valid /\ ~buf'[mine'[q]].dirty
    <3> SUFFICES ASSUME NEW q \in Proc, pc'[q] = "awake" PROVE buf'[mine[q]].valid /\ ~buf'[mine[q]].dirty
      BY <1>0
    <3>1. q # p /\ pc[q] = "awake" /\ mine[q] \in Buf
      BY <1>2 DEF Mine
    <3>2. mine[q] # b
      BY <1>0, <3>1 DEF Locks, Locked
    <3>3. buf[mine[q]].valid /\ ~buf[mine[q]].dirty
      BY <3>1 DEF Data
    <3> QED  BY <1>1, <3>1, <3>2, <3>3 DEF SameData
  <2> QED  BY <2>1, <2>2, <2>3, <2>4, <2>5, Zenon DEF Data
<1>11. Queue'
  <2>1. \A q \in Proc : pc'[q] = "sleep" <=> pc[q] = "sleep"
    BY <1>0, <1>2
  <2>2. ASSUME idequeue # <<>>
        PROVE  SameData(Head(idequeue)) /\ latest'[buf[Head(idequeue)].blk] = latest[buf[Head(idequeue)].blk]
    <3>1. PICK q \in Proc : pc[q] = "sleep" /\ mine[q] = Head(idequeue) /\ buf[Head(idequeue)].lock = q
      BY <2>2, HeadHeld
    <3>2. Head(idequeue) \in Buf \ {b} /\ buf[Head(idequeue)].blk \in Blockno
      BY <1>0, <3>1 DEF Mine
    <3> QED  BY <1>1, <1>3, <1>9, <3>2
  <2> QED  BY <1>0, <2>1, <2>2, QueueSame
<1> QED  BY <1>4, <1>5, <1>6, <1>7, <1>8, <1>10, <1>11, Zenon

LEMMA bwriteKeeps ==
  ASSUME DiskAssumption, IInv, NEW p \in Proc, NEW v \in Value, bwrite(p, v) \/ log_write(p, v)
  PROVE  IInv'
<1>1. CASE bwrite(p, v)
  BY <1>1, PutKeeps DEF bwrite, Goto
<1>2. CASE log_write(p, v)
  BY <1>2, PutKeeps DEF log_write
<1> QED  BY <1>1, <1>2

-----------------------------------------------------------------------------
(* iderw(), the disk and its interrupt. *)

\* Append b to idequeue.
LEMMA Appended ==
  ASSUME NEW s \in Seq(Buf), NEW b \in Buf, NEW t, t = Append(s, b)
  PROVE  /\ t \in Seq(Buf) /\ Len(t) = Len(s) + 1 /\ Len(s) \in Nat /\ t # <<>>
         /\ \A n \in 1..Len(s) : n \in 1..Len(t) /\ t[n] = s[n]
         /\ Len(t) \in 1..Len(t) /\ t[Len(t)] = b
         /\ \A n \in 1..Len(t) : n \in 1..Len(s) \/ n = Len(t)
         /\ Head(t) = IF s = <<>> THEN b ELSE Head(s)
<1>1. Len(s) \in Nat /\ t \in Seq(Buf) /\ Len(t) = Len(s) + 1
  OBVIOUS
<1>2. \A n \in 1..Len(s) : n \in 1..Len(t) /\ t[n] = s[n]
  BY <1>1
<1>3. Len(t) \in 1..Len(t) /\ t[Len(t)] = b /\ t # <<>> /\ Head(t) = t[1]
  BY <1>1
<1>4. CASE s = <<>>
  <2>1. Len(t) = 1
    BY <1>1, <1>4
  <2> QED  BY <1>1, <1>2, <1>3, <1>4, <2>1
<1>5. CASE s # <<>>
  <2>1. 1 \in 1..Len(s) /\ Head(s) = s[1]
    BY <1>1, <1>5
  <2> QED  BY <1>1, <1>2, <1>3, <1>5, <2>1
<1> QED  BY <1>4, <1>5

LEMMA iderwKeeps ==
  ASSUME DiskAssumption, IInv, NEW p \in Proc, iderw(p)
  PROVE  IInv'
<1> USE DEF IInv
<1> DEFINE b == mine[p]
<1>0. /\ pc[p] = "iderw" /\ b \in Buf /\ idequeue' = Append(idequeue, b)
      /\ active' = (IF idequeue = <<>> THEN idestart(b) ELSE active)
      /\ pc' = [pc EXCEPT ![p] = "sleep"]
      /\ UNCHANGED <<buf, lru, disk, irq, mine, latest>>
  BY DEF iderw, At, Goto, Mine
<1>00. b = mine[p]
  OBVIOUS
<1> HIDE DEF b
<1>1. pc'[p] = "sleep" /\ pc' \in [Proc -> Places] /\ \A q \in Proc \ {p} : pc'[q] = pc[q]
  BY <1>0 DEF TypeOK, Places
<1>2. /\ idequeue' \in Seq(Buf) /\ idequeue' # <<>>
      /\ \A n \in 1..Len(idequeue) : n \in 1..Len(idequeue') /\ idequeue'[n] = idequeue[n]
      /\ Len(idequeue') \in 1..Len(idequeue') /\ idequeue'[Len(idequeue')] = b
      /\ \A n \in 1..Len(idequeue') : n \in 1..Len(idequeue) \/ n = Len(idequeue')
      /\ Head(idequeue') = IF idequeue = <<>> THEN b ELSE Head(idequeue)
  BY <1>0, Appended DEF TypeOK
<1>3. TypeOK'
  BY <1>0, <1>1, <1>2 DEF TypeOK
<1>4. Mine'
  BY <1>0, <1>1 DEF Mine
<1>5. Refs'
  BY <1>0, RefsSame
<1>6. Locks'
  <2>1. \A q \in Proc : pc'[q] \in Locked <=> pc[q] \in Locked
    BY <1>0, <1>1 DEF Locked
  <2> QED  BY <1>0, <2>1 DEF Locks
<1>7. OneBlock'
  BY <1>0 DEF OneBlock
<1>8. Data'
  <2>1. \A q \in Proc : pc'[q] \in {"have", "awake"} => mine[q] \in Buf /\ pc'[q] = pc[q]
    BY <1>1 DEF Mine
  <2>2. \A q \in Proc : pc'[q] = "have" => buf[mine[q]].valid
    BY <2>1 DEF Data
  <2>3. \A q \in Proc : pc'[q] = "awake" => buf[mine[q]].valid /\ ~buf[mine[q]].dirty
    BY <2>1 DEF Data
  <2> QED  BY <1>0, <2>1, <2>2, <2>3, DataSame DEF SameData
<1>9. \A n \in 1..Len(idequeue) : idequeue[n] # b
  <2> SUFFICES ASSUME NEW n \in 1..Len(idequeue), idequeue[n] = b PROVE FALSE
    OBVIOUS
  <2>1. PICK q \in Proc : mine[q] = b /\ pc[q] = "sleep"
    BY DEF Queue
  <2>2. buf[b].lock = q /\ buf[b].lock = p
    BY <1>0, <1>00, <2>1 DEF Locks, Locked
  <2> QED  BY <1>0, <2>1, <2>2
<1>10. Queue'
  <2>1. \A n \in 1..Len(idequeue') : \E q \in Proc : mine'[q] = idequeue'[n] /\ pc'[q] = "sleep"
    <3> SUFFICES ASSUME NEW n \in 1..Len(idequeue')
                 PROVE  \E q \in Proc : mine[q] = idequeue'[n] /\ pc'[q] = "sleep"
      BY <1>0
    <3>1. CASE n \in 1..Len(idequeue)
      <4>1. PICK q \in Proc : mine[q] = idequeue[n] /\ pc[q] = "sleep"
        BY <3>1 DEF Queue
      <4> QED  BY <1>0, <1>1, <1>2, <3>1, <4>1
    <3>2. CASE n = Len(idequeue')
      BY <1>00, <1>1, <1>2, <3>2
    <3> QED  BY <1>2, <3>1, <3>2
  <2>2. \A q \in Proc : pc'[q] = "sleep" => \E n \in 1..Len(idequeue') : idequeue'[n] = mine'[q]
    <3> SUFFICES ASSUME NEW q \in Proc, pc'[q] = "sleep"
                 PROVE  \E n \in 1..Len(idequeue') : idequeue'[n] = mine[q]
      BY <1>0
    <3>1. CASE q = p
      BY <1>00, <1>2, <3>1
    <3>2. CASE q # p
      <4>1. PICK n \in 1..Len(idequeue) : idequeue[n] = mine[q]
        BY <1>1, <3>2 DEF Queue
      <4> QED  BY <1>2, <4>1
    <3> QED  BY <3>1, <3>2
  <2>3. \A m, n \in 1..Len(idequeue') : idequeue'[m] = idequeue'[n] => m = n
    <3> SUFFICES ASSUME NEW m \in 1..Len(idequeue'), NEW n \in 1..Len(idequeue'), idequeue'[m] = idequeue'[n]
                 PROVE  m = n
      OBVIOUS
    <3>1. CASE m \in 1..Len(idequeue) /\ n \in 1..Len(idequeue)
      BY <1>2, <3>1 DEF Queue
    <3>2. CASE m = Len(idequeue') \/ n = Len(idequeue')
      BY <1>2, <1>9, <3>2
    <3> QED  BY <1>2, <3>1, <3>2
  <2>4. active' = idestart(Head(idequeue))'
    <3>1. active' = idestart(Head(idequeue'))
      BY <1>0, <1>2 DEF Queue
    <3> QED  BY <1>0, <3>1 DEF idestart
  <2>5. irq' /\ buf'[Head(idequeue')].dirty =>
          disk'[buf'[Head(idequeue')].blk] = latest'[buf'[Head(idequeue')].blk]
    BY <1>0, <1>2 DEF Queue
  <2> QED  BY <1>2, <2>1, <2>2, <2>3, <2>4, <2>5, Zenon DEF Queue
<1> QED  BY <1>3, <1>4, <1>5, <1>6, <1>7, <1>8, <1>10, Zenon

LEMMA waitedKeeps ==
  ASSUME DiskAssumption, IInv, NEW p \in Proc, waited(p)
  PROVE  IInv'
<1> USE DEF IInv
<1>0. /\ pc[p] = "awake" /\ mine[p] \in Buf /\ buf[mine[p]].valid /\ pc' = [pc EXCEPT ![p] = "have"]
      /\ UNCHANGED <<buf, lru, idequeue, disk, active, irq, mine, latest>>
  BY DEF waited, At, Goto, Mine, Data
<1>1. pc'[p] = "have" /\ pc' \in [Proc -> Places] /\ \A q \in Proc \ {p} : pc'[q] = pc[q]
  BY <1>0 DEF TypeOK, Places
<1>3. TypeOK'
  BY <1>0, <1>1 DEF TypeOK
<1>4. Mine'
  BY <1>0, <1>1 DEF Mine
<1>5. Refs'
  BY <1>0, RefsSame
<1>6. Locks'
  <2>1. \A q \in Proc : pc'[q] \in Locked <=> pc[q] \in Locked
    BY <1>0, <1>1 DEF Locked
  <2> QED  BY <1>0, <2>1 DEF Locks
<1>7. OneBlock'
  BY <1>0 DEF OneBlock
<1>8. Data'
  <2>1. \A q \in Proc : pc'[q] \in {"have", "awake"} => mine[q] \in Buf
    BY <1>0, <1>1 DEF Mine
  <2>2. \A q \in Proc : pc'[q] = "have" => buf[mine[q]].valid
    BY <1>0, <1>1 DEF Data
  <2>3. \A q \in Proc : pc'[q] = "awake" => buf[mine[q]].valid /\ ~buf[mine[q]].dirty
    BY <1>1 DEF Data
  <2> QED  BY <1>0, <2>1, <2>2, <2>3, DataSame DEF SameData
<1>9. Queue'
  <2>1. \A q \in Proc : pc'[q] = "sleep" <=> pc[q] = "sleep"
    BY <1>0, <1>1
  <2> QED  BY <1>0, <2>1, QueueSame DEF SameData
<1> QED  BY <1>3, <1>4, <1>5, <1>6, <1>7, <1>8, <1>9, Zenon

\* The disk has done what the first buffer of the queue asks for.
LEMMA DiskMoves ==
  ASSUME IInv, idequeue # <<>>, NEW k \in Blockno, k = buf[Head(idequeue)].blk,
         disk' \in [Blockno -> Value], \A i \in Blockno \ {k} : disk'[i] = disk[i],
         \/ disk'[k] = latest[k]
         \/ disk'[k] = disk[k] /\ ~buf[Head(idequeue)].dirty,
         UNCHANGED <<buf, lru, idequeue, active, pc, mine, latest>>, irq' = TRUE
  PROVE  IInv'
<1> USE DEF IInv
<1>1. TypeOK' /\ Mine' /\ Locks' /\ OneBlock'
  BY DEF TypeOK, Mine, Locks, OneBlock
<1>2. Refs'
  BY RefsSame
<1>3. Data'
  <2>1. \A i \in Blockno : disk'[i] = latest'[i] \/ \E b \in Buf : buf'[b].blk = i /\ buf'[b].dirty
    <3> SUFFICES ASSUME NEW i \in Blockno, disk'[i] # latest[i]
                 PROVE  \E b \in Buf : buf[b].blk = i /\ buf[b].dirty
      OBVIOUS
    <3>1. disk'[i] = disk[i]
      OBVIOUS
    <3> QED  BY <3>1 DEF Data
  <2>2. /\ \A b \in Buf : buf'[b].dirty => buf'[b].valid
        /\ \A b \in Buf : buf'[b].valid => buf'[b].blk \in Blockno /\ buf'[b].data = latest'[buf'[b].blk]
    BY DEF Data
  <2>3. /\ \A p \in Proc : pc'[p] = "have" => buf'[mine'[p]].valid
        /\ \A p \in Proc : pc'[p] = "awake" => buf'[mine'[p]].valid /\ ~buf'[mine'[p]].dirty
    BY DEF Data
  <2> QED  BY <2>1, <2>2, <2>3, Zenon DEF Data
<1>4. Queue'
  <2>1. /\ \A n \in 1..Len(idequeue') : \E p \in Proc : mine'[p] = idequeue'[n] /\ pc'[p] = "sleep"
        /\ \A p \in Proc : pc'[p] = "sleep" => \E n \in 1..Len(idequeue') : idequeue'[n] = mine'[p]
        /\ \A m, n \in 1..Len(idequeue') : idequeue'[m] = idequeue'[n] => m = n
        /\ idequeue' # <<>>
    BY DEF Queue
  <2>2. active' = idestart(Head(idequeue))'
    BY DEF Queue, idestart
  <2>3. ASSUME buf[Head(idequeue)].dirty PROVE disk'[k] = latest[k]
    BY <2>3
  <2> QED  BY <2>1, <2>2, <2>3 DEF Queue
<1> QED  BY <1>1, <1>2, <1>3, <1>4, Zenon

LEMMA deviceKeeps ==
  ASSUME DiskAssumption, IInv, device
  PROVE  IInv'
<1> USE DEF IInv
<1> DEFINE h == Head(idequeue)
           k == buf[h].blk
<1>0. /\ idequeue # <<>> /\ active = idestart(h)
      /\ disk' = (IF active[2] = "write" THEN [disk EXCEPT ![active[1]] = active[3]] ELSE disk)
      /\ UNCHANGED <<buf, lru, idequeue, active, pc, mine, latest>> /\ irq' = TRUE
  BY DEF device, Queue
<1>1. h \in Buf /\ k \in Blockno
  <2>1. PICK q \in Proc : pc[q] = "sleep" /\ mine[q] = h
    BY <1>0, HeadHeld
  <2> QED  BY <1>0, <2>1, HeadIn DEF Mine
<1>2. CASE buf[h].dirty
  <2>1. disk' = [disk EXCEPT ![k] = buf[h].data] /\ buf[h].data = latest[k]
    BY <1>0, <1>1, <1>2 DEF idestart, Data
  <2>2. disk' \in [Blockno -> Value] /\ disk'[k] = latest[k] /\ \A i \in Blockno \ {k} : disk'[i] = disk[i]
    BY <1>1, <2>1 DEF TypeOK
  <2> QED  BY <1>0, <2>2, <1>1, DiskMoves
<1>3. CASE ~buf[h].dirty
  <2>1. disk' = disk
    BY <1>0, <1>3 DEF idestart
  <2> QED  BY <1>0, <1>1, <1>3, <2>1, DiskMoves DEF TypeOK
<1> QED  BY <1>2, <1>3

\* The first buffer leaves idequeue.
LEMMA Shifted ==
  ASSUME NEW s \in Seq(Buf), s # <<>>, NEW t, t = Tail(s)
  PROVE  /\ t \in Seq(Buf) /\ Len(t) \in Nat
         /\ \A n \in 1..Len(t) : n + 1 \in 1..Len(s) /\ n + 1 # 1 /\ t[n] = s[n + 1]
         /\ \A n \in 1..Len(s) : n # 1 => n - 1 \in 1..Len(t) /\ t[n - 1] = s[n]
<1>1. Len(s) \in Nat \ {0} /\ t \in Seq(Buf) /\ Len(t) = Len(s) - 1
  OBVIOUS
<1>2. \A n \in 1..Len(t) : t[n] = s[n + 1]
  BY <1>1
<1>3. \A n \in 1..Len(t) : n + 1 \in 1..Len(s) /\ n + 1 # 1
  BY <1>1
<1>4. \A n \in 1..Len(s) : n # 1 => n - 1 \in 1..Len(t) /\ (n - 1) + 1 = n
  BY <1>1
<1> QED  BY <1>1, <1>2, <1>3, <1>4

LEMMA ideintrKeeps ==
  ASSUME DiskAssumption, IInv, ideintr
  PROVE  IInv'
<1> USE DEF IInv
<1>0. CASE idequeue = <<>>
  <2>1. UNCHANGED <<buf, pc, mine, lru, idequeue, disk, active, irq, latest>>
    BY <1>0 DEF ideintr
  <2> QED  BY <2>1, SameKeeps
<1> SUFFICES ASSUME idequeue # <<>> PROVE IInv'
  BY <1>0
<1> DEFINE b == Head(idequeue)
           k == buf[b].blk
<1>1. /\ irq /\ idequeue' = Tail(idequeue) /\ irq' = FALSE
      /\ buf' = [buf EXCEPT ![b].data = IF buf[b].dirty THEN @ ELSE disk[active[1]],
                            ![b].valid = TRUE, ![b].dirty = FALSE]
      /\ wakeup(b) /\ active' = started(Tail(idequeue))
      /\ UNCHANGED <<lru, disk, mine, latest>>
  BY DEF ideintr
<1>2. b \in Buf /\ b = idequeue[1] /\ 1 \in 1..Len(idequeue) /\ active = idestart(b)
  BY HeadIn DEF Queue
<1>3. PICK w \in Proc : pc[w] = "sleep" /\ mine[w] = b /\ buf[b].lock = w
  BY HeadHeld
<1>4. k \in Blockno /\ active[1] = k
  BY <1>2, <1>3 DEF Mine, idestart
<1>5. disk[k] = latest[k] /\ (buf[b].dirty => buf[b].data = latest[k])
  <2>1. CASE buf[b].dirty
    BY <1>1, <1>2, <2>1 DEF Queue, Data
  <2>2. CASE ~buf[b].dirty
    <3>1. \A c \in Buf : buf[c].blk = k => c = b
      BY <1>2, <1>4 DEF OneBlock
    <3> QED  BY <1>4, <2>2, <3>1 DEF Data
  <2> QED  BY <2>1, <2>2
<1>00. b = Head(idequeue) /\ k = buf[b].blk
  OBVIOUS
<1> HIDE DEF b, k
<1>6. /\ buf' \in [Buf -> Buffer]
      /\ buf'[b].data = latest[k] /\ buf'[b].valid = TRUE /\ buf'[b].dirty = FALSE
      /\ \A c \in Buf : buf'[c].blk = buf[c].blk /\ buf'[c].ref = buf[c].ref /\ buf'[c].lock = buf[c].lock
      /\ \A c \in Buf \ {b} : SameData(c)
  <2> DEFINE d == IF buf[b].dirty THEN buf[b].data ELSE disk[active[1]]
  <2>1. d = latest[k] /\ latest[k] \in Value
    BY <1>4, <1>5 DEF TypeOK
  <2>2. buf[b] \in Buffer /\ buf'[b] = [buf[b] EXCEPT !.data = d, !.valid = TRUE, !.dirty = FALSE]
    BY <1>1, <1>2 DEF TypeOK
  <2>3. \A c \in Buf \ {b} : buf'[c] = buf[c]
    BY <1>1 DEF TypeOK
  <2> HIDE DEF d
  <2>4. /\ buf'[b] \in Buffer /\ buf'[b].data = d /\ buf'[b].valid = TRUE /\ buf'[b].dirty = FALSE
        /\ buf'[b].blk = buf[b].blk /\ buf'[b].ref = buf[b].ref /\ buf'[b].lock = buf[b].lock
    BY <2>1, <2>2 DEF Buffer
  <2>5. buf' \in [Buf -> Buffer]
    BY <1>1, <1>2, <2>4 DEF TypeOK
  <2> QED  BY <2>1, <2>3, <2>4, <2>5 DEF SameData
<1>7. /\ pc' \in [Proc -> Places]
      /\ \A p \in Proc : pc'[p] = IF pc[p] = "sleep" /\ mine[p] = b THEN "awake" ELSE pc[p]
  BY <1>1 DEF wakeup, TypeOK, Places
<1>8. /\ idequeue' \in Seq(Buf)
      /\ \A n \in 1..Len(idequeue') : n + 1 \in 1..Len(idequeue) /\ n + 1 # 1 /\ idequeue'[n] = idequeue[n + 1]
      /\ \A n \in 1..Len(idequeue) : n # 1 => n - 1 \in 1..Len(idequeue') /\ idequeue'[n - 1] = idequeue[n]
  BY <1>1, Shifted DEF TypeOK
<1>9. \A n \in 1..Len(idequeue) : n # 1 => idequeue[n] # b
  BY <1>2 DEF Queue
<1>10. TypeOK'
  BY <1>1, <1>6, <1>7, <1>8 DEF TypeOK
<1>11. Mine'
  BY <1>1, <1>6, <1>7 DEF Mine
<1>12. Refs'
  BY <1>1, <1>6, RefsSame
<1>13. Locks'
  <2>1. \A q \in Proc : pc'[q] \in Locked <=> pc[q] \in Locked
    BY <1>7 DEF Locked
  <2>2. \A q \in Proc : pc[q] \in Locked => mine[q] \in Buf
    BY DEF Mine, Locked
  <2>3. \A q \in Proc : pc'[q] \in Locked => buf'[mine[q]].lock = q
    BY <1>6, <2>1, <2>2 DEF Locks
  <2>4. \A c \in Buf, q \in Proc : buf'[c].lock = q => mine[q] = c /\ pc'[q] \in Locked
    BY <1>6, <2>1 DEF Locks
  <2> QED  BY <1>1, <2>3, <2>4 DEF Locks
<1>14. OneBlock'
  BY <1>6 DEF OneBlock
<1>15. Data'
  <2>1. \A c \in Buf : buf'[c].dirty => buf'[c].valid
    BY <1>6 DEF Data, SameData
  <2>2. \A c \in Buf : buf'[c].valid => buf'[c].blk \in Blockno /\ buf'[c].data = latest'[buf'[c].blk]
    <3> SUFFICES ASSUME NEW c \in Buf, buf'[c].valid
                 PROVE  buf'[c].blk \in Blockno /\ buf'[c].data = latest[buf'[c].blk]
      BY <1>1
    <3>1. CASE c = b
      BY <1>00, <1>4, <1>6, <3>1
    <3>2. CASE c # b
      <4>1. buf[c].valid /\ buf'[c].blk = buf[c].blk /\ buf'[c].data = buf[c].data
        BY <1>6, <3>2 DEF SameData
      <4> QED  BY <4>1 DEF Data
    <3> QED  BY <3>1, <3>2
  <2>3. \A i \in Blockno : disk'[i] = latest'[i] \/ \E c \in Buf : buf'[c].blk = i /\ buf'[c].dirty
    <3> SUFFICES ASSUME NEW i \in Blockno, disk[i] # latest[i]
                 PROVE  \E c \in Buf : buf'[c].blk = i /\ buf'[c].dirty
      BY <1>1
    <3>1. PICK c \in Buf : buf[c].blk = i /\ buf[c].dirty
      BY DEF Data
    <3>2. c # b
      BY <1>00, <1>5, <3>1
    <3> QED  BY <1>6, <3>1, <3>2 DEF SameData
  <2>4. \A q \in Proc : pc'[q] = "have" => buf'[mine'[q]].valid
    <3> SUFFICES ASSUME NEW q \in Proc, pc'[q] = "have" PROVE buf'[mine[q]].valid
      BY <1>1
    <3>1. pc[q] = "have" /\ mine[q] \in Buf
      BY <1>7 DEF Mine
    <3>2. buf[mine[q]].valid
      BY <3>1 DEF Data
    <3> QED  BY <1>6, <3>1, <3>2 DEF SameData
  <2>5. \A q \in Proc : pc'[q] = "awake" => buf'[mine'[q]].valid /\ ~buf'[mine'[q]].dirty
    <3> SUFFICES ASSUME NEW q \in Proc, pc'[q] = "awake" PROVE buf'[mine[q]].valid /\ ~buf'[mine[q]].dirty
      BY <1>1
    <3>1. CASE mine[q] = b
      BY <1>6, <3>1
    <3>2. CASE mine[q] # b
      <4>1. pc[q] = "awake" /\ mine[q] \in Buf
        BY <1>7, <3>2 DEF Mine
      <4>2. buf[mine[q]].valid /\ ~buf[mine[q]].dirty
        BY <4>1 DEF Data
      <4> QED  BY <1>6, <3>2, <4>1, <4>2 DEF SameData
    <3> QED  BY <3>1, <3>2
  <2> QED  BY <2>1, <2>2, <2>3, <2>4, <2>5, Zenon DEF Data
<1>16. Queue'
  <2>1. \A n \in 1..Len(idequeue') : \E q \in Proc : mine'[q] = idequeue'[n] /\ pc'[q] = "sleep"
    <3> SUFFICES ASSUME NEW n \in 1..Len(idequeue')
                 PROVE  \E q \in Proc : mine[q] = idequeue'[n] /\ pc'[q] = "sleep"
      BY <1>1
    <3>1. n + 1 \in 1..Len(idequeue) /\ idequeue'[n] = idequeue[n + 1] /\ idequeue[n + 1] # b
      BY <1>8, <1>9
    <3>2. PICK q \in Proc : mine[q] = idequeue[n + 1] /\ pc[q] = "sleep"
      BY <3>1 DEF Queue
    <3> QED  BY <1>7, <3>1, <3>2
  <2>2. \A q \in Proc : pc'[q] = "sleep" => \E n \in 1..Len(idequeue') : idequeue'[n] = mine'[q]
    <3> SUFFICES ASSUME NEW q \in Proc, pc'[q] = "sleep"
                 PROVE  \E n \in 1..Len(idequeue') : idequeue'[n] = mine[q]
      BY <1>1
    <3>1. pc[q] = "sleep" /\ mine[q] # b
      BY <1>7
    <3>2. PICK n \in 1..Len(idequeue) : idequeue[n] = mine[q]
      BY <3>1 DEF Queue
    <3>3. n - 1 \in 1..Len(idequeue') /\ idequeue'[n - 1] = mine[q]
      BY <1>2, <1>8, <3>1, <3>2
    <3> QED  BY <3>3
  <2>3. \A m, n \in 1..Len(idequeue') : idequeue'[m] = idequeue'[n] => m = n
    <3> SUFFICES ASSUME NEW m \in 1..Len(idequeue'), NEW n \in 1..Len(idequeue'), idequeue'[m] = idequeue'[n]
                 PROVE  m = n
      OBVIOUS
    <3>1. m + 1 = n + 1
      BY <1>8 DEF Queue
    <3> QED  BY <3>1
  <2>4. active' = IF idequeue' = <<>> THEN <<>> ELSE idestart(Head(idequeue))'
    <3>1. CASE idequeue' = <<>>
      BY <1>1, <3>1 DEF started
    <3>2. CASE idequeue' # <<>>
      <4> DEFINE g == Head(idequeue')
      <4>1. 1 \in 1..Len(idequeue') /\ g = idequeue'[1]
        BY <1>8, <3>2
      <4>2. g \in Buf /\ g # b
        BY <1>8, <1>9, <4>1
      <4>3. active' = <<buf[g].blk, IF buf[g].dirty THEN "write" ELSE "read", buf[g].data>>
        BY <1>1, <3>2 DEF started, idestart
      <4>4. idestart(Head(idequeue))' = <<buf'[g].blk, IF buf'[g].dirty THEN "write" ELSE "read", buf'[g].data>>
        BY DEF idestart
      <4> HIDE DEF g
      <4> QED  BY <1>6, <3>2, <4>2, <4>3, <4>4 DEF SameData
    <3> QED  BY <3>1, <3>2
  <2>5. irq' = FALSE
    BY <1>1
  <2> QED  BY <2>1, <2>2, <2>3, <2>4, <2>5, Zenon DEF Queue
<1> QED  BY <1>10, <1>11, <1>12, <1>13, <1>14, <1>15, <1>16, Zenon

-----------------------------------------------------------------------------
(* The invariant, and what it says. *)

LEMMA Starts == ASSUME DiskAssumption, Init PROVE IInv
<1>1. \A b \in Buf : buf[b] = Clean
  BY DEF Init
<1>2. Clean \in Buffer /\ Clean.blk = None /\ ~Clean.valid /\ ~Clean.dirty /\ Clean.ref = 0 /\ Clean.lock = None
  BY DEF Clean, Buffer
<1>3. TypeOK
  <2>1. \A n \in Buf : NBUF + 1 - n \in Buf
    BY DEF Buf, DiskAssumption
  <2>2. buf \in [Buf -> Buffer] /\ lru \in [Buf -> Buf] /\ idequeue \in Seq(Buf)
    BY <1>2, <2>1 DEF Init
  <2>3. pc \in [Proc -> Places] /\ mine \in [Proc -> Buf \cup {None}]
    BY DEF Init, Places
  <2> QED  BY <2>2, <2>3 DEF Init, TypeOK
<1>4. Mine /\ Locks /\ OneBlock
  BY <1>1, <1>2 DEF Init, Mine, Locks, Locked, OneBlock, DiskAssumption
<1>5. Refs
  <2> SUFFICES ASSUME NEW b \in Buf PROVE buf[b].ref = Cardinality(Users(b))
    BY DEF Refs
  <2>1. Users(b) = {}
    BY DEF Users, Init, Buf, DiskAssumption
  <2>2. Cardinality(Users(b)) = 0
    BY <2>1, FS_EmptySet, Zenon
  <2> QED  BY <1>1, <1>2, <2>2
<1>6. Data
  BY <1>1, <1>2 DEF Init, Data
<1>7. Queue
  BY DEF Init, Queue
<1> QED  BY <1>3, <1>4, <1>5, <1>6, <1>7 DEF IInv

LEMMA Kept == ASSUME DiskAssumption, IInv, [Next]_vars PROVE IInv'
<1>1. ASSUME NEW p \in Proc, NEW k \in Blockno, bget(p, k) PROVE IInv'
  BY <1>1, bgetKeeps
<1>2. ASSUME NEW p \in Proc, Step(p) PROVE IInv'
  BY <1>2, breadKeeps, iderwKeeps, waitedKeeps, brelseKeeps, dropKeeps DEF Step
<1>3. ASSUME NEW p \in Proc, NEW v \in Value, bwrite(p, v) \/ log_write(p, v) PROVE IInv'
  BY <1>3, bwriteKeeps
<1>4. CASE device
  BY <1>4, deviceKeeps
<1>5. CASE ideintr
  BY <1>5, ideintrKeeps
<1>6. CASE UNCHANGED vars
  BY <1>6, SameKeeps DEF vars
<1> QED  BY <1>1, <1>2, <1>3, <1>4, <1>5, <1>6 DEF Next

LEMMA Inductive == ASSUME DiskAssumption PROVE Spec => []IInv
<1>1. Init => IInv
  BY Starts
<1>2. IInv /\ [Next]_vars => IInv'
  BY Kept
<1> QED  BY <1>1, <1>2, PTL DEF Spec

\* A block has one buffer, whose lock the processes in the driver's queue hold,
\* and a process between bread() and brelse() has the value last put in its
\* block, however the block was cached, logged, written, recycled by bget() and
\* read again.
THEOREM CoherentHolds ==
  ASSUME DiskAssumption PROVE Spec => []Coherent
<1>1. ASSUME IInv PROVE Coherent
  <2>1. \A b, c \in Buf : b # c /\ buf[b].blk # None => buf[b].blk # buf[c].blk
    BY <1>1 DEF IInv, TypeOK, Buffer, OneBlock
  <2>2. DOMAIN idequeue = 1..Len(idequeue)
    BY <1>1 DEF IInv, TypeOK
  <2>3. ASSUME NEW n \in 1..Len(idequeue)
        PROVE  /\ buf[idequeue[n]].lock # None
               /\ mine[buf[idequeue[n]].lock] = idequeue[n]
               /\ pc[buf[idequeue[n]].lock] = "sleep"
    <3>1. PICK p \in Proc : mine[p] = idequeue[n] /\ pc[p] = "sleep"
      BY <1>1 DEF IInv, Queue
    <3>2. buf[idequeue[n]].lock = p
      BY <1>1, <3>1 DEF IInv, Locks, Locked
    <3> QED  BY <3>1, <3>2 DEF DiskAssumption
  <2>4. IsInjective(idequeue)
    BY <1>1, <2>2 DEF IInv, Queue, IsInjective
  <2>5. OneBuffer
    BY <2>1, <2>2, <2>3, <2>4 DEF OneBuffer
  <2>6. ASSUME NEW p \in Proc, pc[p] = "have" PROVE buf[mine[p]].data = latest[buf[mine[p]].blk]
    <3>1. mine[p] \in Buf /\ buf[mine[p]].valid
      BY <1>1, <2>6 DEF IInv, Mine, Data
    <3> QED  BY <1>1, <3>1 DEF IInv, Data
  <2> QED  BY <2>5, <2>6 DEF Coherent
<1> QED  BY <1>1, Inductive, PTL

\* A process that sleeps in iderw() has its buffer in the queue, and the disk
\* works on the head of the queue: the interrupt that wakes it will come.
THEOREM QueuedHolds ==
  ASSUME DiskAssumption PROVE Spec => []Queued
<1>1. ASSUME IInv PROVE Queued
  <2>1. DOMAIN idequeue = 1..Len(idequeue)
    BY <1>1 DEF IInv, TypeOK
  <2> QED  BY <1>1, <2>1 DEF IInv, Queue, Queued
<1> QED  BY <1>1, Inductive, PTL
=============================================================================
