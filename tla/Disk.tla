-------------------------------- MODULE Disk --------------------------------
(***************************************************************************)
(* The buffer cache (bio.c) over the IDE driver (ide.c) and the disk.       *)
(* bcache.lock and idelock make each action below atomic; a buffer's sleep- *)
(* lock is held over several.  A block is one value.  log_write() (log.c)  *)
(* marks a buffer dirty without writing it; a later bwrite() cleans it.    *)
(***************************************************************************)
EXTENDS Integers, Sequences, FiniteSets, Functions

CONSTANTS
  Proc, None,
  Blockno,   \* blocks of the disk
  NBUF,
  LOGSIZE,   \* blocks that can be dirty before the log writes them
  Value

DiskAssumption ==
  /\ None \notin Proc /\ None \notin Blockno
  /\ NBUF \in Nat /\ None \notin 1..NBUF
  /\ IsFiniteSet(Proc)

Buf == 1..NBUF

VARIABLES
  buf,       \* block, flags, refcnt, lock and data of each buffer
  lru,       \* bcache.head: most recently used first
  idequeue,
  disk,      \* what the disk holds
  active,    \* the command the disk works on, or <<>>
  irq,       \* it has finished
  pc, mine,  \* what each process does, and its buffer
  latest,    \* the value last put in each block
  panic

vars == <<buf, lru, idequeue, disk, active, irq, pc, mine, latest, panic>>

Clean == [blk |-> None, valid |-> FALSE, dirty |-> FALSE, ref |-> 0, lock |-> None, data |-> None]

\* binit(), ideinit()
Init ==
  /\ buf = [b \in Buf |-> Clean]
  /\ lru = [n \in Buf |-> NBUF + 1 - n]
  /\ idequeue = <<>>
  /\ disk \in [Blockno -> Value]
  /\ active = <<>> /\ irq = FALSE
  /\ pc = [p \in Proc |-> "idle"]
  /\ mine = [p \in Proc |-> None]
  /\ latest = disk
  /\ panic = FALSE

At(p, s) == ~panic /\ pc[p] = s
Goto(p, s) == pc' = [pc EXCEPT ![p] = s]

\* The buffer of block k, or else the least recently used one that can be
\* taken for it: no references, and not dirty.
hit(k) == {b \in Buf : buf[b].blk = k}

\* Variant of unused: dirty buffers are recycled.
unusedDirty == {n \in Buf : buf[lru[n]].ref = 0}

unused == {n \in Buf : buf[lru[n]].ref = 0 /\ ~buf[lru[n]].dirty}

victim == lru[CHOOSE n \in unused : \A m \in unused : m <= n]

bget(p, k) ==
  LET b == IF hit(k) # {} THEN CHOOSE x \in hit(k) : TRUE ELSE victim
  IN  /\ At(p, "idle")
      /\ IF hit(k) = {} /\ unused = {}
         THEN panic' = TRUE /\ UNCHANGED <<buf, pc, mine>>
         ELSE /\ buf' = IF hit(k) # {} THEN [buf EXCEPT ![b].ref = @ + 1]
                         ELSE [buf EXCEPT ![b].blk = k, ![b].valid = FALSE, ![b].ref = 1]
              /\ mine' = [mine EXCEPT ![p] = b]
              /\ Goto(p, "lock")
              /\ UNCHANGED panic
      /\ UNCHANGED <<lru, idequeue, disk, active, irq, latest>>

\* acquiresleep() at the end of bget(), and bread()'s look at B_VALID.
bread(p) ==
  LET b == mine[p] IN
  /\ At(p, "lock") /\ buf[b].lock = None
  /\ buf' = [buf EXCEPT ![b].lock = p]
  /\ Goto(p, IF buf[b].valid THEN "have" ELSE "iderw")
  /\ UNCHANGED <<lru, idequeue, disk, active, irq, mine, latest, panic>>

\* idestart(): the command for buffer b, with its data when it is a write.
idestart(b) ==
  <<buf[b].blk, IF buf[b].dirty THEN "write" ELSE "read", buf[b].data>>

\* Append b to idequeue, start the disk if necessary, and sleep.
iderw(p) ==
  LET b == mine[p] IN
  /\ At(p, "iderw")
  /\ idequeue' = Append(idequeue, b)
  /\ active' = IF idequeue = <<>> THEN idestart(b) ELSE active
  /\ Goto(p, "sleep")
  /\ UNCHANGED <<buf, lru, disk, irq, mine, latest, panic>>

\* The disk does what it was told, and raises an interrupt.
device ==
  /\ active # <<>> /\ ~irq
  /\ disk' = IF active[2] = "write" THEN [disk EXCEPT ![active[1]] = active[3]] ELSE disk
  /\ irq' = TRUE
  /\ UNCHANGED <<buf, lru, idequeue, active, pc, mine, latest, panic>>

wakeup(b) == pc' = [p \in Proc |-> IF pc[p] = "sleep" /\ mine[p] = b THEN "awake" ELSE pc[p]]

\* Variant of started: the next request waits for a new one to start it.
startedLater(rest) == <<>>

\* Start disk on next buf in queue.
started(rest) == IF rest = <<>> THEN <<>> ELSE idestart(Head(rest))

\* The interrupt for the active request, or one that nobody asked for while
\* the queue is empty.
ideintr ==
  LET b == Head(idequeue)
      rest == Tail(idequeue)
  IN  /\ ~panic
      /\ \/ idequeue = <<>> /\ UNCHANGED <<buf, idequeue, active, irq, pc>>
         \/ /\ idequeue # <<>> /\ irq
            /\ idequeue' = rest
            /\ buf' = [buf EXCEPT ![b].data = IF buf[b].dirty THEN @ ELSE disk[active[1]],
                                  ![b].valid = TRUE, ![b].dirty = FALSE]
            /\ wakeup(b)
            /\ active' = started(rest)
            /\ irq' = FALSE
      /\ UNCHANGED <<lru, disk, mine, latest, panic>>

\* iderw()'s loop: wait for the request to finish.
waited(p) ==
  LET b == mine[p] IN
  /\ At(p, "awake")
  /\ Goto(p, IF buf[b].valid /\ ~buf[b].dirty THEN "have" ELSE "sleep")
  /\ UNCHANGED <<buf, lru, idequeue, disk, active, irq, mine, latest, panic>>

\* The owner of the buffer puts v in it.
Put(p, v) ==
  /\ At(p, "have")
  /\ buf' = [buf EXCEPT ![mine[p]].data = v, ![mine[p]].dirty = TRUE]
  /\ latest' = [latest EXCEPT ![buf[mine[p]].blk] = v]
  /\ UNCHANGED <<lru, idequeue, disk, active, irq, mine, panic>>

bwrite(p, v) == Put(p, v) /\ Goto(p, "iderw")

log_write(p, v) ==
  /\ Cardinality({b \in Buf : buf[b].dirty}) < LOGSIZE
  /\ Put(p, v)
  /\ UNCHANGED pc

\* releasesleep(), then the count and the list under bcache.lock.
brelse(p) ==
  /\ At(p, "have")
  /\ buf' = [buf EXCEPT ![mine[p]].lock = None]
  /\ Goto(p, "drop")
  /\ UNCHANGED <<lru, idequeue, disk, active, irq, mine, latest, panic>>

\* b moves to the front of the list.
moved(b) ==
  [n \in Buf |-> IF n = 1 THEN b ELSE IF \E m \in n..NBUF : lru[m] = b THEN lru[n - 1] ELSE lru[n]]

drop(p) ==
  LET b == mine[p] IN
  /\ At(p, "drop")
  /\ buf' = [buf EXCEPT ![b].ref = @ - 1]
  /\ lru' = IF buf[b].ref = 1 THEN moved(b) ELSE lru
  /\ mine' = [mine EXCEPT ![p] = None]
  /\ Goto(p, "idle")
  /\ UNCHANGED <<idequeue, disk, active, irq, latest, panic>>

Step(p) == bread(p) \/ iderw(p) \/ waited(p) \/ brelse(p) \/ drop(p)

Next ==
  \/ \E p \in Proc, k \in Blockno : bget(p, k)
  \/ \E p \in Proc : Step(p)
  \/ \E p \in Proc, v \in Value : bwrite(p, v) \/ log_write(p, v)
  \/ device \/ ideintr

Spec == Init /\ [][Next]_vars

-----------------------------------------------------------------------------
(* Properties *)

\* A block has one buffer, so that its lock protects the block; and the buffers
\* in the driver's queue are locked, by the processes that wait for them.
OneBuffer ==
  /\ \A b, c \in Buf : b # c /\ buf[b].blk # None => buf[b].blk # buf[c].blk
  /\ \A n \in DOMAIN idequeue :
       LET p == buf[idequeue[n]].lock IN p # None /\ mine[p] = idequeue[n] /\ pc[p] = "sleep"
  /\ IsInjective(idequeue)

\* A block has one buffer at most, and a process that holds it sees the value
\* last put in the block by anyone, whether the block stayed in the cache, was
\* dirty there, or was written, recycled and read again (bget(), bread(),
\* brelse()).
Coherent ==
  /\ OneBuffer
  /\ \A p \in Proc : pc[p] = "have" => buf[mine[p]].data = latest[buf[mine[p]].blk]

\* Nobody sleeps in iderw() for ever: a process that sleeps has its buffer in
\* the queue, and while the queue is not empty the disk has the command of its
\* head, so that the next interrupt is for that buffer (ideintr()).
Queued ==
  /\ \A p \in Proc : pc[p] = "sleep" => \E n \in DOMAIN idequeue : idequeue[n] = mine[p]
  /\ idequeue # <<>> => active = idestart(Head(idequeue))
=============================================================================
