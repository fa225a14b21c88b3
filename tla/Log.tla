-------------------------------- MODULE Log --------------------------------
(***************************************************************************)
(* The write-ahead log of the file system (log.c) over the buffer cache    *)
(* (bio.c) and a disk that writes one block at a time and may stop at any  *)
(* moment.  A system call is begin_op(), any number of changes of blocks,  *)
(* each followed by log_write(), and end_op().                             *)
(*                                                                         *)
(* A step is a stretch of code under log.lock, or one write of a disk      *)
(* block.  The blocks of the log itself are only written through, so they  *)
(* need no copies in the cache.                                            *)
(***************************************************************************)
EXTENDS Integers, Sequences, FiniteSets

CONSTANTS
  Proc, Block, Value,
  None,         \* not a process, not a block, not a value
  MAXOPBLOCKS,  \* what begin_op() reserves for a system call
  LOGSIZE,      \* the capacity that begin_op() assumes
  NLOG,         \* log.size: sb.nlog, the header block included
  MaxWrites     \* blocks that a system call really writes

ASSUME LogAssumption ==
  /\ IsFiniteSet(Proc)
  /\ None \notin Proc \cup Block \cup Value
  /\ MAXOPBLOCKS \in Nat /\ LOGSIZE \in Nat /\ NLOG \in Nat /\ MaxWrites \in Nat
  /\ MAXOPBLOCKS <= LOGSIZE

VARIABLES
  home,         \* on disk: the blocks of the file system
  head,         \* on disk: the header of the log, as the sequence of its blocks
  logblk,       \* on disk: the blocks of the log
  cache,        \* the buffer of a block, or None
  dirty,        \* B_DIRTY
  holder,       \* the process that has the buffer of a block locked, or None
  lh,           \* log.lh
  outstanding, committing,
  pc, blk,      \* where a process is, and the block it is changing
  wrote,        \* the blocks its system call has written
  stage, tail,  \* how far commit() or recover_from_log() is
  panicked

diskVars == <<home, head, logblk>>
cacheVars == <<cache, dirty, holder>>
logVars == <<lh, outstanding, committing>>
procVars == <<pc, blk, wrote>>
vars == <<diskVars, cacheVars, logVars, procVars, stage, tail, panicked>>

Pcs == {"idle", "asleep", "op", "check", "append", "commit"}
Stages == {"none", "write_log", "write_head", "install", "erase", "done",
           "read_head", "reinstall", "reerase"}

TypeOK ==
  /\ home \in [Block -> Value]
  /\ head \in Seq(Block)
  /\ logblk \in Seq(Value)
  /\ cache \in [Block -> Value \cup {None}]
  /\ dirty \in [Block -> BOOLEAN]
  /\ holder \in [Block -> Proc \cup {None}]
  /\ lh \in Seq(Block)
  /\ outstanding \in Nat
  /\ committing \in BOOLEAN
  /\ pc \in [Proc -> Pcs]
  /\ blk \in [Proc -> Block \cup {None}]
  /\ wrote \in [Proc -> SUBSET Block]
  /\ stage \in Stages
  /\ tail \in Nat
  /\ panicked \in BOOLEAN

\* The memory of a machine that has just started, before initlog().
Boot ==
  /\ cache' = [b \in Block |-> None]
  /\ dirty' = [b \in Block |-> FALSE]
  /\ holder' = [b \in Block |-> None]
  /\ lh' = <<>>
  /\ outstanding' = 0
  /\ committing' = FALSE
  /\ pc' = [p \in Proc |-> "idle"]
  /\ blk' = [p \in Proc |-> None]
  /\ wrote' = [p \in Proc |-> {}]
  /\ stage' = "read_head"
  /\ tail' = 1
  /\ panicked' = FALSE

Init ==
  /\ home \in [Block -> Value]
  /\ head = <<>>
  /\ logblk = <<>>
  /\ cache = [b \in Block |-> None]
  /\ dirty = [b \in Block |-> FALSE]
  /\ holder = [b \in Block |-> None]
  /\ lh = <<>>
  /\ outstanding = 0
  /\ committing = FALSE
  /\ pc = [p \in Proc |-> "idle"]
  /\ blk = [p \in Proc |-> None]
  /\ wrote = [p \in Proc |-> {}]
  /\ stage = "read_head"
  /\ tail = 1
  /\ panicked = FALSE

\* initlog() runs before the first process reaches user mode.
Recovering == stage \in {"read_head", "reinstall", "reerase"}

\* bread(): the buffer if there is one, else the block on disk.
bread(b) == IF cache[b] # None THEN cache[b] ELSE home[b]

Logged == {lh[i] : i \in 1..Len(lh)}

\* wakeup(&log), applied to the places l of the processes.
wakeup(l) == [p \in Proc |-> IF l[p] = "asleep" THEN "idle" ELSE l[p]]

-----------------------------------------------------------------------------
(* System calls. *)

\* The log may not have room for another system call.
LogFull == Len(lh) + (outstanding + 1) * MAXOPBLOCKS > LOGSIZE

\* The two conditions on which begin_op() sleeps.
MustWait == committing \/ LogFull

begin_op(p) ==
  /\ pc[p] = "idle" /\ ~Recovering /\ ~MustWait
  /\ outstanding' = outstanding + 1
  /\ pc' = [pc EXCEPT ![p] = "op"]
  /\ wrote' = [wrote EXCEPT ![p] = {}]
  /\ UNCHANGED <<diskVars, cacheVars, lh, committing, blk, stage, tail, panicked>>

\* begin_op() sleeps on &log; after a wakeup it tries again from the start.
BeginSleeps(p) ==
  /\ pc[p] = "idle" /\ ~Recovering /\ MustWait
  /\ pc' = [pc EXCEPT ![p] = "asleep"]
  /\ UNCHANGED <<diskVars, cacheVars, logVars, blk, wrote, stage, tail, panicked>>

\* bread() of a block, whose buffer is locked until brelse(), and a change of
\* its data.
Modify(p, b, v) ==
  /\ pc[p] = "op" /\ holder[b] = None
  /\ Cardinality(wrote[p] \cup {b}) <= MaxWrites
  /\ holder' = [holder EXCEPT ![b] = p]
  /\ cache' = [cache EXCEPT ![b] = v]
  /\ blk' = [blk EXCEPT ![p] = b]
  /\ wrote' = [wrote EXCEPT ![p] = @ \cup {b}]
  /\ pc' = [pc EXCEPT ![p] = "check"]
  /\ UNCHANGED <<diskVars, dirty, logVars, stage, tail, panicked>>

\* log_write(): its checks, without log.lock.
TooBig == Len(lh) >= LOGSIZE \/ Len(lh) >= NLOG - 1 \/ outstanding < 1

LogWriteChecks(p) ==
  /\ pc[p] = "check"
  /\ panicked' = TooBig
  /\ pc' = [pc EXCEPT ![p] = "append"]
  /\ UNCHANGED <<diskVars, cacheVars, logVars, blk, wrote, stage, tail>>

\* b->flags |= B_DIRTY
MarkDirty(b) == [dirty EXCEPT ![b] = TRUE]

\* log_write(): the rest, with log.lock, and brelse() of the buffer.
log_write(p) ==
  /\ pc[p] = "append"
  /\ lh' = IF blk[p] \in Logged THEN lh ELSE Append(lh, blk[p])
  /\ dirty' = MarkDirty(blk[p])
  /\ holder' = [holder EXCEPT ![blk[p]] = None]
  /\ blk' = [blk EXCEPT ![p] = None]
  /\ pc' = [pc EXCEPT ![p] = "op"]
  /\ UNCHANGED <<diskVars, cache, outstanding, committing, wrote, stage, tail, panicked>>

\* end_op(), with log.lock: another system call is active.
EndOp(p) ==
  /\ pc[p] = "op" /\ outstanding # 1
  /\ outstanding' = outstanding - 1
  /\ panicked' = committing
  /\ pc' = [wakeup(pc) EXCEPT ![p] = "idle"]
  /\ UNCHANGED <<diskVars, cacheVars, lh, committing, blk, wrote, stage, tail>>

\* end_op() of the last system call starts commit(), which has nothing to do
\* when nothing was logged.
EndLastOp(p) ==
  /\ pc[p] = "op" /\ outstanding = 1
  /\ outstanding' = 0
  /\ panicked' = committing
  /\ committing' = TRUE
  /\ pc' = [pc EXCEPT ![p] = "commit"]
  /\ stage' = IF Len(lh) > 0 THEN "write_log" ELSE "done"
  /\ tail' = 1
  /\ UNCHANGED <<diskVars, cacheVars, lh, blk, wrote>>

\* end_op() after commit().
CommitDone(p) ==
  /\ pc[p] = "commit" /\ stage = "done"
  /\ committing' = FALSE
  /\ pc' = [wakeup(pc) EXCEPT ![p] = "idle"]
  /\ stage' = "none"
  /\ UNCHANGED <<diskVars, cacheVars, lh, outstanding, blk, wrote, tail, panicked>>

-----------------------------------------------------------------------------
(* commit() and recover_from_log(), one disk write at a time. *)

\* The condition of the loops of write_log() and install_trans().
MoreBlocks == tail <= Len(lh)

\* write_log(): the next block of the log.
write_log ==
  /\ stage = "write_log" /\ MoreBlocks
  /\ logblk' = IF tail <= Len(logblk) THEN [logblk EXCEPT ![tail] = bread(lh[tail])]
                                      ELSE Append(logblk, bread(lh[tail]))
  /\ tail' = tail + 1
  /\ UNCHANGED <<home, head, cacheVars, logVars, procVars, stage, panicked>>

\* Variant of commit() that installs before it writes the header.
WriteLogDoneInstall ==
  /\ stage = "write_log" /\ ~MoreBlocks
  /\ stage' = "install"
  /\ tail' = 1
  /\ UNCHANGED <<diskVars, cacheVars, logVars, procVars, panicked>>

\* The end of write_log().
WriteLogDone ==
  /\ stage = "write_log" /\ ~MoreBlocks
  /\ stage' = "write_head"
  /\ UNCHANGED <<diskVars, cacheVars, logVars, procVars, tail, panicked>>

\* write_head() of a full log: the commit.
write_head ==
  /\ stage = "write_head"
  /\ head' = lh
  /\ stage' = "install"
  /\ tail' = 1
  /\ UNCHANGED <<home, logblk, cacheVars, logVars, procVars, panicked>>

\* install_trans(): the next block; when the disk has it, it is not dirty.
install_trans ==
  /\ stage \in {"install", "reinstall"} /\ MoreBlocks
  /\ home' = [home EXCEPT ![lh[tail]] = logblk[tail]]
  /\ cache' = [cache EXCEPT ![lh[tail]] = logblk[tail]]
  /\ dirty' = [dirty EXCEPT ![lh[tail]] = FALSE]
  /\ tail' = tail + 1
  /\ UNCHANGED <<head, logblk, holder, logVars, procVars, stage, panicked>>

\* Variant of commit() whose install_trans() starts over at its end.
InstallDoneAgain ==
  /\ stage \in {"install", "reinstall"} /\ ~MoreBlocks
  /\ tail' = 1
  /\ stage' = IF stage = "install" THEN "install" ELSE "reerase"
  /\ lh' = IF stage = "install" THEN lh ELSE <<>>
  /\ UNCHANGED <<diskVars, cacheVars, outstanding, committing, procVars, panicked>>

\* The end of install_trans(), and log.lh.n = 0.
InstallDone ==
  /\ stage \in {"install", "reinstall"} /\ ~MoreBlocks
  /\ lh' = <<>>
  /\ stage' = IF stage = "install" THEN "erase" ELSE "reerase"
  /\ UNCHANGED <<diskVars, cacheVars, outstanding, committing, procVars, tail, panicked>>

\* Variant of commit() without its second write_head().
EraseLogNot ==
  /\ stage \in {"erase", "reerase"}
  /\ stage' = IF stage = "erase" THEN "done" ELSE "none"
  /\ UNCHANGED <<diskVars, cacheVars, logVars, procVars, tail, panicked>>

\* write_head() of an empty log.
EraseLog ==
  /\ stage \in {"erase", "reerase"}
  /\ head' = lh
  /\ stage' = IF stage = "erase" THEN "done" ELSE "none"
  /\ UNCHANGED <<home, logblk, cacheVars, logVars, procVars, tail, panicked>>

\* Variant of recover_from_log() that does not install.
read_headErases ==
  /\ stage = "read_head"
  /\ tail' = 1
  /\ stage' = "reerase"
  /\ UNCHANGED <<diskVars, cacheVars, logVars, procVars, panicked>>

\* recover_from_log(): its first step.
read_head ==
  /\ stage = "read_head"
  /\ lh' = head
  /\ tail' = 1
  /\ stage' = "reinstall"
  /\ UNCHANGED <<diskVars, cacheVars, outstanding, committing, procVars, panicked>>

-----------------------------------------------------------------------------
(* The buffer cache, and the end of the machine. *)

\* bread() by a process that only reads.
ReadBlock(b) ==
  /\ cache[b] = None /\ ~Recovering
  /\ cache' = [cache EXCEPT ![b] = home[b]]
  /\ UNCHANGED <<diskVars, dirty, holder, logVars, procVars, stage, tail, panicked>>

\* The test of bget() for a buffer to recycle.
Recyclable(b) == holder[b] = None /\ ~dirty[b]

\* bget() recycles the buffer of a block.
bget(b) ==
  /\ cache[b] # None /\ Recyclable(b)
  /\ cache' = [cache EXCEPT ![b] = None]
  /\ UNCHANGED <<diskVars, dirty, holder, logVars, procVars, stage, tail, panicked>>

\* The machine stops, after a panic or without one, and starts again.
Crash == Boot /\ UNCHANGED diskVars

Step(p) ==
  \/ begin_op(p) \/ BeginSleeps(p)
  \/ \E b \in Block, v \in Value : Modify(p, b, v)
  \/ LogWriteChecks(p) \/ log_write(p)
  \/ EndOp(p) \/ EndLastOp(p) \/ CommitDone(p)

DiskStep ==
  \/ write_log \/ WriteLogDone \/ write_head \/ install_trans \/ InstallDone \/ EraseLog
  \/ read_head

Running ==
  /\ ~panicked
  /\ \/ \E p \in Proc : Step(p)
     \/ DiskStep
     \/ \E b \in Block : ReadBlock(b) \/ bget(b)

Next == Running \/ Crash

Spec == Init /\ [][Next]_vars

\* While it runs, the scheduler runs every process and the disk answers (WF),
\* and a system call writes finitely often before end_op() (SF).
LogStep(p) == ~panicked /\ (LogWriteChecks(p) \/ log_write(p) \/ CommitDone(p))
OpEnds(p) == ~panicked /\ (EndOp(p) \/ EndLastOp(p))

LiveSpec ==
  /\ Spec
  /\ WF_vars(~panicked /\ DiskStep)
  /\ \A p \in Proc : WF_vars(LogStep(p)) /\ SF_vars(OpEnds(p))

-----------------------------------------------------------------------------
(* Properties. *)

\* The state of the file system that recovery would produce from the disk.
Recovered ==
  [b \in Block |->
     IF \E i \in 1..Len(head) : head[i] = b
       THEN logblk[CHOOSE i \in 1..Len(head) : head[i] = b]
       ELSE home[b]]

\* The state of the file system that processes see.
Current == [b \in Block |-> IF Recovering THEN Recovered[b] ELSE bread(b)]

InOp == {p \in Proc : pc[p] \in {"op", "check", "append"}}

Abs == INSTANCE LogAbs WITH committed <- Recovered, pending <- Current, active <- InOp

\* Crash atomicity: whatever write the machine stops at, recovery included, the
\* file system comes back in a state between two system calls (commit(),
\* recover_from_log()).
Atomic == Abs!Spec

\* commit() runs with no system call active, so that it never writes the half
\* of one, and end_op() never finds a commit under way.
CommitAlone == committing => outstanding = 0 /\ InOp = {} /\ ~panicked

\* When no system call is active and no commit under way, everything the
\* system calls did is at its place on disk, and the log is empty.
Durable ==
  outstanding = 0 /\ ~committing /\ ~Recovering =>
    head = <<>> /\ lh = <<>> /\ home = Current

\* A block at its place on disk is only overwritten with what the header and
\* the blocks of the log on disk say (write-ahead logging).
WriteAhead ==
  [][\A b \in Block : home'[b] # home[b] =>
       \E i \in 1..Len(head) : head[i] = b /\ home'[b] = logblk[i]]_vars

\* begin_op() only sleeps while somebody will wake it: end_op() or commit().
NoStuckSleeper ==
  (\E p \in Proc : pc[p] = "asleep") => committing \/ outstanding > 0

\* A process asleep in begin_op() is woken, whatever the others do: the space
\* it waits for is released by end_op() or by commit().
Woken == \A p \in Proc : pc[p] = "asleep" ~> pc[p] # "asleep"

\* The buffer of a logged block stays in the cache until it is installed
\* (log_write() sets B_DIRTY "to prevent eviction").
Pinned ==
  stage \in {"none", "write_log", "write_head"} =>
    \A b \in Block : b \in Logged => dirty[b] /\ cache[b] # None
=============================================================================
