----------------------------- MODULE LogProofs -----------------------------
(***************************************************************************)
(* The inductive invariant of Log and the proof that every step keeps it.  *)
(* It says, for each stage of commit() and recover_from_log(), which of    *)
(* the three copies of a block (cache, log, home) agree.  Then the         *)
(* theorems: the safety properties of Log, and that it implements the      *)
(* crash-atomic store of LogAbs.                                           *)
(***************************************************************************)
EXTENDS Log, FiniteSetTheorems, TLAPS

\* A buffer is locked by the process that is between bread() and brelse().
Locks ==
  /\ \A b \in Block, p \in Proc :
       holder[b] = p <=> pc[p] \in {"check", "append"} /\ blk[p] = b
  /\ \A p \in Proc : pc[p] \in {"check", "append"} => blk[p] \in Block

\* A buffer that is neither dirty nor locked is a copy of the block on disk.
Buffers ==
  \A b \in Block :
    /\ dirty[b] => cache[b] # None
    /\ holder[b] # None => cache[b] # None
    /\ cache[b] # None /\ ~dirty[b] /\ holder[b] = None => cache[b] = home[b]

\* The dirty buffers are those of the logged blocks not yet installed.
DirtyLogged ==
  \A b \in Block :
    dirty[b] <=> \E i \in 1..Len(lh) :
                   /\ lh[i] = b
                   /\ \/ stage \in {"none", "write_log", "write_head"}
                      \/ stage = "install" /\ i >= tail

\* Who is in a system call, who commits, who sleeps.
Ops ==
  /\ outstanding = Cardinality(InOp)
  /\ committing <=> stage \in {"write_log", "write_head", "install", "erase", "done"}
  /\ committing => InOp = {} /\ ~panicked
  /\ Recovering => \A p \in Proc : pc[p] = "idle"
  /\ NoStuckSleeper

Distinct(s) == \A i, j \in 1..Len(s) : s[i] = s[j] => i = j

\* The shape of the log in memory and on disk at each stage.
Shape ==
  /\ Distinct(lh) /\ Distinct(head)
  /\ Len(head) <= Len(logblk)
  /\ tail >= 1
  /\ stage \in {"none", "write_log", "write_head", "done"} => head = <<>>
  /\ stage \in {"install", "reinstall"} => lh = head
  /\ stage \in {"erase", "reerase", "done", "read_head"} => lh = <<>>
  /\ stage = "write_log" => tail <= Len(lh) + 1 /\ tail <= Len(logblk) + 1
  /\ stage = "write_head" => Len(lh) <= Len(logblk)

\* Which copies of a logged block agree.
Copies ==
  /\ stage = "write_log" =>
       \A i \in 1..Len(lh) : i < tail => logblk[i] = cache[lh[i]]
  /\ stage = "write_head" =>
       \A i \in 1..Len(lh) : logblk[i] = cache[lh[i]]
  /\ stage = "install" =>
       \A i \in 1..Len(lh) : i >= tail => logblk[i] = cache[lh[i]]
  /\ stage \in {"install", "reinstall"} =>
       \A i \in 1..Len(lh) : i < tail => home[lh[i]] = logblk[i]
  /\ stage \in {"erase", "reerase"} =>
       \A i \in 1..Len(head) : home[head[i]] = logblk[i]

\* With no system call active, no commit and no recovery, nothing is logged.
Idle == outstanding = 0 /\ ~committing /\ ~Recovering => lh = <<>>

IInv ==
  /\ TypeOK /\ Locks /\ Buffers /\ DirtyLogged /\ Ops /\ Shape /\ Copies /\ Idle

-----------------------------------------------------------------------------
(* Lemmas on the operators. *)

\* The number of system calls is that of the processes in one.
LEMMA Counting ==
  ASSUME TypeOK
  PROVE  /\ IsFiniteSet(InOp) /\ Cardinality(InOp) \in Nat
         /\ Cardinality(InOp) = 0 <=> InOp = {}
         /\ \A p \in Proc \ InOp : Cardinality(InOp \cup {p}) = Cardinality(InOp) + 1
         /\ \A p \in InOp : Cardinality(InOp \ {p}) = Cardinality(InOp) - 1
<1>1. IsFiniteSet(InOp)
  BY LogAssumption, FS_Subset DEF InOp, LogAssumption
<1>2. Cardinality(InOp) \in Nat
  BY <1>1, FS_CardinalityType
<1>3. Cardinality(InOp) = 0 <=> InOp = {}
  BY <1>1, FS_EmptySet
<1>4. \A p \in Proc \ InOp : Cardinality(InOp \cup {p}) = Cardinality(InOp) + 1
  BY <1>1, FS_AddElement
<1>5. \A p \in InOp : Cardinality(InOp \ {p}) = Cardinality(InOp) - 1
  BY <1>1, FS_RemoveElement
<1> QED BY <1>1, <1>2, <1>3, <1>4, <1>5

\* What Append() does to a sequence of blocks.
LEMMA Appended ==
  ASSUME NEW S, NEW s \in Seq(S), NEW e \in S
  PROVE  /\ Append(s, e) \in Seq(S)
         /\ Len(Append(s, e)) = Len(s) + 1
         /\ \A i \in 1..Len(s) : Append(s, e)[i] = s[i]
         /\ Append(s, e)[Len(s) + 1] = e
OBVIOUS

\* An element of a sequence is in its set.
LEMMA Element ==
  ASSUME NEW S, NEW s \in Seq(S), NEW i \in 1..Len(s)
  PROVE  s[i] \in S
OBVIOUS

\* Overwriting an element of a sequence.
LEMMA Replaced ==
  ASSUME NEW S, NEW s \in Seq(S), NEW i \in 1..Len(s), NEW e \in S
  PROVE  /\ [s EXCEPT ![i] = e] \in Seq(S)
         /\ Len([s EXCEPT ![i] = e]) = Len(s)
OBVIOUS

\* The empty sequence.
LEMMA Empty == Len(<<>>) = 0 /\ \A S : <<>> \in Seq(S)
<1>1. Len(<<>>) = 0
  OBVIOUS
<1>2. ASSUME NEW S
      PROVE  <<>> \in Seq(S)
  BY SMTT(30)
<1> QED BY <1>1, <1>2

-----------------------------------------------------------------------------
(* Types. *)

LEMMA TypeKept == TypeOK /\ Locks /\ Ops /\ Shape /\ [Next]_vars => TypeOK'
<1> SUFFICES ASSUME TypeOK, Locks, Ops, Shape, [Next]_vars
             PROVE  TypeOK'
  OBVIOUS
<1> USE DEF TypeOK, Pcs, Stages, diskVars, cacheVars, logVars, procVars
<1>1. ASSUME NEW p \in Proc, begin_op(p)
      PROVE  TypeOK'
  BY <1>1 DEF begin_op
<1>2. ASSUME NEW p \in Proc, BeginSleeps(p)
      PROVE  TypeOK'
  BY <1>2 DEF BeginSleeps
<1>3. ASSUME NEW p \in Proc, NEW b \in Block, NEW v \in Value, Modify(p, b, v)
      PROVE  TypeOK'
  BY <1>3 DEF Modify
<1>4. ASSUME NEW p \in Proc, LogWriteChecks(p)
      PROVE  TypeOK'
  BY <1>4 DEF LogWriteChecks, TooBig
<1>5. ASSUME NEW p \in Proc, log_write(p)
      PROVE  TypeOK'
  <2>1. blk[p] \in Block
    BY <1>5 DEF log_write, Locks
  <2>2. lh' \in Seq(Block)
    BY <1>5, <2>1, Appended DEF log_write
  <2> QED BY <1>5, <2>2 DEF log_write, MarkDirty
<1>6. ASSUME NEW p \in Proc, EndOp(p)
      PROVE  TypeOK'
  <2>1. p \in InOp /\ outstanding >= 1
    BY <1>6, Counting DEF EndOp, InOp, Ops
  <2> QED BY <1>6, <2>1 DEF EndOp, wakeup
<1>7. ASSUME NEW p \in Proc, EndLastOp(p)
      PROVE  TypeOK'
  BY <1>7 DEF EndLastOp
<1>8. ASSUME NEW p \in Proc, CommitDone(p)
      PROVE  TypeOK'
  BY <1>8 DEF CommitDone, wakeup
<1>9. CASE write_log
  <2>1. tail \in 1..Len(lh) /\ tail <= Len(logblk) + 1
    BY <1>9 DEF write_log, MoreBlocks, Shape
  <2>2. bread(lh[tail]) \in Value
    BY <2>1, Element DEF bread
  <2>3. logblk' \in Seq(Value)
    BY <1>9, <2>1, <2>2, Replaced, Appended DEF write_log
  <2> QED BY <1>9, <2>3 DEF write_log
<1>10. CASE WriteLogDone \/ write_head
  BY <1>10 DEF WriteLogDone, write_head
<1>11. CASE install_trans
  <2>1. tail \in 1..Len(lh) /\ tail \in 1..Len(logblk)
    BY <1>11 DEF install_trans, MoreBlocks, Shape
  <2>2. lh[tail] \in Block /\ logblk[tail] \in Value
    BY <2>1, Element
  <2> QED BY <1>11, <2>2 DEF install_trans
<1>15. CASE InstallDone
  BY <1>15, Empty DEF InstallDone
<1>16. CASE EraseLog \/ read_head
  BY <1>16 DEF EraseLog, read_head
<1>12. ASSUME NEW b \in Block, ReadBlock(b) \/ bget(b)
       PROVE  TypeOK'
  BY <1>12 DEF ReadBlock, bget
<1>13. CASE Crash
  BY <1>13, Empty DEF Crash, Boot
<1>14. CASE UNCHANGED vars
  BY <1>14 DEF vars
<1> QED
  BY <1>1, <1>2, <1>3, <1>4, <1>5, <1>6, <1>7, <1>8, <1>9, <1>10, <1>11, <1>12, <1>13, <1>14, <1>15, <1>16
     DEF Next, Running, Step, DiskStep

-----------------------------------------------------------------------------
(* Locks, counts and sleepers. *)

LEMMA LocksKept == TypeOK /\ Locks /\ Ops /\ [Next]_vars => Locks'
<1> SUFFICES ASSUME TypeOK, Locks, Ops, [Next]_vars
             PROVE  Locks'
  OBVIOUS
<1> USE DEF Locks, TypeOK, Pcs, diskVars, cacheVars, logVars, procVars
<1>1. ASSUME NEW p \in Proc, begin_op(p) \/ BeginSleeps(p)
      PROVE  Locks'
  BY <1>1 DEF begin_op, BeginSleeps
<1>2. ASSUME NEW p \in Proc, NEW b \in Block, NEW v \in Value, Modify(p, b, v)
      PROVE  Locks'
  BY <1>2, LogAssumption DEF Modify, LogAssumption
<1>3. ASSUME NEW p \in Proc, LogWriteChecks(p)
      PROVE  Locks'
  BY <1>3 DEF LogWriteChecks
<1>4. ASSUME NEW p \in Proc, log_write(p)
      PROVE  Locks'
  BY <1>4, LogAssumption DEF log_write, LogAssumption
<1>5. ASSUME NEW p \in Proc, EndOp(p) \/ EndLastOp(p) \/ CommitDone(p)
      PROVE  Locks'
  <2>1. UNCHANGED <<holder, blk>>
    BY <1>5 DEF EndOp, EndLastOp, CommitDone
  <2>3. \A q \in Proc : pc'[q] \in {"check", "append"} <=> pc[q] \in {"check", "append"}
    <3>1. CASE EndOp(p)
      BY <3>1 DEF EndOp, wakeup
    <3>2. CASE EndLastOp(p)
      BY <3>2 DEF EndLastOp
    <3>3. CASE CommitDone(p)
      BY <3>3 DEF CommitDone, wakeup
    <3> QED BY <1>5, <3>1, <3>2, <3>3
  <2> QED BY <2>1, <2>3
<1>6. CASE DiskStep
  <2>1. UNCHANGED <<holder, pc, blk>>
    BY <1>6 DEF DiskStep, write_log, WriteLogDone, write_head, install_trans, InstallDone,
                EraseLog, read_head
  <2> QED BY <2>1
<1>7. ASSUME NEW b \in Block, ReadBlock(b) \/ bget(b)
      PROVE  Locks'
  BY <1>7 DEF ReadBlock, bget
<1>8. CASE Crash
  BY <1>8, LogAssumption DEF Crash, Boot, LogAssumption
<1>9. CASE UNCHANGED vars
  BY <1>9 DEF vars
<1> QED
  BY <1>1, <1>2, <1>3, <1>4, <1>5, <1>6, <1>7, <1>8, <1>9 DEF Next, Running, Step

\* A step that leaves the processes in system calls, the sleepers and the
\* commit alone.
LEMMA SameOps ==
  ASSUME Ops, UNCHANGED <<pc, outstanding, committing, panicked>>,
         stage' = stage \/ (committing /\ stage' \in {"write_head", "install", "erase", "done"})
                        \/ (Recovering /\ stage' \in {"reinstall", "reerase", "none"})
  PROVE  Ops'
BY DEF Ops, InOp, Recovering, NoStuckSleeper

LEMMA OpsKept == TypeOK /\ TypeOK' /\ Ops /\ Idle /\ [Next]_vars => Ops'
<1> SUFFICES ASSUME TypeOK, TypeOK', Ops, Idle, [Next]_vars
             PROVE  Ops'
  OBVIOUS
<1> USE DEF diskVars, cacheVars, logVars, procVars
<1>1. ASSUME NEW p \in Proc, begin_op(p), ~panicked
      PROVE  Ops'
  <2>1. p \notin InOp /\ InOp' = InOp \cup {p}
    BY <1>1 DEF begin_op, InOp, TypeOK
  <2>2. outstanding' = Cardinality(InOp') /\ outstanding' > 0
    BY <1>1, <2>1, Counting DEF begin_op, Ops
  <2> QED BY <1>1, <2>2 DEF begin_op, Ops, Recovering, MustWait, NoStuckSleeper, TypeOK
<1>2. ASSUME NEW p \in Proc, BeginSleeps(p), ~panicked
      PROVE  Ops'
  <2>1. InOp' = InOp
    BY <1>2 DEF BeginSleeps, InOp, TypeOK
  <2>2. committing \/ outstanding > 0
    BY <1>2, LogAssumption, Empty DEF BeginSleeps, MustWait, LogFull, TypeOK, LogAssumption, Idle
  <2> QED BY <1>2, <2>1, <2>2 DEF BeginSleeps, Ops, Recovering, NoStuckSleeper, TypeOK
<1>3. ASSUME NEW p \in Proc, NEW b \in Block, NEW v \in Value, Modify(p, b, v), ~panicked
      PROVE  Ops'
  <2>1. p \in InOp /\ InOp' = InOp
    BY <1>3 DEF Modify, InOp, TypeOK
  <2> QED BY <1>3, <2>1 DEF Modify, Ops, Recovering, NoStuckSleeper, TypeOK
<1>4. ASSUME NEW p \in Proc, LogWriteChecks(p) \/ log_write(p), ~panicked
      PROVE  Ops'
  <2>1. p \in InOp /\ InOp' = InOp
    BY <1>4 DEF LogWriteChecks, log_write, InOp, TypeOK
  <2>2. ~committing
    BY <2>1 DEF Ops
  <2> QED BY <1>4, <2>1, <2>2 DEF LogWriteChecks, log_write, Ops, Recovering, NoStuckSleeper, TypeOK
<1>5. ASSUME NEW p \in Proc, EndOp(p), ~panicked
      PROVE  Ops'
  <2>1. p \in InOp /\ InOp' = InOp \ {p}
    BY <1>5 DEF EndOp, wakeup, InOp, TypeOK
  <2>2. outstanding' = Cardinality(InOp') /\ ~committing
    BY <1>5, <2>1, Counting DEF EndOp, Ops
  <2>3. \A q \in Proc : pc'[q] # "asleep"
    BY <1>5 DEF EndOp, wakeup, TypeOK
  <2> QED BY <1>5, <2>1, <2>2, <2>3 DEF EndOp, Ops, Recovering, NoStuckSleeper, InOp
<1>6. ASSUME NEW p \in Proc, EndLastOp(p), ~panicked
      PROVE  Ops'
  <2>1. p \in InOp /\ InOp' = InOp \ {p}
    BY <1>6 DEF EndLastOp, InOp, TypeOK
  <2>2. outstanding' = Cardinality(InOp') /\ ~committing
    BY <1>6, <2>1, Counting DEF EndLastOp, Ops
  <2>3. InOp' = {}
    <3>1. IsFiniteSet(InOp \ {p})
      BY Counting, FS_Subset
    <3> QED BY <1>6, <2>1, <2>2, <3>1, FS_EmptySet DEF EndLastOp
  <2> QED BY <1>6, <2>1, <2>2, <2>3 DEF EndLastOp, Ops, Recovering, NoStuckSleeper
<1>7. ASSUME NEW p \in Proc, CommitDone(p), ~panicked
      PROVE  Ops'
  <2>1. InOp' = InOp
    BY <1>7 DEF CommitDone, wakeup, InOp, TypeOK
  <2>2. \A q \in Proc : pc'[q] # "asleep"
    BY <1>7 DEF CommitDone, wakeup, TypeOK
  <2> QED BY <1>7, <2>1, <2>2 DEF CommitDone, Ops, Recovering, NoStuckSleeper
<1>8. CASE DiskStep
  BY <1>8, SameOps DEF DiskStep, write_log, WriteLogDone, write_head, install_trans, InstallDone,
                       EraseLog, read_head, Ops, Recovering
<1>9. ASSUME NEW b \in Block, ReadBlock(b) \/ bget(b)
      PROVE  Ops'
  BY <1>9, SameOps DEF ReadBlock, bget
<1>10. CASE Crash
  <2>1. InOp' = {}
    BY <1>10 DEF Crash, Boot, InOp
  <2> QED BY <1>10, <2>1, FS_EmptySet DEF Crash, Boot, Ops, Recovering, NoStuckSleeper
<1>11. CASE UNCHANGED vars
  BY <1>11, SameOps DEF vars
<1> QED
  BY <1>1, <1>2, <1>3, <1>4, <1>5, <1>6, <1>7, <1>8, <1>9, <1>10, <1>11
     DEF Next, Running, Step

-----------------------------------------------------------------------------
(* The shape of the log and the copies of a block. *)

\* Only system calls change what is logged, while the stage is "none".
LEMMA OnlyWhileUp ==
  ASSUME TypeOK, Ops, NEW p \in InOp
  PROVE  stage = "none" /\ outstanding > 0
BY Counting DEF Ops, InOp, Recovering, TypeOK, Stages

LEMMA ShapeKept == TypeOK /\ Locks /\ Ops /\ Shape /\ [Next]_vars => Shape'
<1> SUFFICES ASSUME TypeOK, Locks, Ops, Shape, [Next]_vars
             PROVE  Shape'
  OBVIOUS
<1> USE DEF diskVars, cacheVars, logVars, procVars
<1>1. ASSUME UNCHANGED <<head, logblk, lh, stage, tail>>
      PROVE  Shape'
  BY <1>1 DEF Shape, Distinct
<1>2. ASSUME NEW p \in Proc, begin_op(p) \/ BeginSleeps(p) \/ LogWriteChecks(p) \/ EndOp(p)
      PROVE  Shape'
  BY <1>1, <1>2 DEF begin_op, BeginSleeps, LogWriteChecks, EndOp
<1>3. ASSUME NEW p \in Proc, NEW b \in Block, NEW v \in Value, Modify(p, b, v)
      PROVE  Shape'
  BY <1>1, <1>3 DEF Modify
<1>4. ASSUME NEW p \in Proc, log_write(p)
      PROVE  Shape'
  <2>1. stage = "none" /\ blk[p] \in Block
    BY <1>4, OnlyWhileUp DEF log_write, InOp, Locks
  <2>2. Distinct(lh')
    <3>1. CASE blk[p] \in Logged
      BY <1>4, <3>1 DEF log_write, Shape
    <3>2. CASE blk[p] \notin Logged
      <4>1. \A i \in 1..Len(lh) : lh[i] # blk[p]
        BY <3>2 DEF Logged
      <4> QED BY <1>4, <2>1, <3>2, <4>1, Appended DEF log_write, Shape, Distinct, TypeOK
    <3> QED BY <3>1, <3>2
  <2> QED BY <1>4, <2>1, <2>2 DEF log_write, Shape
<1>5. ASSUME NEW p \in Proc, EndLastOp(p)
      PROVE  Shape'
  <2>1. stage = "none"
    BY <1>5, OnlyWhileUp DEF EndLastOp, InOp
  <2>2. Len(lh) = 0 => lh = <<>>
    BY DEF TypeOK
  <2> QED BY <1>5, <2>1, <2>2 DEF EndLastOp, Shape, Distinct, TypeOK
<1>6. ASSUME NEW p \in Proc, CommitDone(p)
      PROVE  Shape'
  BY <1>6 DEF CommitDone, Shape, Distinct
<1>7. CASE write_log
  <2>1. tail \in 1..Len(lh) /\ tail <= Len(logblk) + 1
    BY <1>7 DEF write_log, MoreBlocks, Shape, TypeOK
  <2>2. bread(lh[tail]) \in Value
    BY <2>1, Element DEF bread, TypeOK
  <2>3. Len(logblk') >= Len(logblk) /\ Len(logblk') >= tail
    BY <1>7, <2>1, <2>2, Replaced, Appended DEF write_log, TypeOK
  <2> QED BY <1>7, <2>1, <2>3 DEF write_log, Shape, TypeOK
<1>8. CASE WriteLogDone
  BY <1>8 DEF WriteLogDone, MoreBlocks, Shape, TypeOK
<1>9. CASE write_head
  BY <1>9 DEF write_head, Shape
<1>10. CASE install_trans
  BY <1>10 DEF install_trans, Shape, TypeOK
<1>11. CASE InstallDone
  BY <1>11, Empty DEF InstallDone, Shape, Distinct
<1>12. CASE EraseLog
  BY <1>12, Empty DEF EraseLog, Shape, Distinct, TypeOK
<1>13. CASE read_head
  BY <1>13 DEF read_head, Shape
<1>14. ASSUME NEW b \in Block, ReadBlock(b) \/ bget(b)
       PROVE  Shape'
  BY <1>1, <1>14 DEF ReadBlock, bget
<1>15. CASE Crash
  BY <1>15, Empty DEF Crash, Boot, Shape, Distinct
<1>16. CASE UNCHANGED vars
  BY <1>1, <1>16 DEF vars
<1> QED
  BY <1>2, <1>3, <1>4, <1>5, <1>6, <1>7, <1>8, <1>9, <1>10, <1>11, <1>12, <1>13, <1>14, <1>15,
     <1>16 DEF Next, Running, Step, DiskStep

LEMMA IdleKept == TypeOK /\ Ops /\ Shape /\ Idle /\ [Next]_vars => Idle'
<1> SUFFICES ASSUME TypeOK, Ops, Shape, Idle, [Next]_vars
             PROVE  Idle'
  OBVIOUS
<1> USE DEF diskVars, cacheVars, logVars, procVars
<1>1. ASSUME NEW p \in Proc, begin_op(p) \/ BeginSleeps(p) \/ LogWriteChecks(p)
      PROVE  Idle'
  BY <1>1 DEF begin_op, BeginSleeps, LogWriteChecks, Idle, Recovering, TypeOK
<1>2. ASSUME NEW p \in Proc, NEW b \in Block, NEW v \in Value, Modify(p, b, v)
      PROVE  Idle'
  BY <1>2 DEF Modify, Idle, Recovering
<1>3. ASSUME NEW p \in Proc, log_write(p) \/ EndOp(p)
      PROVE  Idle'
  <2>1. outstanding > 0
    BY <1>3, OnlyWhileUp DEF log_write, EndOp, InOp
  <2> QED BY <1>3, <2>1 DEF log_write, EndOp, Idle, TypeOK
<1>4. ASSUME NEW p \in Proc, EndLastOp(p)
      PROVE  Idle'
  BY <1>4 DEF EndLastOp, Idle
<1>5. ASSUME NEW p \in Proc, CommitDone(p)
      PROVE  Idle'
  BY <1>5 DEF CommitDone, Idle, Shape
<1>6. CASE write_log \/ WriteLogDone \/ write_head \/ install_trans \/ InstallDone
  BY <1>6 DEF write_log, WriteLogDone, write_head, install_trans, InstallDone, Idle, Recovering
<1>7. CASE EraseLog \/ read_head
  BY <1>7 DEF EraseLog, read_head, Idle, Recovering, Shape
<1>8. ASSUME NEW b \in Block, ReadBlock(b) \/ bget(b)
      PROVE  Idle'
  BY <1>8 DEF ReadBlock, bget, Idle, Recovering
<1>9. CASE Crash
  BY <1>9 DEF Crash, Boot, Idle
<1>10. CASE UNCHANGED vars
  BY <1>10 DEF vars, Idle, Recovering
<1> QED
  BY <1>1, <1>2, <1>3, <1>4, <1>5, <1>6, <1>7, <1>8, <1>9, <1>10 DEF Next, Running, Step, DiskStep

-----------------------------------------------------------------------------
(* The copies of a block. *)

\* Where install_trans() and write_log() are in the log.
LEMMA NextBlock ==
  ASSUME TypeOK, Shape, MoreBlocks, stage \in {"write_log", "install", "reinstall"}
  PROVE  /\ tail \in 1..Len(lh) /\ lh[tail] \in Block
         /\ stage # "write_log" => tail \in 1..Len(logblk) /\ logblk[tail] \in Value
BY Element DEF TypeOK, Shape, MoreBlocks

LEMMA BuffersKept == TypeOK /\ Locks /\ Ops /\ Shape /\ Buffers /\ [Next]_vars => Buffers'
<1> SUFFICES ASSUME TypeOK, Locks, Ops, Shape, Buffers, [Next]_vars
             PROVE  Buffers'
  OBVIOUS
<1> USE DEF diskVars, cacheVars, logVars, procVars
<1>1. ASSUME UNCHANGED <<home, cache, dirty, holder>>
      PROVE  Buffers'
  BY <1>1 DEF Buffers
<1>2. ASSUME NEW p \in Proc, \/ begin_op(p) \/ BeginSleeps(p) \/ LogWriteChecks(p)
                             \/ EndOp(p) \/ EndLastOp(p) \/ CommitDone(p)
      PROVE  Buffers'
  BY <1>1, <1>2 DEF begin_op, BeginSleeps, LogWriteChecks, EndOp, EndLastOp, CommitDone
<1>3. ASSUME NEW p \in Proc, NEW b \in Block, NEW v \in Value, Modify(p, b, v)
      PROVE  Buffers'
  BY <1>3, LogAssumption DEF Modify, Buffers, TypeOK, LogAssumption
<1>4. ASSUME NEW p \in Proc, log_write(p)
      PROVE  Buffers'
  <2>1. blk[p] \in Block /\ holder[blk[p]] = p /\ p # None
    BY <1>4, LogAssumption DEF log_write, Locks, LogAssumption
  <2> QED BY <1>4, <2>1 DEF log_write, MarkDirty, Buffers, TypeOK
<1>5. CASE write_log \/ WriteLogDone \/ write_head \/ InstallDone \/ EraseLog \/ read_head
  BY <1>1, <1>5 DEF write_log, WriteLogDone, write_head, InstallDone, EraseLog, read_head
<1>6. CASE install_trans
  <2>1. lh[tail] \in Block /\ logblk[tail] \in Value
    BY <1>6, NextBlock DEF install_trans
  <2> QED BY <1>6, <2>1, LogAssumption DEF install_trans, Buffers, TypeOK, LogAssumption
<1>7. ASSUME NEW b \in Block, ReadBlock(b) \/ bget(b)
      PROVE  Buffers'
  BY <1>7, LogAssumption DEF ReadBlock, bget, Recyclable, Buffers, TypeOK, LogAssumption
<1>8. CASE Crash
  BY <1>8 DEF Crash, Boot, Buffers
<1>9. CASE UNCHANGED vars
  BY <1>1, <1>9 DEF vars
<1> QED
  BY <1>2, <1>3, <1>4, <1>5, <1>6, <1>7, <1>8, <1>9 DEF Next, Running, Step, DiskStep

LEMMA DirtyKept == TypeOK /\ Locks /\ Ops /\ Shape /\ DirtyLogged /\ [Next]_vars => DirtyLogged'
<1> SUFFICES ASSUME TypeOK, Locks, Ops, Shape, DirtyLogged, [Next]_vars
             PROVE  DirtyLogged'
  OBVIOUS
<1> USE DEF diskVars, cacheVars, logVars, procVars
<1>1. ASSUME UNCHANGED <<lh, dirty, stage, tail>>
      PROVE  DirtyLogged'
  BY <1>1 DEF DirtyLogged
<1>2. ASSUME NEW p \in Proc, begin_op(p) \/ BeginSleeps(p) \/ LogWriteChecks(p) \/ EndOp(p)
      PROVE  DirtyLogged'
  BY <1>1, <1>2 DEF begin_op, BeginSleeps, LogWriteChecks, EndOp
<1>3. ASSUME NEW p \in Proc, NEW b \in Block, NEW v \in Value, Modify(p, b, v)
      PROVE  DirtyLogged'
  BY <1>1, <1>3 DEF Modify
<1>4. ASSUME NEW p \in Proc, log_write(p)
      PROVE  DirtyLogged'
  <2>1. stage = "none" /\ blk[p] \in Block
    BY <1>4, OnlyWhileUp DEF log_write, InOp, Locks
  <2>2. CASE blk[p] \in Logged
    BY <1>4, <2>1, <2>2 DEF log_write, MarkDirty, DirtyLogged, Logged, TypeOK
  <2>3. CASE blk[p] \notin Logged
    <3>1. /\ Len(lh') = Len(lh) + 1 /\ lh'[Len(lh) + 1] = blk[p]
          /\ \A i \in 1..Len(lh) : lh'[i] = lh[i]
      BY <1>4, <2>1, <2>3, Appended DEF log_write, TypeOK
    <3>2. stage' = "none" /\ dirty' = [dirty EXCEPT ![blk[p]] = TRUE]
      BY <1>4, <2>1 DEF log_write, MarkDirty
    <3> SUFFICES ASSUME NEW b \in Block
                 PROVE  dirty'[b] <=> \E i \in 1..Len(lh') : lh'[i] = b
      BY <3>2 DEF DirtyLogged
    <3>3. Len(lh) \in Nat /\ Len(lh) + 1 \in 1..Len(lh')
      BY <3>1 DEF TypeOK
    <3>4. CASE b = blk[p]
      BY <3>1, <3>2, <3>3, <3>4 DEF TypeOK
    <3>5. CASE b # blk[p]
      <4>1. dirty'[b] = dirty[b] /\ (dirty[b] <=> \E i \in 1..Len(lh) : lh[i] = b)
        BY <2>1, <3>2, <3>5 DEF DirtyLogged, TypeOK
      <4>2. (\E i \in 1..Len(lh) : lh[i] = b) <=> (\E i \in 1..Len(lh') : lh'[i] = b)
        BY <3>1, <3>3, <3>5
      <4> QED BY <4>1, <4>2
    <3> QED BY <3>4, <3>5
  <2> QED BY <2>2, <2>3
<1>5. ASSUME NEW p \in Proc, EndLastOp(p) \/ CommitDone(p)
      PROVE  DirtyLogged'
  <2>1. CASE EndLastOp(p)
    <3>1. stage = "none"
      BY <2>1, OnlyWhileUp DEF EndLastOp, InOp
    <3> QED BY <2>1, <3>1 DEF EndLastOp, DirtyLogged, TypeOK
  <2>2. CASE CommitDone(p)
    BY <2>2, Empty DEF CommitDone, DirtyLogged, Shape
  <2> QED BY <1>5, <2>1, <2>2
<1>6. CASE write_log \/ WriteLogDone
  BY <1>6 DEF write_log, WriteLogDone, DirtyLogged
<1>13. CASE write_head
  <2>1. stage = "write_head" /\ stage' = "install" /\ tail' = 1 /\ UNCHANGED <<lh, dirty>>
    BY <1>13 DEF write_head
  <2>2. \A i \in 1..Len(lh) : i >= 1
    BY DEF TypeOK
  <2> QED BY <2>1, <2>2 DEF DirtyLogged
<1>7. CASE install_trans
  <2>1. tail \in 1..Len(lh) /\ lh[tail] \in Block
    BY <1>7, NextBlock DEF install_trans
  <2>2. \A i \in 1..Len(lh) : lh[i] = lh[tail] <=> i = tail
    BY <2>1 DEF Shape, Distinct
  <2>3. UNCHANGED <<lh, stage>> /\ tail' = tail + 1 /\ dirty' = [dirty EXCEPT ![lh[tail]] = FALSE]
    BY <1>7 DEF install_trans
  <2>4. CASE stage = "reinstall"
    BY <2>1, <2>3, <2>4 DEF DirtyLogged, TypeOK
  <2>5. CASE stage = "install"
    <3>1. \A i \in 1..Len(lh) : i >= tail' <=> i >= tail /\ lh[i] # lh[tail]
      BY <2>1, <2>2, <2>3 DEF TypeOK
    <3> SUFFICES ASSUME NEW b \in Block
                 PROVE  dirty'[b] <=> \E i \in 1..Len(lh) : lh[i] = b /\ i >= tail'
      BY <2>3, <2>5 DEF DirtyLogged
    <3>2. dirty'[b] <=> dirty[b] /\ b # lh[tail]
      BY <2>1, <2>3 DEF TypeOK
    <3>3. dirty[b] <=> \E i \in 1..Len(lh) : lh[i] = b /\ i >= tail
      BY <2>5 DEF DirtyLogged
    <3> QED BY <3>1, <3>2, <3>3
  <2> QED BY <1>7, <2>4, <2>5 DEF install_trans
<1>8. CASE InstallDone
  <2>1. \A b \in Block : ~dirty[b]
    BY <1>8 DEF InstallDone, MoreBlocks, DirtyLogged, TypeOK
  <2> QED BY <1>8, <2>1, Empty DEF InstallDone, DirtyLogged
<1>9. CASE EraseLog \/ read_head
  BY <1>9, Empty DEF EraseLog, read_head, DirtyLogged, Shape
<1>10. ASSUME NEW b \in Block, ReadBlock(b) \/ bget(b)
       PROVE  DirtyLogged'
  BY <1>1, <1>10 DEF ReadBlock, bget
<1>11. CASE Crash
  BY <1>11, Empty DEF Crash, Boot, DirtyLogged
<1>12. CASE UNCHANGED vars
  BY <1>1, <1>12 DEF vars
<1> QED
  BY <1>2, <1>3, <1>4, <1>5, <1>6, <1>7, <1>8, <1>9, <1>10, <1>11, <1>12, <1>13
     DEF Next, Running, Step, DiskStep

\* A logged block that is not yet installed has its buffer.
LEMMA Cached ==
  ASSUME TypeOK, Buffers, DirtyLogged, NEW i \in 1..Len(lh),
         \/ stage \in {"none", "write_log", "write_head"}
         \/ stage = "install" /\ i >= tail
  PROVE  lh[i] \in Block /\ dirty[lh[i]] /\ cache[lh[i]] # None
BY Element DEF TypeOK, Buffers, DirtyLogged

LEMMA CopiesKept ==
  TypeOK /\ Locks /\ Ops /\ Shape /\ Buffers /\ DirtyLogged /\ Copies /\ [Next]_vars => Copies'
<1> SUFFICES ASSUME TypeOK, Locks, Ops, Shape, Buffers, DirtyLogged, Copies, [Next]_vars
             PROVE  Copies'
  OBVIOUS
<1> USE DEF diskVars, cacheVars, logVars, procVars
<1>1. ASSUME UNCHANGED <<home, head, logblk, cache, lh, stage, tail>>
      PROVE  Copies'
  BY <1>1 DEF Copies
<1>2. ASSUME NEW p \in Proc, begin_op(p) \/ BeginSleeps(p) \/ LogWriteChecks(p) \/ EndOp(p)
      PROVE  Copies'
  BY <1>1, <1>2 DEF begin_op, BeginSleeps, LogWriteChecks, EndOp
<1>3. ASSUME NEW p \in Proc, NEW b \in Block, NEW v \in Value, Modify(p, b, v)
      PROVE  Copies'
  BY <1>3, OnlyWhileUp DEF Modify, InOp, Copies
<1>4. ASSUME NEW p \in Proc, log_write(p)
      PROVE  Copies'
  BY <1>4, OnlyWhileUp DEF log_write, InOp, Copies
<1>5. ASSUME NEW p \in Proc, EndLastOp(p) \/ CommitDone(p)
      PROVE  Copies'
  BY <1>5 DEF EndLastOp, CommitDone, Copies
<1>6. CASE write_log
  <2>1. tail \in 1..Len(lh) /\ lh[tail] \in Block /\ stage = "write_log"
    BY <1>6, NextBlock DEF write_log
  <2>2. bread(lh[tail]) = cache[lh[tail]] /\ cache[lh[tail]] \in Value
    BY <2>1, Cached DEF bread, TypeOK
  <2>3. logblk'[tail] = cache[lh[tail]] /\ \A i \in 1..Len(lh) : i < tail => logblk'[i] = logblk[i]
    <3>1. tail <= Len(logblk) + 1
      BY <2>1 DEF Shape
    <3>2. CASE tail <= Len(logblk)
      BY <1>6, <2>1, <2>2, <3>2 DEF write_log, TypeOK
    <3>3. CASE ~(tail <= Len(logblk))
      <4>1. tail = Len(logblk) + 1
        BY <2>1, <3>1, <3>3 DEF TypeOK
      <4>2. logblk' = Append(logblk, cache[lh[tail]])
        BY <1>6, <2>2, <3>3 DEF write_log
      <4> QED BY <2>1, <2>2, <4>1, <4>2, Appended DEF TypeOK
    <3> QED BY <3>2, <3>3
  <2>4. UNCHANGED <<lh, cache, stage>> /\ tail' = tail + 1
    BY <1>6 DEF write_log
  <2>5. \A i \in 1..Len(lh) : i < tail' => logblk'[i] = cache[lh[i]]
    <3> SUFFICES ASSUME NEW i \in 1..Len(lh), i < tail'
                 PROVE  logblk'[i] = cache[lh[i]]
      OBVIOUS
    <3>1. i < tail \/ i = tail
      BY <2>1, <2>4 DEF TypeOK
    <3> QED BY <2>1, <2>3, <3>1 DEF Copies
  <2> QED BY <2>1, <2>4, <2>5 DEF Copies
<1>7. CASE WriteLogDone \/ write_head
  <2>1. CASE WriteLogDone
    BY <2>1, SMTT(30) DEF WriteLogDone, MoreBlocks, Copies, TypeOK
  <2>2. CASE write_head
    BY <2>2, SMTT(30) DEF write_head, MoreBlocks, Copies, TypeOK
  <2> QED BY <1>7, <2>1, <2>2
<1>8. CASE install_trans
  <2>1. tail \in 1..Len(lh) /\ lh[tail] \in Block
    BY <1>8, NextBlock DEF install_trans
  <2>2. \A i \in 1..Len(lh) : lh[i] \in Block /\ (lh[i] = lh[tail] <=> i = tail)
    BY <2>1, Element DEF Shape, Distinct, TypeOK
  <2> QED BY <1>8, <2>1, <2>2, SMTT(30) DEF install_trans, Copies, TypeOK
<1>9. CASE InstallDone
  BY <1>9 DEF InstallDone, MoreBlocks, Shape, Copies, TypeOK
<1>10. CASE EraseLog \/ read_head
  <2>1. CASE EraseLog
    BY <2>1, Zenon DEF EraseLog, Copies, TypeOK
  <2>2. CASE read_head
    BY <2>2, SMTT(30) DEF read_head, Copies, TypeOK
  <2> QED BY <1>10, <2>1, <2>2
<1>11. ASSUME NEW b \in Block, ReadBlock(b) \/ bget(b)
       PROVE  Copies'
  <2>1. UNCHANGED <<home, head, logblk, lh, stage, tail>> /\ \A c \in Block \ {b} : cache'[c] = cache[c]
    BY <1>11, SMTT(30) DEF ReadBlock, bget, TypeOK
  <2>2. cache[b] = None \/ ~dirty[b]
    <3>1. CASE ReadBlock(b)
      BY <3>1 DEF ReadBlock
    <3>2. CASE bget(b)
      BY <3>2, Zenon DEF bget, Recyclable
    <3> QED BY <1>11, <3>1, <3>2
  <2>3. \A i \in 1..Len(lh) :
          \/ stage \in {"write_log", "write_head"}
          \/ stage = "install" /\ i >= tail
          => cache'[lh[i]] = cache[lh[i]]
    BY <2>1, <2>2, Cached
  <2> QED BY <2>1, <2>3, SMTT(60), ZenonT(60) DEF Copies
<1>12. CASE Crash
  BY <1>12 DEF Crash, Boot, Copies
<1>13. CASE UNCHANGED vars
  BY <1>1, <1>13 DEF vars
<1> QED
  BY <1>2, <1>3, <1>4, <1>5, <1>6, <1>7, <1>8, <1>9, <1>10, <1>11, <1>12, <1>13
     DEF Next, Running, Step, DiskStep

-----------------------------------------------------------------------------
LEMMA InitKeeps == Init => IInv
<1> SUFFICES ASSUME Init
             PROVE  IInv
  OBVIOUS
<1> USE DEF Init
<1>1. TypeOK
  BY Empty DEF TypeOK, Pcs, Stages
<1>2. Locks /\ Buffers /\ DirtyLogged
  BY Empty, LogAssumption DEF Locks, Buffers, DirtyLogged, LogAssumption
<1>3. Ops
  <2>1. InOp = {}
    BY DEF InOp
  <2> QED BY <2>1, FS_EmptySet DEF Ops, Recovering, NoStuckSleeper
<1>4. Shape /\ Copies /\ Idle
  BY Empty DEF Shape, Copies, Idle, Distinct, Recovering
<1> QED BY <1>1, <1>2, <1>3, <1>4 DEF IInv

LEMMA NextKeeps == IInv /\ [Next]_vars => IInv'
<1> SUFFICES ASSUME IInv, [Next]_vars
             PROVE  IInv'
  OBVIOUS
<1>1. TypeOK'
  BY TypeKept DEF IInv
<1>2. Locks' /\ Ops' /\ Shape'
  BY <1>1, LocksKept, OpsKept, ShapeKept DEF IInv
<1>3. Idle' /\ Buffers' /\ DirtyLogged' /\ Copies'
  BY IdleKept, BuffersKept, DirtyKept, CopiesKept DEF IInv
<1> QED BY <1>1, <1>2, <1>3 DEF IInv

\* The invariant holds in every state of every run of the log.
THEOREM Invariance == Spec => []IInv
BY InitKeeps, NextKeeps, PTL DEF Spec

\* The variables of the log keep their types, for any number of processes and
\* blocks (struct log, struct buf, the disk).
THEOREM TypeCorrect == Spec => []TypeOK
<1>1. IInv => TypeOK
  BY DEF IInv
<1> QED BY <1>1, Invariance, PTL

\* commit() runs with no system call active (begin_op(), end_op()).
THEOREM CommitAloneHolds == Spec => []CommitAlone
<1>1. IInv => CommitAlone
  <2> SUFFICES ASSUME IInv, committing
               PROVE  outstanding = 0 /\ InOp = {} /\ ~panicked
    BY DEF CommitAlone
  <2> QED BY FS_EmptySet DEF IInv, Ops
<1> QED BY <1>1, Invariance, PTL

\* begin_op() never sleeps without somebody to wake it.
THEOREM NoStuckSleeperHolds == Spec => []NoStuckSleeper
<1>1. IInv => NoStuckSleeper
  BY DEF IInv, Ops
<1> QED BY <1>1, Invariance, PTL

\* The buffer of a logged block is not recycled before it is installed
\* (log_write(), bget()).
THEOREM PinnedHolds == Spec => []Pinned
<1>1. IInv => Pinned
  BY DEF IInv, Pinned, Logged, DirtyLogged, Buffers
<1> QED BY <1>1, Invariance, PTL

\* A file system in which nobody is active is on disk as it is in memory
\* (end_op(), commit()).
THEOREM DurableHolds == Spec => []Durable
<1>1. IInv => Durable
  <2> SUFFICES ASSUME IInv, outstanding = 0, ~committing, ~Recovering
               PROVE  head = <<>> /\ lh = <<>> /\ home = Current
    BY DEF Durable
  <2>1. stage = "none" /\ lh = <<>> /\ head = <<>>
    BY DEF IInv, TypeOK, Stages, Ops, Recovering, Idle, Shape
  <2>2. InOp = {}
    BY Counting DEF IInv, Ops
  <2>3. \A b \in Block : ~dirty[b] /\ holder[b] = None
    BY <2>1, <2>2, Empty DEF IInv, DirtyLogged, Locks, InOp, TypeOK
  <2>4. \A b \in Block : bread(b) = home[b]
    BY <2>3 DEF IInv, Buffers, bread
  <2> QED BY <2>1, <2>4 DEF Current, IInv, TypeOK
<1> QED BY <1>1, Invariance, PTL

\* A block at its place on disk is only overwritten from the log
\* (install_trans()).
THEOREM WriteAheadHolds == Spec => WriteAhead
<1> DEFINE A == \A b \in Block : home'[b] # home[b] =>
                  \E i \in 1..Len(head) : head[i] = b /\ home'[b] = logblk[i]
<1>1. IInv /\ [Next]_vars => [A]_vars
  <2> SUFFICES ASSUME IInv, Next
               PROVE  A
    OBVIOUS
  <2>1. CASE install_trans
    <3>1. tail \in 1..Len(lh) /\ lh[tail] \in Block /\ lh = head
      BY <2>1, NextBlock DEF install_trans, IInv, Shape
    <3> QED BY <2>1, <3>1 DEF install_trans, IInv, TypeOK
  <2>2. CASE ~install_trans
    <3>1. UNCHANGED home
      BY <2>2 DEF Next, Running, Step, DiskStep, begin_op, BeginSleeps, Modify, LogWriteChecks,
         log_write, EndOp, EndLastOp, CommitDone, write_log, WriteLogDone, write_head,
         InstallDone, EraseLog, read_head, ReadBlock, bget, Crash, diskVars
    <3> QED BY <3>1
  <2> QED BY <2>1, <2>2
<1> QED BY <1>1, Invariance, PTL DEF Spec, WriteAhead

-----------------------------------------------------------------------------
(* The refinement. *)

\* What recovery would make of a block.
RecoveredBlocks ==
  /\ Recovered \in [Block -> Value]
  /\ \A i \in 1..Len(head) : Recovered[head[i]] = logblk[i]
  /\ \A b \in Block : (\A i \in 1..Len(head) : head[i] # b) => Recovered[b] = home[b]

LEMMA RecoveredIs == TypeOK /\ Shape => RecoveredBlocks
<1> SUFFICES ASSUME TypeOK, Shape
             PROVE  RecoveredBlocks
  OBVIOUS
<1>1. ASSUME NEW i \in 1..Len(head)
      PROVE  Recovered[head[i]] = logblk[i]
  <2>1. head[i] \in Block
    BY Element DEF TypeOK
  <2>2. (CHOOSE j \in 1..Len(head) : head[j] = head[i]) = i
    BY DEF Shape, Distinct
  <2> QED BY <2>1, <2>2 DEF Recovered
<1>2. ASSUME NEW b \in Block, \A i \in 1..Len(head) : head[i] # b
      PROVE  Recovered[b] = home[b]
  BY <1>2 DEF Recovered
<1>3. \A b \in Block : Recovered[b] \in Value
  <2> SUFFICES ASSUME NEW b \in Block
               PROVE  Recovered[b] \in Value
    OBVIOUS
  <2>1. CASE \E i \in 1..Len(head) : head[i] = b
    <3>1. PICK i \in 1..Len(head) : head[i] = b
      BY <2>1
    <3>2. i \in 1..Len(logblk)
      BY DEF TypeOK, Shape
    <3> QED BY <1>1, <3>1, <3>2, Element DEF TypeOK
  <2>2. CASE \A i \in 1..Len(head) : head[i] # b
    BY <1>2, <2>2 DEF TypeOK
  <2> QED BY <2>1, <2>2
<1>4. Recovered = [b \in Block |-> Recovered[b]]
  BY DEF Recovered
<1> QED BY <1>1, <1>2, <1>3, <1>4 DEF RecoveredBlocks

\* The same after a step.
LEMMA RecoveredIsNext == TypeOK' /\ Shape' => RecoveredBlocks'
BY RecoveredIs, PTL

\* With an empty header, recovery leaves the blocks as they are.
LEMMA NothingLogged == TypeOK /\ Shape /\ head = <<>> => Recovered = home
<1> SUFFICES ASSUME TypeOK, Shape, head = <<>>
             PROVE  Recovered = home
  OBVIOUS
<1>1. \A b \in Block : Recovered[b] = home[b]
  <2>1. \A i \in 1..Len(head) : FALSE
    BY Empty
  <2>2. \A b \in Block : (\A i \in 1..Len(head) : head[i] # b) => Recovered[b] = home[b]
    BY RecoveredIs DEF RecoveredBlocks
  <2> QED BY <2>1, <2>2, Zenon
<1> QED BY <1>1, RecoveredIs DEF RecoveredBlocks, TypeOK

LEMMA NothingLoggedNext == TypeOK' /\ Shape' /\ (head = <<>>)' => (Recovered = home)'
BY NothingLogged, PTL

\* A commit makes what system calls see what a crash leaves.
LEMMA Commits == IInv /\ IInv' /\ write_head => Abs!Commit
<1> SUFFICES ASSUME IInv, IInv', write_head
             PROVE  Abs!Commit
  OBVIOUS
<1> USE DEF diskVars, cacheVars, logVars, procVars
<1>1. /\ stage = "write_head" /\ head' = lh /\ ~Recovering /\ ~Recovering'
      /\ UNCHANGED <<home, logblk, cache, pc>>
  BY DEF write_head, Recovering
<1>2. InOp = {} /\ InOp' = InOp
  BY <1>1 DEF IInv, Ops, InOp
<1>3. Current' = Current
  BY <1>1 DEF Current, bread
<1>4. \A b \in Block : Recovered'[b] = bread(b)
  <2> SUFFICES ASSUME NEW b \in Block
               PROVE  Recovered'[b] = bread(b)
    OBVIOUS
  <2>1. CASE \E i \in 1..Len(lh) : lh[i] = b
    <3>1. PICK i \in 1..Len(lh) : lh[i] = b
      BY <2>1
    <3>2. Recovered'[b] = logblk[i]
      BY <1>1, <3>1, RecoveredIsNext DEF IInv, RecoveredBlocks
    <3>3. logblk[i] = cache[b] /\ cache[b] # None
      BY <1>1, <3>1, Cached DEF IInv, Copies
    <3> QED BY <3>2, <3>3 DEF bread
  <2>2. CASE \A i \in 1..Len(lh) : lh[i] # b
    <3>1. Recovered'[b] = home[b]
      BY <1>1, <2>2, RecoveredIsNext DEF IInv, RecoveredBlocks
    <3>2. ~dirty[b] /\ holder[b] = None
      <4>1. ~dirty[b]
        BY <2>2 DEF IInv, DirtyLogged
      <4>2. \A p \in Proc : pc[p] \notin {"check", "append"}
        BY <1>2 DEF InOp
      <4>3. holder[b] \in Proc \cup {None} /\ \A p \in Proc : holder[b] # p
        BY <4>2 DEF IInv, Locks, TypeOK
      <4> QED BY <4>1, <4>3
    <3> QED BY <3>1, <3>2 DEF IInv, Buffers, bread
  <2> QED BY <2>1, <2>2
<1>5. Recovered' = Current
  <2>1. Current = [b \in Block |-> bread(b)]
    BY <1>1 DEF Current
  <2>2. Recovered' = [b \in Block |-> Recovered'[b]]
    BY DEF Recovered
  <2>3. [b \in Block |-> Recovered'[b]] = [b \in Block |-> bread(b)]
    BY <1>4, Zenon
  <2> QED BY <2>1, <2>2, <2>3, Zenon
<1> QED BY <1>2, <1>3, <1>5 DEF Abs!Commit

\* Installing a block changes nothing that anybody sees, nor does the removal
\* of the header once all are installed.
LEMMA Installs ==
  IInv /\ IInv' /\ (install_trans \/ EraseLog) => UNCHANGED <<Recovered, Current, InOp>>
<1> SUFFICES ASSUME IInv, IInv', install_trans \/ EraseLog
             PROVE  UNCHANGED <<Recovered, Current, InOp>>
  OBVIOUS
<1> USE DEF diskVars, cacheVars, logVars, procVars
<1>1. InOp' = InOp
  BY DEF install_trans, EraseLog, InOp
<1>2. CASE install_trans
  <2>1. /\ tail \in 1..Len(lh) /\ lh[tail] \in Block /\ lh = head
        /\ UNCHANGED <<head, logblk, stage>>
    BY <1>2, NextBlock DEF install_trans, IInv, Shape
  <2>2. \A b \in Block : Recovered'[b] = Recovered[b]
    <3> SUFFICES ASSUME NEW b \in Block
                 PROVE  Recovered'[b] = Recovered[b]
      OBVIOUS
    <3>1. CASE \E i \in 1..Len(head) : head[i] = b
      <4>1. PICK i \in 1..Len(head) : head[i] = b
        BY <3>1
      <4>2. Recovered[b] = logblk[i]
        BY <4>1, RecoveredIs DEF IInv, RecoveredBlocks
      <4>3. Recovered'[b] = logblk[i]
        BY <2>1, <4>1, RecoveredIsNext DEF IInv, RecoveredBlocks
      <4> QED BY <4>2, <4>3
    <3>2. CASE \A i \in 1..Len(head) : head[i] # b
      <4>1. home'[b] = home[b]
        BY <1>2, <2>1, <3>2 DEF install_trans, IInv, TypeOK
      <4> QED BY <2>1, <3>2, <4>1, RecoveredIs, RecoveredIsNext DEF IInv, RecoveredBlocks
    <3> QED BY <3>1, <3>2
  <2>3. Recovered' = Recovered
    BY <2>2 DEF Recovered
  <2>4. CASE stage = "reinstall"
    BY <1>1, <2>1, <2>3, <2>4 DEF Current, Recovering
  <2>5. CASE stage = "install"
    <3>1. logblk[tail] = cache[lh[tail]] /\ cache[lh[tail]] # None
      <4>1. cache[lh[tail]] # None
        BY <2>1, <2>5, Cached DEF IInv
      <4>2. logblk[tail] = cache[lh[tail]]
        BY <2>1, <2>5 DEF IInv, Copies
      <4> QED BY <4>1, <4>2
    <3>2. cache' = cache
      BY <1>2, <2>1, <3>1, SMTT(60), ZenonT(60) DEF install_trans, IInv, TypeOK
    <3>3. \A b \in Block : bread(b)' = bread(b)
      BY <1>2, <2>1, <3>1, <3>2 DEF install_trans, bread, IInv, TypeOK
    <3> QED BY <1>1, <2>1, <2>3, <2>5, <3>3 DEF Current, Recovering
  <2> QED BY <1>2, <2>4, <2>5 DEF install_trans
<1>3. CASE EraseLog
  <2>1. /\ head' = <<>> /\ UNCHANGED <<home, cache, dirty, holder>>
        /\ stage \in {"erase", "reerase"} /\ stage' \in {"done", "none"}
        /\ stage = "erase" <=> stage' = "done"
    BY <1>3 DEF EraseLog, IInv, Shape
  <2>2. \A b \in Block : Recovered[b] = home[b]
    BY <2>1, RecoveredIs DEF IInv, Copies, RecoveredBlocks
  <2>3. Recovered' = home /\ Recovered = home
    <3>1. Recovered' = home
      BY <2>1, NothingLoggedNext DEF IInv
    <3>2. Recovered = home
      <4>1. Recovered \in [Block -> Value] /\ home \in [Block -> Value]
        BY RecoveredIs DEF IInv, RecoveredBlocks, TypeOK
      <4> QED BY <2>2, <4>1
    <3> QED BY <3>1, <3>2
  <2>4. CASE stage = "erase"
    BY <1>1, <2>1, <2>3, <2>4 DEF Current, Recovering, bread
  <2>5. CASE stage = "reerase"
    <3>1. InOp = {}
      BY <2>5 DEF IInv, Ops, InOp, Recovering
    <3>2. \A b \in Block : ~dirty[b] /\ holder[b] = None
      <4>1. \A b \in Block : ~dirty[b]
        BY <2>5 DEF IInv, DirtyLogged
      <4>2. \A p \in Proc : pc[p] \notin {"check", "append"}
        BY <3>1 DEF InOp
      <4>3. \A b \in Block : holder[b] \in Proc \cup {None} /\ \A p \in Proc : holder[b] # p
        BY <4>2 DEF IInv, Locks, TypeOK
      <4> QED BY <4>1, <4>3
    <3>3. \A b \in Block : bread(b)' = home[b]
      BY <2>1, <3>2 DEF IInv, Buffers, bread
    <3> QED BY <1>1, <2>1, <2>3, <2>5, <3>3 DEF Current, Recovering
  <2> QED BY <2>1, <2>4, <2>5
<1> QED BY <1>2, <1>3

\* A step that leaves the disk as recovery sees it, and the buffers.
LEMMA Unseen ==
  ASSUME UNCHANGED <<home, head, logblk, cache>>, Recovering' = Recovering
  PROVE  UNCHANGED <<Recovered, Current>>
BY DEF Recovered, Current, bread

\* Every step of the log is a step of the crash-atomic store, or none.
LEMMA StepRefines == IInv /\ IInv' /\ [Next]_vars => [Abs!Next]_(Abs!vars)
<1> SUFFICES ASSUME IInv, IInv', [Next]_vars
             PROVE  [Abs!Next]_(Abs!vars)
  OBVIOUS
<1> USE DEF diskVars, cacheVars, logVars, procVars
<1>1. ASSUME NEW p \in Proc, begin_op(p)
      PROVE  Abs!Begin(p)
  <2>1. InOp' = InOp \cup {p} /\ p \notin InOp
    <3>1. pc[p] = "idle" /\ pc' = [pc EXCEPT ![p] = "op"] /\ pc \in [Proc -> Pcs]
      BY <1>1 DEF begin_op, IInv, TypeOK
    <3> QED BY <3>1 DEF InOp
  <2> QED BY <1>1, <2>1, Unseen DEF begin_op, Recovering, Abs!Begin
<1>2. ASSUME NEW p \in Proc, BeginSleeps(p) \/ LogWriteChecks(p) \/ log_write(p) \/ CommitDone(p)
      PROVE  UNCHANGED <<Recovered, Current, InOp>>
  <2>1. InOp' = InOp
    <3>1. CASE BeginSleeps(p)
      BY <3>1 DEF BeginSleeps, InOp, IInv, TypeOK
    <3>2. CASE LogWriteChecks(p)
      BY <3>2 DEF LogWriteChecks, InOp, IInv, TypeOK
    <3>3. CASE log_write(p)
      BY <3>3 DEF log_write, InOp, IInv, TypeOK
    <3>4. CASE CommitDone(p)
      BY <3>4 DEF CommitDone, wakeup, InOp, IInv, TypeOK
    <3> QED BY <1>2, <3>1, <3>2, <3>3, <3>4
  <2> QED
    BY <1>2, <2>1, Unseen DEF BeginSleeps, LogWriteChecks, log_write, CommitDone, Recovering
<1>3. ASSUME NEW p \in Proc, NEW b \in Block, NEW v \in Value, Modify(p, b, v)
      PROVE  Abs!Write(p, b, v)
  <2>1. p \in InOp /\ InOp' = InOp
    <3>1. pc[p] = "op" /\ pc' = [pc EXCEPT ![p] = "check"] /\ pc \in [Proc -> Pcs]
      BY <1>3 DEF Modify, IInv, TypeOK
    <3> QED BY <3>1 DEF InOp
  <2>2. ~Recovering /\ ~Recovering'
    BY <1>3, <2>1, OnlyWhileUp, Zenon DEF Modify, Recovering, IInv
  <2>3. Recovered' = Recovered
    BY <1>3 DEF Modify, Recovered
  <2>4. \A c \in Block : bread(c)' = IF c = b THEN v ELSE bread(c)
    <3>1. /\ cache' = [cache EXCEPT ![b] = v] /\ home' = home
          /\ cache \in [Block -> Value \cup {None}] /\ None \notin Value
      BY <1>3, LogAssumption DEF Modify, IInv, TypeOK, LogAssumption
    <3> QED BY <3>1 DEF bread
  <2>5. Current' = [Current EXCEPT ![b] = v]
    BY <2>2, <2>4 DEF Current
  <2> QED BY <2>1, <2>3, <2>5, SMTT(30) DEF Abs!Write
<1>4. ASSUME NEW p \in Proc, EndOp(p) \/ EndLastOp(p)
      PROVE  Abs!End(p)
  <2>1. p \in InOp
    BY <1>4 DEF EndOp, EndLastOp, InOp
  <2>2. InOp' = InOp \ {p}
    <3>1. CASE EndOp(p)
      BY <3>1 DEF EndOp, wakeup, InOp, IInv, TypeOK
    <3>2. CASE EndLastOp(p)
      BY <3>2 DEF EndLastOp, InOp, IInv, TypeOK
    <3> QED BY <1>4, <3>1, <3>2
  <2>3. Recovering' = Recovering
    BY <1>4, <2>1, OnlyWhileUp DEF EndOp, EndLastOp, Recovering, IInv
  <2> QED BY <1>4, <2>1, <2>2, <2>3, Unseen DEF EndOp, EndLastOp, Abs!End
<1>5. CASE write_log
  <2>1. head = <<>> /\ UNCHANGED <<home, head, cache, stage, pc>>
    BY <1>5, SMTT(30) DEF write_log, IInv, Shape
  <2>2. Recovered' = Recovered
    BY <2>1, NothingLogged, NothingLoggedNext DEF IInv
  <2>3. UNCHANGED <<Recovered, Current, InOp>>
    BY <2>1, <2>2 DEF Current, bread, Recovering, InOp
  <2> QED BY <2>3 DEF Abs!vars
<1>6. CASE WriteLogDone \/ InstallDone \/ read_head
  <2>1. UNCHANGED InOp
    BY <1>6 DEF WriteLogDone, InstallDone, read_head, InOp
  <2> QED BY <1>6, <2>1, Unseen DEF WriteLogDone, InstallDone, read_head, Recovering, Abs!vars
<1>7. ASSUME NEW b \in Block, ReadBlock(b) \/ bget(b)
      PROVE  UNCHANGED <<Recovered, Current, InOp>>
  <2>1. UNCHANGED <<home, head, logblk, stage, pc>>
    BY <1>7 DEF ReadBlock, bget
  <2>2. \A c \in Block : bread(c)' = bread(c)
    BY <1>7, LogAssumption DEF ReadBlock, bget, Recyclable, bread, IInv, TypeOK, Buffers, LogAssumption
  <2> QED BY <2>1, <2>2 DEF Recovered, Current, Recovering, InOp
<1>8. CASE Crash
  <2>1. UNCHANGED Recovered /\ InOp' = {} /\ Recovering'
    BY <1>8 DEF Crash, Boot, Recovered, InOp, Recovering
  <2>2. Current' = Recovered
    BY <2>1 DEF Current, Recovered
  <2> QED BY <2>1, <2>2 DEF Abs!Next, Abs!Crash
<1>9. CASE UNCHANGED vars
  <2>1. UNCHANGED InOp
    BY <1>9 DEF vars, InOp
  <2> QED BY <1>9, <2>1, Unseen DEF vars, Recovering, Abs!vars
<1> QED
  BY <1>1, <1>2, <1>3, <1>4, <1>5, <1>6, <1>7, <1>8, <1>9, Commits, Installs
     DEF Next, Running, Step, DiskStep, Abs!Next, Abs!vars

\* The log implements the crash-atomic store: whatever disk write the machine
\* stops at, it comes back between two system calls (commit(),
\* recover_from_log()).
THEOREM AtomicHolds == Spec => Atomic
<1>1. Init => Abs!Init
  <2> SUFFICES ASSUME Init
               PROVE  Abs!Init
    OBVIOUS
  <2>1. Recovered = home
    BY InitKeeps, RecoveredIs, Empty DEF Init, IInv, TypeOK, RecoveredBlocks
  <2> QED BY <2>1 DEF Init, Abs!Init, Current, Recovering, InOp
<1> QED BY <1>1, StepRefines, Invariance, PTL DEF Spec, Atomic, Abs!Spec
=============================================================================
