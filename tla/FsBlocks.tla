------------------------------ MODULE FsBlocks ------------------------------
(***************************************************************************)
(* The blocks of files (fs.c): the free map, direct and indirect blocks,   *)
(* reads and writes at an offset that a descriptor shared by several       *)
(* processes holds (file.c), on the image mkfs.c builds.  A block is BSIZE *)
(* cells; a cell is a byte of data, a directory entry (the inode number)   *)
(* or a block address, 0 when it is empty.  The on-disk inodes are dino,   *)
(* the cached ones ino.  A process holds the inode's lock for one chunk of *)
(* a write and takes one step per block; a transaction is atomic (see Log).*)
(***************************************************************************)
EXTENDS Integers, Sequences, FiniteSets, SequencesExt

CONSTANTS
  Proc, None,
  Byte,        \* the byte each process writes
  Fd,          \* open descriptors, shared by the processes
  Inode,       \* the inode of each descriptor
  Shared,      \* the descriptor that is the only one of its, new, file
  Files,       \* contents of the files mkfs is given: a set of sequences of them
  NINUM, NBLOCK, BSIZE, NDIRECT, MAXOPBLOCKS,
  BPB,         \* bits of a bitmap block
  NCALL,       \* bound: calls of each process
  Sizes        \* bound: bytes of a call

Inum == 1..NINUM
Root == 1
Block == 1..NBLOCK
NINDIRECT == BSIZE
MAXFILE == NDIRECT + NINDIRECT
Min2(a, b) == IF a < b THEN a ELSE b

VARIABLES
  fs,      \* the disk and the cached inodes
  off,     \* f->off of each descriptor
  lock,    \* holder of each inode's lock
  call,    \* the write each process is in
  calls,   \* calls each process has made
  logged,  \* blocks of each process's transaction
  data,    \* what each file should hold
  sent,    \* bytes each process has written to Shared
  fits,    \* no transaction of filewrite() so far was larger than MAXOPBLOCKS
  panic

vars == <<fs, off, lock, call, calls, logged, data, sent, fits, panic>>

Zeroes == [k \in 0..(BSIZE - 1) |-> 0]
NoInode == [size |-> 0, addrs |-> [k \in 0..NDIRECT |-> 0]]
Idle == [fd |-> None, left |-> 0, n |-> 0, m |-> 0, off |-> 0]

-----------------------------------------------------------------------------
(* mkfs.                                                                   *)

NoImage == [freeblock |-> 1,
            ino |-> [i \in Inum |-> NoInode], block |-> [b \in Block |-> Zeroes]]

\* iappend(), for one cell.
iappend(img, i, cell) ==
  LET din == img.ino[i]
      fbn == din.size \div BSIZE
      k == Min2(fbn, NDIRECT)
      s1 == IF din.addrs[k] # 0 THEN img
            ELSE [img EXCEPT !.ino[i].addrs[k] = img.freeblock, !.freeblock = @ + 1]
      a == s1.ino[i].addrs[k]
      s2 == IF fbn < NDIRECT \/ s1.block[a][fbn - NDIRECT] # 0 THEN s1
            ELSE [s1 EXCEPT !.block[a][fbn - NDIRECT] = s1.freeblock, !.freeblock = @ + 1]
      x == IF fbn < NDIRECT THEN a ELSE s2.block[a][fbn - NDIRECT]
  IN  [s2 EXCEPT !.block[x][din.size % BSIZE] = cell, !.ino[i].size = @ + 1]

append(img, i, cells) == FoldLeft(LAMBDA s, c : iappend(s, i, c), img, cells)

\* "fix size of root inode dir"
fixroot(img) == [img EXCEPT !.ino[Root].size = ((@ \div BSIZE) + 1) * BSIZE]

\* main(): the root directory, then each file; inode i + 1 is the i-th file.
mkfs(files) ==
  fixroot(FoldLeftDomain(LAMBDA s, i : append(append(s, Root, <<i + 1>>), i + 1, files[i]),
                         append(NoImage, Root, <<Root, Root>>), files))

-----------------------------------------------------------------------------
(* Operators on s = fs with log, the blocks log_write() has been called on. *)

\* Zero and mark the first free block; the new block is the one not in s.used.
firstfree(s) == CHOOSE b \in Block \ s.used : \A c \in Block \ s.used : b <= c

bitmapOf(b) == <<"bitmap", b \div BPB>>

balloc(s) ==
  LET b == firstfree(s)
  IN  [s EXCEPT !.used = @ \cup {b}, !.block[b] = Zeroes,
                !.log = @ \cup {bitmapOf(b), <<"block", b>>}]

bfree(s, b) == [s EXCEPT !.used = @ \ {b}, !.log = @ \cup {bitmapOf(b)}]

iupdate(s, i) == [s EXCEPT !.dino[i] = s.ino[i], !.log = @ \cup {<<"inode", i>>}]

\* bmap()'s allocations, and the address it returns once they are done.
bmapdirect(s, i, k) ==
  IF s.ino[i].addrs[k] # 0 THEN s
  ELSE [balloc(s) EXCEPT !.ino[i].addrs[k] = firstfree(s)]

bmapindirect(s, a, k) ==
  IF s.block[a][k] # 0 THEN s
  ELSE LET t == balloc(s)
       IN  [t EXCEPT !.block[a][k] = firstfree(s), !.log = @ \cup {<<"block", a>>}]

bmap(s, i, bn) ==
  LET t == bmapdirect(s, i, Min2(bn, NDIRECT))
  IN  IF bn < NDIRECT THEN t ELSE bmapindirect(t, t.ino[i].addrs[NDIRECT], bn - NDIRECT)

addr(s, i, bn) ==
  IF bn < NDIRECT THEN s.ino[i].addrs[bn]
  ELSE s.block[s.ino[i].addrs[NDIRECT]][bn - NDIRECT]

\* How many blocks bmap() has to allocate; it panics when they are not there.
needs(s, i, bn) ==
  IF bn < NDIRECT THEN IF s.ino[i].addrs[bn] = 0 THEN 1 ELSE 0
  ELSE IF s.ino[i].addrs[NDIRECT] = 0 THEN 2
  ELSE IF addr(s, i, bn) = 0 THEN 1 ELSE 0

NoRoom(s, i, bn) == needs(s, i, bn) > NBLOCK - Cardinality(s.used)

\* itrunc()
referenced(s, i) ==
  LET a == s.ino[i].addrs
  IN  ({a[k] : k \in 0..NDIRECT}
         \cup (IF a[NDIRECT] = 0 THEN {} ELSE {s.block[a[NDIRECT]][k] : k \in 0..(NINDIRECT - 1)}))
      \ {0}

\* Variant of itrunc: the indirect block itself is not freed.
itruncDirect(s, i) ==
  LET t == FoldLeft(bfree, s, SetToSeq(referenced(s, i) \ {s.ino[i].addrs[NDIRECT]}))
  IN  iupdate([t EXCEPT !.ino[i] = NoInode], i)

itrunc(s, i) ==
  LET t == FoldLeft(bfree, s, SetToSeq(referenced(s, i)))
  IN  iupdate([t EXCEPT !.ino[i] = NoInode], i)

\* readi(): the blocks it maps, then the cells it copies.
clip(s, i, o, n) == IF o > s.ino[i].size THEN 0 ELSE Min2(n, s.ino[i].size - o)

touched(o, n) == IF n = 0 THEN <<>>
                 ELSE [k \in 1..((o + n - 1) \div BSIZE - o \div BSIZE + 1) |-> o \div BSIZE + k - 1]

mapall(s, i, o, n) == FoldLeft(LAMBDA t, bn : bmap(t, i, bn), s, touched(o, n))

cells(s, i, o, n) ==
  [k \in 1..n |-> s.block[addr(s, i, (o + k - 1) \div BSIZE)][(o + k - 1) % BSIZE]]

-----------------------------------------------------------------------------
Init ==
  /\ \E files \in Files :
       LET img == mkfs(files)
       IN  /\ fs = [used |-> 1..(img.freeblock - 1), block |-> img.block,
                    ino |-> img.ino, dino |-> img.ino]
           /\ data = [i \in Inum |-> IF i - 1 \in DOMAIN files THEN files[i - 1] ELSE <<>>]
  /\ off = [d \in Fd |-> 0]
  /\ lock = [i \in Inum |-> None]
  /\ call = [p \in Proc |-> Idle]
  /\ calls = [p \in Proc |-> 0]
  /\ logged = [p \in Proc |-> {}]
  /\ sent = [p \in Proc |-> 0]
  /\ fits = TRUE
  /\ panic = FALSE

With(log) == [used |-> fs.used, block |-> fs.block, ino |-> fs.ino, dino |-> fs.dino, log |-> log]
Disk(s) == [used |-> s.used, block |-> s.block, ino |-> s.ino, dino |-> s.dino]

Panic ==
  /\ panic' = TRUE
  /\ UNCHANGED <<fs, off, lock, call, calls, logged, data, sent, fits>>

CanCall(p) == ~panic /\ call[p] = Idle /\ calls[p] < NCALL
Called(p) == calls' = [calls EXCEPT ![p] = @ + 1]

\* sys_write() on a file (a directory is not open for writing), up to filewrite()'s loop.
sys_write(p, d, n) ==
  /\ CanCall(p) /\ Inode[d] # Root
  /\ Called(p)
  /\ call' = [call EXCEPT ![p] = [Idle EXCEPT !.fd = d, !.left = n]]
  /\ UNCHANGED <<fs, off, lock, logged, data, sent, fits, panic>>

\* Variant of max: no slop for writes that are not aligned.
maxNoSlop == ((MAXOPBLOCKS - 1 - 1) \div 2) * BSIZE

max == ((MAXOPBLOCKS - 1 - 1 - 2) \div 2) * BSIZE

\* One turn of filewrite()'s loop starts: begin_op(), ilock() and writei()'s tests.
filewrite(p) ==
  LET c == call[p]
      i == Inode[c.fd]
      n1 == Min2(c.left, max)
  IN  /\ ~panic /\ c.left > 0 /\ c.n = 0 /\ lock[i] = None
      /\ \/ /\ off[c.fd] > fs.ino[i].size \/ off[c.fd] + n1 > MAXFILE * BSIZE
            /\ call' = [call EXCEPT ![p] = Idle]
            /\ UNCHANGED lock
         \/ /\ off[c.fd] <= fs.ino[i].size /\ off[c.fd] + n1 <= MAXFILE * BSIZE
            /\ call' = [call EXCEPT ![p].n = n1, ![p].m = n1, ![p].off = off[c.fd]]
            /\ lock' = [lock EXCEPT ![i] = p]
      /\ UNCHANGED <<fs, off, logged, calls, data, sent, fits, panic>>

\* data with n cells of byte b at offset o.
overlay(cs, o, n, b) ==
  [k \in 1..(IF o + n > Len(cs) THEN o + n ELSE Len(cs)) |->
     IF k \in (o + 1)..(o + n) THEN b ELSE cs[k]]

\* One turn of writei()'s loop.
writei(p) ==
  LET c == call[p]
      i == Inode[c.fd]
      bn == c.off \div BSIZE
      m == Min2(c.m, BSIZE - (c.off % BSIZE))
      s == bmap(With(logged[p]), i, bn)
      b == addr(s, i, bn)
      at == c.off % BSIZE
  IN  /\ ~panic /\ c.m > 0
      /\ \/ NoRoom(fs, i, bn) /\ Panic
         \/ /\ ~NoRoom(fs, i, bn)
            /\ fs' = Disk([s EXCEPT !.block[b] =
                             [k \in DOMAIN @ |-> IF k \in at..(at + m - 1) THEN Byte[p] ELSE @[k]]])
            /\ logged' = [logged EXCEPT ![p] = s.log \cup {<<"block", b>>}]
            /\ call' = [call EXCEPT ![p].m = @ - m, ![p].off = @ + m]
            /\ UNCHANGED <<off, lock, calls, data, sent, fits, panic>>

\* Variant of grow: no iupdate().
growInMemory(s, i, o) == IF o > s.ino[i].size THEN [s EXCEPT !.ino[i].size = o] ELSE s

\* The end of writei(): ip->size follows an offset past it.
grow(s, i, o) ==
  IF o > s.ino[i].size THEN iupdate([s EXCEPT !.ino[i].size = o], i) ELSE s

\* f->off += r
advance(c) == off[c.fd] + c.n

\* The rest of writei() and of the turn of filewrite()'s loop.
written(p) ==
  LET c == call[p]
      i == Inode[c.fd]
      s == grow(With(logged[p]), i, c.off)
  IN  /\ ~panic /\ c.n > 0 /\ c.m = 0
      /\ fs' = Disk(s)
      /\ fits' = (fits /\ Cardinality(s.log) <= MAXOPBLOCKS)
      /\ logged' = [logged EXCEPT ![p] = {}]
      /\ off' = [off EXCEPT ![c.fd] = advance(c)]
      /\ lock' = [lock EXCEPT ![i] = None]
      /\ call' = [call EXCEPT ![p] = IF c.left = c.n THEN Idle
                                     ELSE [Idle EXCEPT !.fd = c.fd, !.left = c.left - c.n]]
      /\ data' = [data EXCEPT ![i] = overlay(@, c.off - c.n, c.n, Byte[p])]
      /\ sent' = [sent EXCEPT ![p] = IF c.fd = Shared THEN @ + c.n ELSE @]
      /\ UNCHANGED <<calls, panic>>

\* readi() fails on a block that bmap() has to allocate when there is none left,
\* or outside of a transaction (op is FALSE), where log_write() panics.
readfails(i, o, n, op) ==
  LET bns == touched(o, clip(fs, i, o, n))
  IN  \E j \in DOMAIN bns : needs(fs, i, bns[j]) > 0 /\ (~op \/ NoRoom(fs, i, bns[j]))

readi(i, o, n) == fs' = Disk(mapall(With({}), i, o, clip(fs, i, o, n)))

fileread(p, d, n) ==
  LET i == Inode[d]
  IN  /\ CanCall(p) /\ lock[i] = None
      /\ \/ readfails(i, off[d], n, FALSE) /\ Panic
         \/ /\ ~readfails(i, off[d], n, FALSE)
            /\ readi(i, off[d], n)
            /\ off' = [off EXCEPT ![d] = @ + clip(fs, i, @, n)]
            /\ Called(p)
            /\ UNCHANGED <<lock, call, logged, data, sent, fits, panic>>

\* A path is looked up in the root directory and not found: dirlookup() reads
\* all of it, in the transaction of the system call.
dirlookup(p) ==
  /\ CanCall(p) /\ lock[Root] = None
  /\ \/ readfails(Root, 0, fs.ino[Root].size, TRUE) /\ Panic
     \/ /\ ~readfails(Root, 0, fs.ino[Root].size, TRUE)
        /\ readi(Root, 0, fs.ino[Root].size)
        /\ Called(p)
        /\ UNCHANGED <<off, lock, call, logged, data, sent, fits, panic>>

InUse(i) == \E p \in Proc : call[p] # Idle /\ Inode[call[p].fd] = i

\* The file is removed and its last reference put, then created again: iput()
\* truncates the inode and create() gives it to the new file.
iput(p, i) ==
  /\ CanCall(p) /\ i # Root /\ ~InUse(i) /\ lock[i] = None
  /\ fs' = Disk(itrunc(With({}), i))
  /\ off' = [d \in Fd |-> IF Inode[d] = i THEN 0 ELSE off[d]]
  /\ data' = [data EXCEPT ![i] = <<>>]
  /\ sent' = IF Inode[Shared] = i THEN [q \in Proc |-> 0] ELSE sent
  /\ Called(p)
  /\ UNCHANGED <<lock, call, logged, fits, panic>>

\* The cache entry of the inode is used for another one, or the machine is
\* started again; ilock() reads the inode from the disk.
ilock(i) ==
  /\ ~panic /\ lock[i] = None
  /\ fs' = [fs EXCEPT !.ino[i] = fs.dino[i]]
  /\ UNCHANGED <<off, lock, call, calls, logged, data, sent, fits, panic>>

Next ==
  \/ \E p \in Proc : filewrite(p) \/ writei(p) \/ written(p) \/ dirlookup(p)
  \/ \E p \in Proc, d \in Fd, n \in Sizes : sys_write(p, d, n) \/ fileread(p, d, n)
  \/ \E p \in Proc, d \in Fd : iput(p, Inode[d])
  \/ \E i \in Inum : ilock(i)

Spec == Init /\ [][Next]_vars

-----------------------------------------------------------------------------
(* Properties.                                                             *)

Unlocked(i) == lock[i] = None

\* mkfs rounds the size of the root directory up past its last block.
Hole == LET s == [fs EXCEPT !.ino = fs.dino]
        IN  needs(s, Root, s.ino[Root].size \div BSIZE - 1) > 0

\* No block belongs to two files, or to a file and the free map, whatever
\* balloc(), bmap() and itrunc() did; and no block is lost, but for one that
\* reading the hole in the root directory allocated.
BlocksCounted ==
  /\ \A i \in Inum : referenced(fs, i) \subseteq fs.used
  /\ \A i, j \in Inum : i # j => referenced(fs, i) \cap referenced(fs, j) = {}
  /\ Hole \/ fs.used = UNION {referenced(fs, i) : i \in Inum}

\* A file that nobody is writing holds what was last written at each offset,
\* across direct and indirect blocks, reuse of freed blocks and the image of
\* mkfs, and an inode read again from the disk loses none of it.
Content ==
  \A i \in Inum \ {Root} :
     Unlocked(i) => cells(fs, i, 0, fs.ino[i].size) = data[i]

\* Bytes that several processes write through one descriptor are all in the
\* file, each as often as it was written (usertests.c sharedfd()): f->off is
\* read and advanced under the inode's lock.
SharedOffset ==
  LET i == Inode[Shared]
  IN  Unlocked(i) =>
        \A p \in Proc :
          Cardinality({k \in 1..fs.ino[i].size : cells(fs, i, 0, fs.ino[i].size)[k] = Byte[p]})
            = sent[p]

\* filewrite() writes "a few blocks at a time to avoid exceeding the maximum log
\* transaction size": no turn of its loop logs more than MAXOPBLOCKS blocks.
FitsLog == fits

\* "Must be called after every change to an ip->xxx field that lives on disk,
\* since i-node cache is write-through" (iupdate(), fs.c): the disk has the
\* inode that an unlocked cache entry has.
WriteThrough == \A i \in Inum : Unlocked(i) => fs.ino[i] = fs.dino[i]
=============================================================================
