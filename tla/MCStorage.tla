----------------------------- MODULE MCStorage ------------------------------
(* The layers of the file system, each explored on its own: on says which    *)
(* machine moves.  Inodes, directories and path names under the tests of     *)
(* usertests.c and under races that they do not reach (Fs, as T), the        *)
(* blocks of files (FsBlocks, as B), and the buffer cache with the disk      *)
(* driver (Disk).                                                      *)
EXTENDS Disk, FsTests, TLC

CONSTANTS
  Machine,                                             \* the machines explored
  Name, NINUM, NINODE, NOFILE, Script, Parent,         \* Fs
  Byte, Fd, d1, d2, d3, Inode, Shared, Files, NINO,    \* FsBlocks: NINO is NINUM
  NBLOCK, BSIZE, NDIRECT, MAXOPBLOCKS, BPB, NCALL, Sizes

VARIABLES
  on,
  image, icache, cwd, ofile, script, loc, ret, lost, fpanic,
  fs, off, lock, call, calls, logged, data, sent, fits, bpanic

T == INSTANCE Fs WITH disk <- image, panic <- fpanic
B == INSTANCE FsBlocks WITH NINUM <- NINO, panic <- bpanic

ASSUME DiskAssumption

Tests ==
  {iputtest, exitiputtest, openiputtest, opentest, createdelete, unlinkread, linktest,
   subdir, rmdot, dirfile, iref(NINODE + 1)} \cup concreate \cup linkunlink(2)

\* Any two calls of a parent and one of a child on one directory a.
Anything ==
  {<<creat(<<"a", "b">>, "rw", Whatever), close(0)>>, <<mkdir(<<"a", "b">>, Whatever)>>,
   <<unlink(<<"a">>, Whatever)>>, <<chdir(<<"a">>, Whatever)>>,
   <<unlink(<<"a", "b">>, Whatever)>>}

Races ==
  {Both(<<mkdir(<<"a">>, Ok), fork>> \o s \o <<wait>>, t \o <<exit>>) :
     s \in AnyOf(2, Anything), t \in AnyOf(1, Anything)}

\* A removed parent seen from a removed directory; too many open files; a
\* device.
Limits ==
  {Alone(<<mkdir(<<"a">>, Ok), mkdir(<<"a", "b">>, Ok), chdir(<<"a", "b">>, Ok),
           unlink(<<"/", "a", "b">>, Ok), unlink(<<"/", "a">>, Ok), chdir(<<"..">>, Whatever)>>),
   Alone([n \in 1..NOFILE |-> open(<<"f">>, "r", Ok)] \o <<open(<<"f">>, "r", Fail), exit>>),
   Alone(<<mknod(<<"a">>, Ok), mknod(<<"a">>, Fail), open(<<"a">>, "rw", Ok), exit>>)}

Scripts == Tests \cup Races \cup Limits

\* Two processes, a file of mkfs, a new file, and the root directory: it has
\* three entries; or two, so that its size is a multiple of the block size
\* before mkfs rounds it up, as on the image that Makefile builds (32 entries
\* of 16 bytes, blocks of 512).
Bytes == (p1 :> 1) @@ (p2 :> 2)
Inodes == (d1 :> 2) @@ (d2 :> 3) @@ (d3 :> 1)
FullBlock == {<<>>}
Images == {<< <<7, 7, 7>> >>} \cup FullBlock

tVars == <<image, icache, cwd, ofile, script, loc, ret, lost, fpanic>>
bVars == <<fs, off, lock, call, calls, logged, data, sent, fits, bpanic>>
allvars == <<on, vars, tVars, bVars>>

\* The variables of a machine that does not move.
tIdle ==
  /\ image = 0 /\ icache = 0 /\ cwd = 0 /\ ofile = 0 /\ script = 0 /\ loc = 0
  /\ ret = 0 /\ lost = 0 /\ fpanic = 0
bIdle ==
  /\ fs = 0 /\ off = 0 /\ lock = 0 /\ call = 0 /\ calls = 0 /\ logged = 0
  /\ data = 0 /\ sent = 0 /\ fits = 0 /\ bpanic = 0
dIdle == disk = [k \in Blockno |-> CHOOSE v \in Value : TRUE]

MCInit ==
  /\ on \in Machine
  /\ IF on = "fs" THEN T!Init ELSE tIdle
  /\ IF on = "blocks" THEN B!Init ELSE bIdle
  /\ Init /\ (on # "disk" => dIdle)

MCNext ==
  \/ on = "fs" /\ T!Next /\ UNCHANGED <<on, vars, bVars>>
  \/ on = "blocks" /\ B!Next /\ UNCHANGED <<on, vars, tVars>>
  \/ on = "disk" /\ Next /\ UNCHANGED <<on, tVars, bVars>>

MCSpec == MCInit /\ [][MCNext]_allvars

-----------------------------------------------------------------------------
(* The properties of Disk, and those of the other machines. *)

\* The calls of the tests return what usertests.c asks for.
TestsPass == on = "fs" => T!TestsPass

\* ip->ref counts the pointers to a cached inode (iget(), idup(), iput()).
RefsCounted == on = "fs" => T!RefsCounted

\* nlink on the disk counts the directory entries of an inode (sys_link(),
\* sys_unlink(), create()).
LinksCounted == on = "fs" => T!LinksCounted

\* The only panic of fs.c and sysfile.c that is reached is ilock()'s, at the ".."
\* of a removed directory.
NoPanic == on = "fs" => T!NoPanic

\* Processes only come to wait for each other for ever in iput() of a directory,
\* with an inode locked (create(), sys_unlink()).
PutDeadlocks == on = "fs" => T!PutDeadlocks

\* Files hold what was written to them, at an offset that processes share as
\* well (writei(), readi(), bmap(), filewrite()).
Content == on = "blocks" => B!Content /\ B!SharedOffset

\* A block in use is marked in the bitmap and used once (balloc(), bfree(), itrunc()).
BlocksCounted == on = "blocks" => B!BlocksCounted

\* A transaction of filewrite() fits in the log.
FitsLog == on = "blocks" => B!FitsLog

\* An inode that is not locked is the same in memory and on the disk (iupdate()).
WriteThrough == on = "blocks" => B!WriteThrough
=============================================================================
