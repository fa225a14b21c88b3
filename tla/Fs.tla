--------------------------------- MODULE Fs ---------------------------------
(***************************************************************************)
(* Inodes, directories, path names (fs.c) and the system calls on them     *)
(* (sysfile.c), with the steps at which two processes in the file system   *)
(* can meet.  An inode is locked by its sleep-lock; its reference count is  *)
(* under icache.lock.  What a process does between two acquisitions of an   *)
(* inode's lock is one step, except in iput(), whose look at the count, whose *)
(* freeing of the inode and whose decrement are three: the count can       *)
(* change, and the disk be seen by ialloc(), in between.                   *)
(* The contents of a file are a sequence of strings, one per write();      *)
(* blocks are in FsBlocks.  begin_op() never has to wait here (see Log).   *)
(***************************************************************************)
EXTENDS Integers, Sequences, FiniteSets, FiniteSetsExt

CONSTANTS
  Proc, None,
  Name,      \* the names a path can hold, "." and ".." left out
  NINUM,     \* inodes on the disk
  NINODE,    \* entries of the inode cache
  NOFILE,    \* descriptors of a process
  Script,    \* the calls each process makes: what a behaviour can start with
  Parent     \* the process that runs first; the others wait to be forked

Inum == 1..NINUM
Root == 1
Dots == {".", ".."}
Names == Name \cup Dots
Types == {"none", "file", "dir", "dev"}

VARIABLES
  disk,     \* the inodes on the disk: type, nlink, directory entries, data
  icache,   \* the cache entry of each inode; it is free when ref = 0
  cwd,      \* of each process; 0 for a process that does not run
  ofile,    \* the open files of each process
  script,   \* the calls each process has still to make
  loc,      \* the call each process is in: its locals and what is left to do
  ret,      \* the last call of each process and its result
  lost,     \* entries of each inode that went with the directory they were in
  panic

vars == <<disk, icache, cwd, ofile, script, loc, ret, lost, panic>>

NoEntries == [n \in Names |-> 0]
Free == [type |-> "none", nlink |-> 0, ents |-> NoEntries, data |-> <<>>]
Empty == [ref |-> 0, valid |-> FALSE, type |-> "none", nlink |-> 0, lock |-> None]
Closed == [ip |-> 0, off |-> 0, readable |-> FALSE, writable |-> FALSE]

\* The locals of a call.  ip, dp and old are 0, or inodes whose reference
\* the call holds; todo is what it does next, <<step, inode>>.
Idle == [todo |-> <<>>, path |-> <<>>, parent |-> FALSE, name |-> ".",
         ip |-> 0, dp |-> 0, old |-> 0]

\* What a call returns: 0 or more, -1, or what it read; Whatever in a script.
Ok == {"ok"}
Fail == {"fail"}
Whatever == {"any"}

FdSet == 0..(NOFILE - 1)

\* The image that mkfs makes of a file f.
mkfs ==
  [i \in Inum |->
     CASE i = Root -> [Free EXCEPT !.type = "dir", !.nlink = 1,
                         !.ents = [NoEntries EXCEPT !["."] = Root, ![".."] = Root, !["f"] = 2]]
       [] i = 2 -> [Free EXCEPT !.type = "file", !.nlink = 1]
       [] OTHER -> Free]

\* The state of the first process, with the calls to be made.
Init ==
  /\ disk = mkfs /\ script \in Script
  /\ icache = [i \in Inum |-> IF i = Root THEN [Empty EXCEPT !.ref = 1] ELSE Empty]
  /\ cwd = [p \in Proc |-> IF p = Parent THEN Root ELSE 0]
  /\ ofile = [p \in Proc |-> [fd \in FdSet |-> Closed]]
  /\ loc = [p \in Proc |-> Idle]
  /\ ret = [p \in Proc |-> <<>>]
  /\ lost = [i \in Inum |-> 0]
  /\ panic = ""

-----------------------------------------------------------------------------
(* Inodes.  The operators take and give a file system <<disk, icache>>.    *)

Fs == [disk |-> disk, icache |-> icache]

\* iget() and idup().
iget(f, i) == [f EXCEPT !.icache[i].ref = @ + 1]

\* iget() finds the inode in the cache or an entry to put it in.
Cached(i) == icache[i].ref > 0 \/ Cardinality({j \in Inum : icache[j].ref > 0}) < NINODE

\* ilock(), once the lock is free: read the inode if the entry is not valid.
ilock(f, p, i) ==
  [f EXCEPT !.icache[i] =
     [ref |-> @.ref, valid |-> TRUE, lock |-> p,
      type |-> IF @.valid THEN @.type ELSE f.disk[i].type,
      nlink |-> IF @.valid THEN @.nlink ELSE f.disk[i].nlink]]

iunlock(f, i) == [f EXCEPT !.icache[i].lock = None]

Unlocked(i) == icache[i].lock = None

\* ilock() panics on an inode that is free on the disk.
NoType(i) == ~icache[i].valid /\ disk[i].type = "none"

\* Write-through of the cached fields.
iupdate(f, i) ==
  [f EXCEPT !.disk[i].type = f.icache[i].type, !.disk[i].nlink = f.icache[i].nlink]

\* Variant of addlink: iupdate() is not called.
addlinkCached(f, i, k) == [f EXCEPT !.icache[i].nlink = @ + k]

\* ip->nlink += k; iupdate(ip)
addlink(f, i, k) == iupdate([f EXCEPT !.icache[i].nlink = @ + k], i)

dirlookup(f, d, n) == f.disk[d].ents[n]

\* Write the entry (n, i) in directory d; i = 0 erases it.
dirent(f, d, n, i) == [f EXCEPT !.disk[d].ents[n] = i]

\* Variant of isdirempty: the loop starts at the first entry, not the third.
isdiremptyFromZero(f, d) == \A n \in Name \cup Dots : f.disk[d].ents[n] = 0

isdirempty(f, d) == \A n \in Name : f.disk[d].ents[n] = 0

-----------------------------------------------------------------------------
(* Steps.  A process carries on with the first element of its todo list.    *)

Running(p) == panic = "" /\ loc[p].todo # <<>>
At(p, step) == Running(p) /\ Head(loc[p].todo)[1] = step
Arg(p) == Head(loc[p].todo)[2]
Rest(p) == Tail(loc[p].todo)
Put(i) == <<"put", i>>

\* The file system becomes f and p carries on with the locals l.
Step(p, f, l) ==
  /\ disk' = f.disk /\ icache' = f.icache
  /\ loc' = [loc EXCEPT ![p] = l]
  /\ UNCHANGED <<cwd, ofile, script, ret, lost, panic>>

Panic(msg) == panic' = msg /\ UNCHANGED <<disk, icache, cwd, ofile, script, loc, ret, lost>>

\* What is left to do, with no inode held any more.
Only(todo) == [Idle EXCEPT !.todo = todo]

\* ilock(i): wait for the lock, then panic or go on as A says.
Locking(i, A) == Unlocked(i) /\ IF NoType(i) THEN Panic("ilock: no type") ELSE A

\* iget(i): panic if the cache is full, or go on as A says.
Getting(i, A) == IF Cached(i) THEN A ELSE Panic("iget: no inodes")

\* The call returns v.
Return(p) ==
  /\ At(p, "ret")
  /\ ret' = [ret EXCEPT ![p] = <<Head(script[p]).want, Arg(p)>>]
  /\ script' = [script EXCEPT ![p] = Tail(@)]
  /\ loc' = [loc EXCEPT ![p] = Idle]
  /\ UNCHANGED <<disk, icache, cwd, ofile, lost, panic>>

\* Variant of LastPut: the other references are not looked at.
LastPutAny(e) == e.valid /\ e.nlink = 0

\* iput(): is this the last reference to an inode that has no links?
LastPut(e) == e.valid /\ e.nlink = 0 /\ e.ref = 1

iput(p) ==
  LET i == Arg(p) IN
  /\ At(p, "put") /\ Unlocked(i)
  /\ IF LastPut(icache[i])
     THEN Step(p, [Fs EXCEPT !.icache[i].lock = p],
               [loc[p] EXCEPT !.todo = <<<<"free", i>>>> \o Rest(p)])
     ELSE Step(p, Fs, [loc[p] EXCEPT !.todo = <<<<"dec", i>>>> \o Rest(p)])

\* itrunc() and the end of the inode's life.
iputFree(p) ==
  LET i == Arg(p)
      f == [Fs EXCEPT !.icache[i].type = "none", !.icache[i].valid = FALSE,
                      !.disk[i] = [Free EXCEPT !.nlink = icache[i].nlink]]
  IN /\ At(p, "free")
     /\ disk' = f.disk /\ icache' = iunlock(f, i).icache
     /\ loc' = [loc EXCEPT ![p].todo = <<<<"dec", i>>>> \o Rest(p)]
     /\ lost' = [j \in Inum |-> lost[j] + Cardinality({n \in Name : disk[i].ents[n] = j})]
     /\ UNCHANGED <<cwd, ofile, script, ret, panic>>

\* ip->ref--; an entry without references will be read again.
iputDec(p) ==
  LET i == Arg(p)
      e == icache[i]
  IN /\ At(p, "dec")
     /\ Step(p, [Fs EXCEPT !.icache[i] = IF e.ref = 1 THEN [Empty EXCEPT !.lock = e.lock]
                                         ELSE [e EXCEPT !.ref = @ - 1]],
             [loc[p] EXCEPT !.todo = Rest(p)])

\* Variant of iunlockput: the inode is not unlocked.
iunlockputKeeps(p) ==
  /\ At(p, "unlockput")
  /\ Step(p, Fs, [loc[p] EXCEPT !.todo = <<Put(Arg(p))>> \o Rest(p)])

iunlockput(p) ==
  /\ At(p, "unlockput")
  /\ Step(p, iunlock(Fs, Arg(p)), [loc[p] EXCEPT !.todo = <<Put(Arg(p))>> \o Rest(p)])

-----------------------------------------------------------------------------
(* Path names *)

\* The inode namex() starts from.
From(p, path) == IF path # <<>> /\ Head(path) = "/" THEN Root ELSE cwd[p]
Elements(path) == IF path # <<>> /\ Head(path) = "/" THEN Tail(path) ELSE path

\* l with namex(path) put before the rest of the call.
Walk(p, l, path, parent, todo) ==
  [l EXCEPT !.ip = From(p, path), !.path = Elements(path), !.parent = parent,
            !.todo = <<<<"namex", 0>>>> \o todo]

\* One turn of the loop of namex(), or its end.
namex(p) ==
  LET l == loc[p]
      i == l.ip
      g == ilock(Fs, p, i)
      fail == [l EXCEPT !.ip = 0, !.todo = <<Put(i)>> \o Rest(p)]
      next == dirlookup(Fs, i, Head(l.path))
  IN /\ At(p, "namex")
     /\ IF l.path = <<>>
        THEN Step(p, Fs, IF l.parent THEN fail ELSE [l EXCEPT !.todo = Rest(p)])
        ELSE Locking(i,
          IF g.icache[i].type # "dir" THEN Step(p, iunlock(g, i), fail)
          ELSE IF l.parent /\ Len(l.path) = 1
          THEN Step(p, iunlock(g, i), [l EXCEPT !.name = Head(l.path), !.todo = Rest(p)])
          ELSE IF next = 0 THEN Step(p, iunlock(g, i), fail)
          ELSE Getting(next,
            Step(p, iunlock(iget(g, next), i),
                 [l EXCEPT !.ip = next, !.path = Tail(@), !.todo = <<Put(i)>> \o @])))

-----------------------------------------------------------------------------
(* sys_link() *)

\* The inode is counted in the link before the entry is there.
link1(p) ==
  LET l == loc[p]
      g == ilock(Fs, p, l.ip)
      new == Head(script[p]).new
  IN /\ At(p, "link1")
     /\ IF l.ip = 0 THEN Step(p, Fs, Only(<<<<"ret", Fail>>>>))
        ELSE Locking(l.ip,
          IF g.icache[l.ip].type = "dir"
          THEN Step(p, iunlock(g, l.ip), Only(<<Put(l.ip), <<"ret", Fail>>>>))
          ELSE Getting(From(p, new),
            Step(p, iget(iunlock(addlink(g, l.ip, 1), l.ip), From(p, new)),
                 Walk(p, [Idle EXCEPT !.old = l.ip], new, TRUE, <<<<"link2", 0>>>>))))

link2(p) ==
  LET l == loc[p]
      d == l.ip
      g == ilock(Fs, p, d)
      x == dirlookup(g, d, l.name)
      bad == [Idle EXCEPT !.old = l.old]
  IN /\ At(p, "link2")
     /\ IF d = 0 THEN Step(p, Fs, [bad EXCEPT !.todo = <<<<"linkbad", 0>>>>])
        ELSE Locking(d,
          IF x # 0
          THEN Getting(x, Step(p, iget(g, x),
                 [bad EXCEPT !.todo = <<Put(x), <<"unlockput", d>>, <<"linkbad", 0>>>>]))
          ELSE Step(p, iunlock(dirent(g, d, l.name, l.old), d),
                    Only(<<Put(d), Put(l.old), <<"ret", Ok>>>>)))

\* Variant of linkbad: the reference to the old inode is kept.
linkbadKeeps(p) ==
  LET i == loc[p].old IN
  /\ At(p, "linkbad")
  /\ Locking(i, Step(p, iunlock(addlink(ilock(Fs, p, i), i, -1), i), Only(<<<<"ret", Fail>>>>)))

linkbad(p) ==
  LET i == loc[p].old IN
  /\ At(p, "linkbad")
  /\ Locking(i, Step(p, iunlock(addlink(ilock(Fs, p, i), i, -1), i),
                     Only(<<Put(i), <<"ret", Fail>>>>)))

-----------------------------------------------------------------------------
(* sys_unlink() *)

unlink1(p) ==
  LET l == loc[p]
      d == l.ip
      g == ilock(Fs, p, d)
      x == dirlookup(g, d, l.name)
  IN /\ At(p, "unlink1")
     /\ IF d = 0 THEN Step(p, Fs, Only(<<<<"ret", Fail>>>>))
        ELSE Locking(d,
          IF l.name \in Dots \/ x = 0
          THEN Step(p, iunlock(g, d), Only(<<Put(d), <<"ret", Fail>>>>))
          ELSE Getting(x, Step(p, iget(g, x),
                 [l EXCEPT !.dp = d, !.ip = x, !.todo = <<<<"unlink2", 0>>>>])))

\* The entry goes while both inodes are locked.
unlink2(p) ==
  LET l == loc[p]
      d == l.dp
      x == l.ip
      g == ilock(Fs, p, x)
      isdir == g.icache[x].type = "dir"
      f == dirent(g, d, l.name, 0)
  IN /\ At(p, "unlink2")
     /\ Locking(x,
          IF g.icache[x].nlink < 1 THEN Panic("unlink: nlink < 1")
          ELSE IF isdir /\ ~isdirempty(g, x)
          THEN Step(p, iunlock(g, x),
                    Only(<<Put(x), <<"unlockput", d>>, <<"ret", Fail>>>>))
          ELSE Step(p, iunlock(IF isdir THEN addlink(f, d, -1) ELSE f, d),
                    [Idle EXCEPT !.ip = x, !.todo = <<Put(d), <<"unlink3", 0>>>>]))

unlink3(p) ==
  LET x == loc[p].ip IN
  /\ At(p, "unlink3")
  /\ Step(p, iunlock(addlink(Fs, x, -1), x), Only(<<Put(x), <<"ret", Ok>>>>))

-----------------------------------------------------------------------------
(* create(), for sys_open(), sys_mkdir() and sys_mknod().  It ends with     *)
(* ip = 0, or with ip locked.                                              *)

Wanted(p) == Head(script[p]).type

create1(p) ==
  LET l == loc[p]
      d == l.ip
      g == ilock(Fs, p, d)
      x == dirlookup(g, d, l.name)
  IN /\ At(p, "create1")
     /\ IF d = 0 THEN Step(p, Fs, [l EXCEPT !.todo = Rest(p)])
        ELSE Locking(d,
          IF x # 0
          THEN Getting(x, Step(p, iunlock(iget(g, x), d),
                 [l EXCEPT !.ip = x, !.todo = <<Put(d), <<"create2", 0>>>> \o Rest(p)]))
          ELSE Step(p, g, [l EXCEPT !.ip = 0, !.dp = d, !.todo = <<<<"ialloc", 0>>>> \o Rest(p)]))

\* The name is there already.
create2(p) ==
  LET l == loc[p]
      g == ilock(Fs, p, l.ip)
  IN /\ At(p, "create2")
     /\ Locking(l.ip,
          IF Wanted(p) = "file" /\ g.icache[l.ip].type = "file"
          THEN Step(p, g, [l EXCEPT !.todo = Rest(p)])
          ELSE Step(p, iunlock(g, l.ip), [l EXCEPT !.ip = 0, !.todo = <<Put(l.ip)>> \o Rest(p)]))

\* The first free inode of the disk, and a reference to it.
ialloc(p) ==
  LET free == {i \in Inum : disk[i].type = "none"}
      x == CHOOSE i \in free : \A j \in free : i <= j
  IN /\ At(p, "ialloc")
     /\ IF free = {} THEN Panic("ialloc: no inodes")
        ELSE Getting(x,
          Step(p, iget([Fs EXCEPT !.disk[x] = [Free EXCEPT !.type = Wanted(p)]], x),
               [loc[p] EXCEPT !.ip = x, !.todo = <<<<"create3", 0>>>> \o Rest(p)]))

\* Link the new inode in dp.
create3(p) ==
  LET l == loc[p]
      x == l.ip
      d == l.dp
      g == addlink(ilock(Fs, p, x), x, 1)
      f == IF Wanted(p) = "dir" THEN dirent(dirent(addlink(g, d, 1), x, ".", x), x, "..", d) ELSE g
  IN /\ At(p, "create3")
     /\ Locking(x, Step(p, iunlock(dirent(f, d, l.name, x), d),
                        [l EXCEPT !.dp = 0, !.todo = <<Put(d)>> \o Rest(p)]))

\* sys_mkdir() and sys_mknod()
mkdone(p) ==
  LET x == loc[p].ip IN
  /\ At(p, "mkdone")
  /\ IF x = 0 THEN Step(p, Fs, Only(<<<<"ret", Fail>>>>))
     ELSE Step(p, iunlock(Fs, x), Only(<<Put(x), <<"ret", Ok>>>>))

-----------------------------------------------------------------------------
(* sys_open() *)

\* Without O_CREATE.
open1(p) ==
  LET l == loc[p]
      g == ilock(Fs, p, l.ip)
  IN /\ At(p, "open1")
     /\ IF l.ip = 0 THEN Step(p, Fs, [l EXCEPT !.todo = Rest(p)])
        ELSE Locking(l.ip,
          IF g.icache[l.ip].type = "dir" /\ Head(script[p]).mode # "r"
          THEN Step(p, iunlock(g, l.ip), Only(<<Put(l.ip), <<"ret", Fail>>>>))
          ELSE Step(p, g, [l EXCEPT !.todo = Rest(p)]))

\* fdalloc() and the file, with the inode locked.
open2(p) ==
  LET x == loc[p].ip
      mode == Head(script[p]).mode
      free == {fd \in FdSet : ofile[p][fd] = Closed}
      fd == CHOOSE a \in free : \A b \in free : a <= b
  IN /\ At(p, "open2")
     /\ IF x = 0 THEN Step(p, Fs, Only(<<<<"ret", Fail>>>>))
        ELSE IF free = {} THEN Step(p, iunlock(Fs, x), Only(<<Put(x), <<"ret", Fail>>>>))
        ELSE /\ icache' = iunlock(Fs, x).icache
             /\ ofile' = [ofile EXCEPT ![p][fd] =
                  [ip |-> x, off |-> 0, readable |-> mode # "w", writable |-> mode # "r"]]
             /\ loc' = [loc EXCEPT ![p] = Only(<<<<"ret", Ok>>>>)]
             /\ UNCHANGED <<disk, cwd, script, ret, lost, panic>>

-----------------------------------------------------------------------------
(* sys_chdir(), sys_close(), sys_read(), sys_write(), fork() and exit() *)

chdir1(p) ==
  LET x == loc[p].ip
      g == ilock(Fs, p, x)
  IN /\ At(p, "chdir1")
     /\ IF x = 0 THEN Step(p, Fs, Only(<<<<"ret", Fail>>>>))
        ELSE Locking(x,
          IF g.icache[x].type # "dir"
          THEN Step(p, iunlock(g, x), Only(<<Put(x), <<"ret", Fail>>>>))
          ELSE /\ icache' = iunlock(g, x).icache
               /\ cwd' = [cwd EXCEPT ![p] = x]
               /\ loc' = [loc EXCEPT ![p] = Only(<<Put(cwd[p]), <<"ret", Ok>>>>)]
               /\ UNCHANGED <<disk, ofile, script, ret, lost, panic>>)

\* fileread(); a directory is read as the set of the names in it.
fileread(p) ==
  LET fd == Head(script[p]).fd
      f == ofile[p][fd]
      d == disk[f.ip]
      listing == {n \in Name : d.ents[n] # 0}
  IN /\ At(p, "read") /\ Unlocked(f.ip)
     /\ loc' = [loc EXCEPT ![p] = Only(<<<<"ret",
          IF icache[f.ip].type = "dir" THEN listing
          ELSE {d.data[k] : k \in (f.off + 1)..Len(d.data)}>>>>)]
     /\ ofile' = [ofile EXCEPT ![p][fd].off = Len(d.data)]
     /\ UNCHANGED <<disk, icache, cwd, script, ret, lost, panic>>

\* filewrite() of one string, in one transaction.
filewrite(p) ==
  LET fd == Head(script[p]).fd
      f == ofile[p][fd]
      before == disk[f.ip].data
      after == SubSeq(before, 1, f.off) \o <<Head(script[p]).data>>
                 \o SubSeq(before, f.off + 2, Len(before))
  IN /\ At(p, "write") /\ Unlocked(f.ip)
     /\ disk' = [disk EXCEPT ![f.ip].data = after]
     /\ ofile' = [ofile EXCEPT ![p][fd].off = @ + 1]
     /\ loc' = [loc EXCEPT ![p] = Only(<<<<"ret", Ok>>>>)]
     /\ UNCHANGED <<icache, cwd, script, ret, lost, panic>>

\* The steps of a call whose path is to be looked up first.
After(c) ==
  CASE c.op = "link" -> <<<<"link1", 0>>>>
    [] c.op = "unlink" -> <<<<"unlink1", 0>>>>
    [] c.op = "open" -> IF c.create THEN <<<<"create1", 0>>, <<"open2", 0>>>>
                        ELSE <<<<"open1", 0>>, <<"open2", 0>>>>
    [] c.op \in {"mkdir", "mknod"} -> <<<<"create1", 0>>, <<"mkdone", 0>>>>
    [] c.op = "chdir" -> <<<<"chdir1", 0>>>>

ByParent(c) == c.op \in {"unlink", "mkdir", "mknod"} \/ (c.op = "open" /\ c.create)

\* A call that names a file starts at the root or at the current directory.
callPath(p) ==
  LET c == Head(script[p])
      i == From(p, c.path)
  IN /\ c.op \in {"link", "unlink", "open", "mkdir", "mknod", "chdir"}
     /\ Getting(i, Step(p, iget(Fs, i), Walk(p, Idle, c.path, ByParent(c), After(c))))

\* argfd(): close, read and write of a descriptor that is not open, or not
\* open for this, fail.
callFd(p) ==
  LET c == Head(script[p])
      f == ofile[p][c.fd]
      bad == f = Closed \/ (c.op = "read" /\ ~f.readable) \/ (c.op = "write" /\ ~f.writable)
  IN /\ c.op \in {"close", "read", "write"}
     /\ loc' = [loc EXCEPT ![p] = Only(
          IF bad THEN <<<<"ret", Fail>>>>
          ELSE IF c.op = "close" THEN <<Put(f.ip), <<"ret", Ok>>>> ELSE <<<<c.op, 0>>>>)]
     /\ ofile' = IF c.op = "close" THEN [ofile EXCEPT ![p][c.fd] = Closed] ELSE ofile
     /\ UNCHANGED <<disk, icache, cwd, script, ret, lost, panic>>

\* fork() of a process with no open files: the child shares its directory.
callFork(p) ==
  LET c == Head(script[p]) IN
  /\ c.op = "fork" /\ cwd[c.child] = 0
  /\ icache' = iget(Fs, cwd[p]).icache
  /\ cwd' = [cwd EXCEPT ![c.child] = cwd[p]]
  /\ script' = [script EXCEPT ![p] = Tail(@)]
  /\ UNCHANGED <<disk, ofile, loc, ret, lost, panic>>

\* exit(): close every file, then give the current directory back.
callExit(p) ==
  LET open == SelectSeq([n \in 1..NOFILE |-> ofile[p][n - 1].ip], LAMBDA i : i # 0) IN
  /\ Head(script[p]).op = "exit"
  /\ cwd' = [cwd EXCEPT ![p] = 0]
  /\ ofile' = [ofile EXCEPT ![p] = [fd \in FdSet |-> Closed]]
  /\ loc' = [loc EXCEPT ![p] = Only(
       [n \in 1..Len(open) |-> Put(open[n])] \o <<Put(cwd[p]), <<"ret", Ok>>>>)]
  /\ UNCHANGED <<disk, icache, script, ret, lost, panic>>

\* wait(): for every child that was forked to have exited.
callWait(p) ==
  /\ Head(script[p]).op = "wait"
  /\ \A q \in Proc \ {p} : script[q] = <<>>
  /\ script' = [script EXCEPT ![p] = Tail(@)]
  /\ UNCHANGED <<disk, icache, cwd, ofile, loc, ret, lost, panic>>

Call(p) ==
  /\ panic = "" /\ loc[p].todo = <<>> /\ script[p] # <<>> /\ cwd[p] # 0
  /\ callPath(p) \/ callFd(p) \/ callFork(p) \/ callExit(p) \/ callWait(p)

Next ==
  \E p \in Proc :
    \/ Call(p) \/ Return(p)
    \/ iput(p) \/ iputFree(p) \/ iputDec(p) \/ iunlockput(p)
    \/ namex(p)
    \/ link1(p) \/ link2(p) \/ linkbad(p)
    \/ unlink1(p) \/ unlink2(p) \/ unlink3(p)
    \/ create1(p) \/ create2(p) \/ ialloc(p) \/ create3(p) \/ mkdone(p)
    \/ open1(p) \/ open2(p) \/ chdir1(p) \/ fileread(p) \/ filewrite(p)

Spec == Init /\ [][Next]_vars

-----------------------------------------------------------------------------
(* Properties *)

\* Every call of usertests.c returns what the test insists on, however the
\* steps of the test's processes interleave.
TestsPass == \A p \in Proc : ret[p] # <<>> => ret[p][1] \in {Whatever, ret[p][2]}

\* p is in iput() of an inode that another process has locked.
PutsLocked(p) == At(p, "put") /\ icache[Arg(p)].lock \notin {p, None}

\* Processes only come to wait for each other in one way: one of them gives
\* back, in create() or sys_unlink(), a directory that another one has locked,
\* while it has an inode locked itself.
PutDeadlocks ==
  panic = "" /\ (\E p \in Proc : script[p] # <<>>) /\ (\A p \in Proc : ~PutsLocked(p))
    => ENABLED Next

Count(S) == Cardinality(S)

\* The references to inode i that process p holds.
Held(p, i) ==
  (IF cwd[p] = i THEN 1 ELSE 0)
  + Count({fd \in FdSet : ofile[p][fd].ip = i})
  + Count({v \in {"ip", "dp", "old"} : loc[p][v] = i})
  + Count({k \in DOMAIN loc[p].todo :
             loc[p].todo[k] \in {<<s, i>> : s \in {"put", "free", "dec", "unlockput"}}})

\* ip->ref counts the current directories, the open files and the calls in
\* progress that use the inode, no more and no less: iget(), idup() and
\* iput() balance on every path through sysfile.c, the error paths included.
RefsCounted == panic = "" => \A i \in Inum : icache[i].ref = MapThenSumSet(LAMBDA p : Held(p, i), Proc)

\* The inode that sys_unlink() has taken the name of and still counts.
Removing(p) == IF \E k \in DOMAIN loc[p].todo : loc[p].todo[k][1] = "unlink3" THEN loc[p].ip ELSE 0

Directories == {d \in Inum : disk[d].type = "dir"}

\* Names of inode i: its entries, and the ".." of its subdirectories.
Named(i) ==
  Count({e \in Directories \X Name : disk[e[1]].ents[e[2]] = i})
  + Count({d \in Directories \ {Root} : /\ disk[d].nlink > 0 /\ disk[d].ents[".."] = i
                                        /\ \A p \in Proc : Removing(p) # d})

\* Links that sys_link() has counted and not entered yet, and those that
\* sys_unlink() has removed and still counts.
Pending(i) == Count({p \in Proc : loc[p].old = i}) + Count({p \in Proc : Removing(p) = i})

\* nlink is the number of names, whatever calls are in progress; a name is
\* forgotten only with a directory that was removed while someone used it.
LinksCounted ==
  panic = "" => \A i \in Inum \ {Root} : disk[i].nlink = Named(i) + Pending(i) + lost[i]

\* No panic, with one exception: the ".." of a directory that was removed
\* while it was in use does not keep its parent alive, and ilock() finds the
\* parent free when the name is looked up.
NoPanic ==
  panic # "" =>
    /\ panic = "ilock: no type"
    /\ \E d \in Inum : /\ disk[d].type = "dir" /\ disk[d].nlink = 0
                       /\ disk[disk[d].ents[".."]].type = "none"
=============================================================================
