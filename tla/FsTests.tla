------------------------------- MODULE FsTests -------------------------------
(***************************************************************************)
(* The file-system tests of user/usertests.c as scripts for Fs: the calls  *)
(* each test makes, in its order, with the results it insists on ("any"    *)
(* where it does not look).  fork() starts the child's script.  Loops run   *)
(* a named number of times; the names a loop builds are a, b, ...          *)
(***************************************************************************)
EXTENDS Naturals, SequencesExt

CONSTANTS p1, p2  \* the process that runs the tests, and its child

\* The results, as in Fs.
Ok == {"ok"}
Fail == {"fail"}
Whatever == {"any"}

open(path, mode, want) == [op |-> "open", path |-> path, create |-> FALSE, mode |-> mode, want |-> want]
creat(path, mode, want) ==
  [op |-> "open", path |-> path, create |-> TRUE, mode |-> mode, type |-> "file", want |-> want]
close(fd) == [op |-> "close", fd |-> fd, want |-> Whatever]
read(fd, want) == [op |-> "read", fd |-> fd, want |-> want]
write(fd, data, want) == [op |-> "write", fd |-> fd, data |-> data, want |-> want]
link(path, new, want) == [op |-> "link", path |-> path, new |-> new, want |-> want]
unlink(path, want) == [op |-> "unlink", path |-> path, want |-> want]
mkdir(path, want) == [op |-> "mkdir", path |-> path, type |-> "dir", want |-> want]
mknod(path, want) == [op |-> "mknod", path |-> path, type |-> "dev", want |-> want]
chdir(path, want) == [op |-> "chdir", path |-> path, want |-> want]
fork == [op |-> "fork", child |-> p2]
wait == [op |-> "wait"]
exit == [op |-> "exit", want |-> Whatever]

\* A test without and with a child process.
Alone(s) == [p \in {p1, p2} |-> IF p = p1 THEN s ELSE <<>>]
Both(s, t) == [p \in {p1, p2} |-> IF p = p1 THEN s ELSE t]

Times(n, s) == FlattenSeq([k \in 1..n |-> s])

iputtest == Alone(
  <<mkdir(<<"a">>, Ok), chdir(<<"a">>, Ok), unlink(<<"..", "a">>, Ok), chdir(<<"/">>, Ok)>>)

exitiputtest == Both(<<fork, wait>>,
  <<mkdir(<<"a">>, Ok), chdir(<<"a">>, Ok), unlink(<<"..", "a">>, Ok), exit>>)

\* The parent's sleep(1) orders nothing.
openiputtest == Both(
  <<mkdir(<<"a">>, Ok), fork, unlink(<<"a">>, Ok), wait>>,
  <<open(<<"a">>, "rw", Fail), exit>>)

opentest == Alone(<<open(<<"f">>, "r", Ok), close(0), open(<<"a">>, "r", Fail)>>)

\* One child for the four; N = 4 names, a to d.
createdelete == Both(
  <<fork, wait, open(<<"a">>, "r", Ok), close(0), open(<<"b">>, "r", Fail),
    open(<<"c">>, "r", Ok), close(0), unlink(<<"a">>, Whatever), unlink(<<"c">>, Whatever)>>,
  <<creat(<<"a">>, "rw", Ok), close(0), creat(<<"b">>, "rw", Ok), close(0),
    creat(<<"c">>, "rw", Ok), close(0), unlink(<<"b">>, Ok), exit>>)

unlinkread == Alone(
  <<creat(<<"a">>, "rw", Ok), write(0, "hello", Whatever), close(0),
    open(<<"a">>, "rw", Ok), unlink(<<"a">>, Ok),
    creat(<<"a">>, "rw", Whatever), write(1, "yyy", Whatever), close(1),
    read(0, {"hello"}), write(0, "buf", Ok), close(0), unlink(<<"a">>, Whatever)>>)

linktest == Alone(
  <<unlink(<<"a">>, Whatever), unlink(<<"b">>, Whatever),
    creat(<<"a">>, "rw", Ok), write(0, "hello", Ok), close(0),
    link(<<"a">>, <<"b">>, Ok), unlink(<<"a">>, Whatever), open(<<"a">>, "r", Fail),
    open(<<"b">>, "r", Ok), read(0, {"hello"}), close(0),
    link(<<"b">>, <<"b">>, Fail), unlink(<<"b">>, Whatever),
    link(<<"b">>, <<"a">>, Fail), link(<<".">>, <<"a">>, Fail)>>)

\* One turn of each loop of concreate() on file a, where C0 is f: the parent
\* and the child each link or create, then open four times or unlink four times.
concreate ==
  {Both(<<unlink(<<"a">>, Whatever), fork>> \o s \o <<wait, open(<<".">>, "r", Whatever),
          read(0, {"a", "f"}), close(0)>>, t \o <<exit>>) :
     s, t \in {<<link(<<"f">>, <<"a">>, Whatever)>>, <<creat(<<"a">>, "rw", Whatever), close(0)>>}}
  \cup
  {Both(<<fork>> \o s \o <<wait>>, t \o <<exit>>) :
     s, t \in {Times(4, <<open(<<"f">>, "r", Whatever), close(0)>>), Times(4, <<unlink(<<"f">>, Whatever)>>)}}

\* The loop of linkunlink(): its pseudo-random choices are any choices, n
\* in the parent and n in the child; cat is f and x is a.
linkunlinkCalls ==
  {<<creat(<<"a">>, "rw", Whatever), close(0)>>, <<link(<<"f">>, <<"a">>, Whatever)>>, <<unlink(<<"a">>, Whatever)>>}

AnyOf(n, S) == {FlattenSeq(s) : s \in [1..n -> S]}

linkunlink(n) ==
  {Both(<<unlink(<<"a">>, Whatever), fork>> \o s \o <<wait>>, t \o <<exit>>) :
     s, t \in AnyOf(n, linkunlinkCalls)}

\* dd is a, ff is b, ffff is c, xx is d.
subdir == Alone(
  <<unlink(<<"b">>, Whatever), mkdir(<<"a">>, Ok),
    creat(<<"a", "b">>, "rw", Ok), write(0, "ff", Whatever), close(0),
    unlink(<<"a">>, Fail), mkdir(<<"/", "a", "a">>, Ok),
    creat(<<"a", "a", "b">>, "rw", Ok), write(0, "FF", Whatever), close(0),
    open(<<"a", "a", "..", "b">>, "r", Ok), read(0, {"ff"}), close(0),
    link(<<"a", "a", "b">>, <<"a", "a", "c">>, Ok), unlink(<<"a", "a", "b">>, Ok),
    open(<<"a", "a", "b">>, "r", Fail),
    chdir(<<"a">>, Ok), chdir(<<"a", "..", "..", "a">>, Ok),
    chdir(<<"a", "..", "..", "..", "a">>, Ok), chdir(<<".", "..">>, Ok),
    open(<<"a", "a", "c">>, "r", Ok), read(0, {"FF"}), close(0),
    open(<<"a", "a", "b">>, "r", Fail),
    creat(<<"a", "b", "b">>, "rw", Fail), creat(<<"a", "d", "b">>, "rw", Fail),
    creat(<<"a">>, "r", Fail), open(<<"a">>, "rw", Fail), open(<<"a">>, "w", Fail),
    link(<<"a", "b", "b">>, <<"a", "a", "d">>, Fail),
    link(<<"a", "d", "b">>, <<"a", "a", "d">>, Fail),
    link(<<"a", "b">>, <<"a", "a", "c">>, Fail),
    mkdir(<<"a", "b", "b">>, Fail), mkdir(<<"a", "d", "b">>, Fail),
    mkdir(<<"a", "a", "c">>, Fail),
    unlink(<<"a", "d", "b">>, Fail), unlink(<<"a", "b", "b">>, Fail),
    chdir(<<"a", "b">>, Fail), chdir(<<"a", "d">>, Fail),
    unlink(<<"a", "a", "c">>, Ok), unlink(<<"a", "b">>, Ok), unlink(<<"a">>, Fail),
    unlink(<<"a", "a">>, Ok), unlink(<<"a">>, Ok)>>)

rmdot == Alone(
  <<mkdir(<<"a">>, Ok), chdir(<<"a">>, Ok), unlink(<<".">>, Fail), unlink(<<"..">>, Fail),
    chdir(<<"/">>, Ok), unlink(<<"a", ".">>, Fail), unlink(<<"a", "..">>, Fail),
    unlink(<<"a">>, Ok)>>)

dirfile == Alone(
  <<creat(<<"a">>, "r", Ok), close(0), chdir(<<"a">>, Fail), open(<<"a", "b">>, "r", Fail),
    creat(<<"a", "b">>, "r", Fail), mkdir(<<"a", "b">>, Fail), unlink(<<"a", "b">>, Fail),
    link(<<"f">>, <<"a", "b">>, Fail), unlink(<<"a">>, Ok), open(<<".">>, "rw", Fail),
    open(<<".">>, "r", Whatever), write(0, "x", Fail), close(0)>>)

\* n turns for the 51, one more than the model's inode cache holds.
iref(n) == Alone(
  Times(n, <<mkdir(<<"a">>, Ok), chdir(<<"a">>, Ok), mkdir(<<>>, Whatever),
             link(<<"f">>, <<>>, Whatever), creat(<<>>, "r", Whatever), close(0),
             creat(<<"b">>, "r", Whatever), close(0), unlink(<<"b">>, Whatever)>>)
  \o <<chdir(<<"/">>, Whatever)>>)
=============================================================================
