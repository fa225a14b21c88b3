CONSTANTS
  Machine = {"files", "lock", "shell"}
  User = {p1, p2}
  File = {f1, f2}
  Page = {q1}
  None = None
  First = p1
  NOFILE = 2
  FdArg = {0, 1}
  Proc = {p1, p2, p3}
  MAXARGS = 3
  NPROC = 7
  NCMD = 2
  NTOKEN = 4
SPECIFICATION MCLiveSpec
INVARIANTS LockExact Wired Parses
PROPERTIES EndCloses Woken 
