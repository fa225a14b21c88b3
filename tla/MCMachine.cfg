CONSTANTS
  Machine = {"spin", "mem", "console", "malloc"}
  CPU = {c1, c2}
  Thread = {t1, t2}
  Lock = {tickslock}
  ptable = ptable
  None = None
  Proc = {p1, p2}
  First = p1
  NPAGE = 13
  PGSIZE = 2
  NPTENTRIES = 2
  KERNBASE = 12
  WIDTH = 4
  Pipes = {1, 4, 8}
  NCALL = 3
  User = {u1, u2}
  INPUT_BUF = 2
  INDEX = 2
  COLS = 2
  ROWS = 2
  Keys = {120, 10, 4, 21, 8}
  Output = {65}
  Codes = {31}
  Lengths = {2}
  NTYPE = 5
  HEAP = 2
  TOP = 16
  SizeofHeader = 2
  NUNITS = 5
  Bytes = {1, 4, 9}
  Growth = {1}
SPECIFICATION MCSpec
SYMMETRY Symmetric
INVARIANTS MutualExclusion   OwnMemory Lines   HeapSound
