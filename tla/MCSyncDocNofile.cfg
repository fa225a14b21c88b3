CONSTANTS
  Machine = {"files"}
  None = None
  Reader = {r1}
  Writer = {w1, w2}
  Byte = {0, 1}
  PIPESIZE = 2
  UINT = 4
  MaxCount = 2
  User = {p1, p2}
  File = {f1, f2, f3}
  Page = {q1}
  init = p1
  NOFILE = 2
  FdArg = {0, 1, 2}
SPECIFICATION MCSpec
INVARIANT InTable
