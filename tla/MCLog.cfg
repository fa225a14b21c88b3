CONSTANTS
  Proc = {p1, p2}
  Block = {b1, b2}
  Value = {v0, v1}
  None = None
  MAXOPBLOCKS = 2
  LOGSIZE = 4
  NLOG = 4
  MaxWrites = 2
SPECIFICATION LiveSpec
INVARIANT Durable
PROPERTIES WriteAhead Atomic Woken
