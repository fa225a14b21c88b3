CONSTANTS
  Machine = {"blocks"}
  None = None
  p1 = p1
  p2 = p2
  Proc = {p1, p2}
  Name = {"a", "b", "c", "d", "f"}
  NINUM = 9
  NINODE = 5
  NOFILE = 2
  Script <- Scripts
  Parent = p1
  Byte <- Bytes
  d1 = d1
  d2 = d2
  d3 = d3
  Fd = {d1, d2, d3}
  Inode <- Inodes
  Shared = d2
  Files <- FullBlock
  NINO = 3
  NBLOCK = 10
  BSIZE = 2
  NDIRECT = 1
  MAXOPBLOCKS = 6
  BPB = 1
  NCALL = 2
  Sizes = {1, 3}
  Blockno = {k1, k2, k3}
  NBUF = 2
  LOGSIZE = 1
  Value = {v0, v1}
SPECIFICATION MCSpec
CHECK_DEADLOCK FALSE
INVARIANT WriteThrough
