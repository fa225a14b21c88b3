CONSTANTS
  NPROC = 3
  CPU = {c1}
  MaxPid = 4
  KillPids = {2}
  PrioPids = {2}
  Prios = {1}
  Status = {0}
SPECIFICATION Spec
CHECK_DEADLOCK FALSE
PROPERTY HighBeforeNormal
