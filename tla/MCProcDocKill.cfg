CONSTANTS
  NPROC = 3
  CPU = {c1}
  MaxPid = 3
  KillPids = {0}
  PrioPids = {0}
  Prios = {}
  Status = {0}
SPECIFICATION Spec
CHECK_DEADLOCK FALSE
PROPERTY BornUnkilled
