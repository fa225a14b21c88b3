CONSTANTS
  NPROC = 3
  CPU = {c1}
  MaxPid = 3
  KillPids = {}
  PrioPids = {2}
  Prios = {1}
  Status = {0}
SPECIFICATION FairSpec
CHECK_DEADLOCK FALSE
PROPERTY HighRuns
