CONSTANTS
  NPROC = 3
  CPU = {c1}
  MaxPid = 3
  KillPids = {2}
  PrioPids = {2}
  Prios = {}
  Status = {1}
SPECIFICATION FairSpec
CHECK_DEADLOCK FALSE
PROPERTIES LifeCycle KilledDies RunnableRuns
