CONSTANTS
  NPROC = 3
  CPU = {c1, c2}
  MaxPid = 3
  KillPids = {0, 2}
  PrioPids = {0, 2}
  Prios = {1, 3}
  Status = {1}
SPECIFICATION Spec
CHECK_DEADLOCK FALSE
SYMMETRY CpuSymmetry
INVARIANTS OneCpu NoLostExit NoOrphan
PROPERTY PnormalFresh
