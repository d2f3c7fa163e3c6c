SPECIFICATION Spec
CONSTANTS
  N = 1
  Tasks = {t1, t2, t3}
  NoTask = NoTask
  QueCap = 1
  Ops = {"local"}
  Detached = {t1, t2, t3}
  MaxSuspends = 0
  Managed = TRUE
  Initial = {t1}
  SizeMod = 4
SYMMETRY TaskSymmetry
INVARIANTS WorkerNeverBlocksItself
