SPECIFICATION Spec
CONSTANTS
  N = 2
  Tasks = {t1, t2, t3, t4}
  NoTask = NoTask
  QueCap = 4
  Ops = {"scheduler"}
  Detached = {t1, t2, t3, t4}
  MaxSuspends = 0
  Managed = TRUE
  Initial = {t1}
  SizeMod = 4
SYMMETRY TaskSymmetry
INVARIANTS AllTasksRun
