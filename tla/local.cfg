SPECIFICATION Spec
CONSTANTS
  N = 2
  Tasks = {t1, t2, t3}
  NoTask = NoTask
  QueCap = 4
  Ops = {"io", "local"}
  Detached = {t1, t2}
  MaxSuspends = 1
  Managed = TRUE
  Initial = {t1, t2}
  SizeMod = 4
SYMMETRY TaskSymmetry
INVARIANTS AllTasksRun FramesAlive
