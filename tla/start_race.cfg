SPECIFICATION Spec
CONSTANTS
  N = 1
  Tasks = {t1, t2}
  NoTask = NoTask
  QueCap = 4
  Ops = {}
  Detached = {t1, t2}
  MaxSuspends = 0
  Managed = FALSE
  Initial = {t1, t2}
  SizeMod = 4
SYMMETRY TaskSymmetry
INVARIANTS JobAssignedOnSelfStop
