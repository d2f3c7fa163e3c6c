SPECIFICATION FairSpec
CONSTANTS
  N = 1
  Tasks = {t1, t2, t3}
  NoTask = NoTask
  QueCap = 4
  Ops = {"io", "local"}
  Detached = {t1, t2, t3}
  MaxSuspends = 1
  Managed = FALSE
  Initial = {t1, t2}
  SizeMod = 4
PROPERTIES Completes
