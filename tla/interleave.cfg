SPECIFICATION FairSpec
CONSTANTS
  N = 2
  Tasks = {t1, t2}
  NoTask = NoTask
  QueCap = 4
  Ops = {"io", "local", "scheduler", "park"}
  Detached = {t1, t2}
  MaxSuspends = 1
  Managed = TRUE
  Initial = {t1, t2}
  SizeMod = 4
INVARIANTS TypeOK IndependentQuiescent WaitCountExact NoLostWakeup IoCountersExact NoConcurrentResume
PROPERTIES ExitsDrained Terminates
