SPECIFICATION Spec
CONSTANTS
  Coros = {0, 1}
  Workers = {w1, w2}
  None = None
  Clients = {"turns"}
  Rounds = 2
  Capacity = 1
  NotifyAll = FALSE
SYMMETRY WorkerSymmetry
INVARIANTS DrainedMeansDone
