SPECIFICATION FairSpec
CONSTANTS
  Coros = {0, 1, 2, 3}
  Workers = {w1, w2}
  None = None
  Clients = {"turns", "queue"}
  Rounds = 2
  Capacity = 1
  NotifyAll = TRUE
INVARIANTS LockOwned HandleInOnePlace QueueBounded
PROPERTIES LockAcquired EndsOnOneWorker
