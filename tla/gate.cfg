SPECIFICATION FairSpec
CONSTANTS
  Waiters = {p1, p2, p3}
  Openers = {d1, d2, d3}
  Unset = Unset
INVARIANTS WaitersCovered NobodyPassesEarly
PROPERTIES WokenOnce EverybodyPasses
