SPECIFICATION FairSpec
CONSTANTS
  Senders = {s1, s2}
  Receivers = {r1, r2}
  NullOpt = NullOpt
  Capacity = 2
  Quota = 2
INVARIANTS WaitersBlocked FifoOrder AnswersTrue NulloptMeansDrained
PROPERTIES ImplementsFifo SendsComplete CloseReleasesAll
