SPECIFICATION FairSpec
CONSTANTS
  e1 = e1
  e2 = e2
  d1 = d1
  d2 = d2
  Edo = {e1, e2}
  Dir = {d1, d2}
  Pid = {1, 2, 3}
  Group <- Chained
  Out <- OneDir
  Faulty <- AllFaults
  AsyncDriver = TRUE
INVARIANT TypeOK
INVARIANT Exclusive
INVARIANT HeldStopped
INVARIANT PublishedConsistent
INVARIANT OkPublished
PROPERTY PublishedKept
PROPERTY CapturesGroups
PROPERTY EveryEdoEnds
