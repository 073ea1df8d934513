SPECIFICATION FairSpec
CONSTANTS
  Edo = {"e1", "e2"}
  Pid = {1, 2, 3, 4}
  Command <- GroupAndSingle
  Kind <- CudaSnapshots
  Recorded <- TwoSnapshots
  Bystander <- Stranger
  Faulty <- SteadyDriver
  AsyncDriver = FALSE
INVARIANT TypeOK
INVARIANT Barrier
INVARIANT MatchedOnce
INVARIANT DrivesRestored
INVARIANT OkRuns
PROPERTY EveryEdoEnds
