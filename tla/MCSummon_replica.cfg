SPECIFICATION Spec
CONSTANTS
  Edo = {"e1", "e2"}
  Pid = {1, 2, 3, 4}
  Command <- GroupAndCpu
  Kind <- CudaSnapshots
  Recorded <- TwoSnapshots
  Bystander <- Replica
  Faulty <- NoFaults
  AsyncDriver = FALSE
INVARIANT DrivesRestored
