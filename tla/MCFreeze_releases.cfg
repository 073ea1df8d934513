SPECIFICATION FairSpec
CONSTANTS
  e1 = e1
  e2 = e2
  e3 = e3
  p1 = p1
  d1 = d1
  d2 = d2
  Edo = {e1, e2, e3}
  Pid = {p1}
  Dir = {d1, d2}
  Command <- WithCpuDump
  Target <- OneTarget
  Out <- OneDir
  FileName <- OneName
  Cwd <- OneCwd
  Faulty <- ForwardFaults
  AsyncDriver = FALSE
INVARIANT TypeOK
INVARIANT StoppedIsAccounted
PROPERTY EveryEdoEnds
