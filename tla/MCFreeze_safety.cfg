SPECIFICATION Spec
CONSTANTS
  e1 = e1
  e2 = e2
  e3 = e3
  p1 = p1
  d1 = d1
  d2 = d2
  Edo = {e1, e2, e3}
  Pid = {p1}
  Dir = {d1, d2}
  Command <- WithRoundtrip
  Target <- OneTarget
  Out <- OwnDirs
  FileName <- OneName
  Cwd <- OneCwd
  Faulty <- SteadyDriver
  AsyncDriver = TRUE
INVARIANT Exclusive
INVARIANT JournalAhead
INVARIANT ReadyIsReady
