SPECIFICATION Spec
CONSTANTS
  e1 = e1
  e2 = e2
  d1 = d1
  d2 = d2
  Edo = {e1, e2}
  Dir = {d1, d2}
  Pid = {1, 2}
  Group <- Same
  Out <- TwoDirs
  Faulty <- NoFaults
  AsyncDriver = FALSE
INVARIANT SourceResumed
