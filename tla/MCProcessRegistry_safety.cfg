SPECIFICATION Spec
CONSTANTS
  p1 = p1
  p2 = p2
  e1 = e1
  e2 = e2
  n1 = n1
  r1 = r1
  env = env
  app = app
  Pid = {p1, p2}
  Name = {n1}
  Run = {e1, e2}
  RunName <- OneName
  Wrapper <- Wrappers
  App <- Apps
  Prompt = {e1, e2}
  Resolver = {r1}
  MaxStarts = 3
  Unwritable = TRUE
SYMMETRY PidSymmetry
INVARIANT TypeOK
INVARIANT NoImpostor
INVARIANT StaysResolvable
