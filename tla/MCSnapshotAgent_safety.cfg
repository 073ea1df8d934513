SPECIFICATION Spec
CONSTANTS
  s1 = s1
  s2 = s2
  r1 = r1
  e1 = e1
  c1 = c1
  File = {1, 2}
  Host <- MCHost
  Kind = "cuda-criu-group"
  Probes = {"uname", "memory"}
  Reader = {r1, e1}
  Command <- MCCommand
  Criu <- MCCriu
  Cleaner = {c1}
  Snapshots = {s1, s2}
  Restores = {r1}
  AgentCriu = "/opt/edo/bin/criu"
  MaxGen = 2
  MaxFaults = 1
INVARIANT TypeOK
INVARIANT DamageFound
INVARIANT RefusedForCause
INVARIANT RemapsItsOwn
PROPERTY OnlyCleanUnpublishes
SYMMETRY SnapshotSymmetry
