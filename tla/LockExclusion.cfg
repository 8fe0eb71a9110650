SPECIFICATION Spec
CONSTANTS
  p1 = p1
  p2 = p2
  p3 = p3
  Procs = {p1, p2}
  NoFile = NoFile
  MaxDeaths = 0
INVARIANTS
  MutualExclusion
CHECK_DEADLOCK FALSE
