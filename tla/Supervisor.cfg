SPECIFICATION Spec
CONSTANTS
  j1 = j1
  j2 = j2
  p1 = p1
  p2 = p2
  s1 = s1
  s2 = s2
  f1 = f1
  f2 = f2
  d1 = d1
  d2 = d2
  Paths = {f1, f2}
  Data = {d1, d2}
  Absent = Absent
  Torn = Torn
  MaxFileOps = 3
  Jobs = {j1, j2}
  Sessions = {s1, s2}
  MaxStarted = 2
  Pids = {p1, p2}
  NoPid = NoPid
  MaxRetention = 1
  MaxRestarts = 2
CONSTRAINT EitherKind
INVARIANTS
  FinishedIsDead
  OutputCaptured
  ReplacedWhole
PROPERTIES
  RunningResolves
CHECK_DEADLOCK FALSE
