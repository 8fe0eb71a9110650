SPECIFICATION MCSpec
CONSTANTS
  p1 = p1
  p2 = p2
  p3 = p3
  i1 = i1
  i2 = i2
  c1 = c1
  c2 = c2
  a1 = a1
  a2 = a2
  r1 = r1
  Procs = {p1, p2, p3}
  Sandboxed = {p1}
  MaxVersion = 1
  Installs = {i1, i2}
  ControllerReleases = {c1, c2}
  NoRelease = NoRelease
  Runners = {a1, a2}
  RunIds = {r1}
  NoFile = NoFile
  NoReceipt = NoReceipt
  MaxForeign = 1
  MaxDeaths = 1
CONSTRAINT Bounded
INVARIANTS
  NoLeakedLock
  ReceiptTruthful
  LinksComplete
PROPERTIES
  KnownGoodStartsExact
  ForeignUntouched
  LoneCallActs
CHECK_DEADLOCK FALSE
