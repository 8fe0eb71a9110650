SPECIFICATION Spec
CONSTANTS
  d1 = d1
  d2 = d2
  k1 = k1
  k2 = k2
  q1 = q1
  q2 = q2
  m1 = m1
  m2 = m2
  c1 = c1
  c2 = c2
  Deployments = {d1, d2}
  Generations = {1, 2}
  Keys = {k1, k2}
  Requests = {q1, q2}
  Digests = {m1, m2}
  Compat = {c1, c2}
  TrackedKinds <- MCKinds
  None = None
  MaxSequence = 8
SYMMETRY Symmetry
CONSTRAINT WalkOne
INVARIANTS
  CreationUnique
  GuardSafety
  MarkerBacked
  CanTerminalize
PROPERTIES
  GuardBitSticky
CHECK_DEADLOCK FALSE
