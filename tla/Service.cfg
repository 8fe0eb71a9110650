SPECIFICATION ServiceSpec
CONSTANTS
  d1 = d1
  d2 = d2
  k1 = k1
  k2 = k2
  k3 = k3
  k4 = k4
  Deployments = {d1}
  Generations = {1}
  Keys = {k1, k2, k3, k4}
  Requests = {q1}
  Digests = {m1}
  Compat = {c1}
  TrackedKinds <- MCKinds
  None = None
  MaxSequence = 32
  compatibility = c1
  MaxCrashes = 1
  Diagnosing = TRUE
SYMMETRY Symmetry
INVARIANTS
  CompletedMeansReached
  SingleOutcome
  ArmedRecoverable
CHECK_DEADLOCK FALSE
