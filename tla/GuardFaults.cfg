SPECIFICATION Spec
CONSTANTS
  d1 = d1
  d2 = d2
  r0 = r0
  Deployments = {d1, d2}
  Generations = {1, 2}
  Targets <- MCTargets
  Candidate <- MCCandidate
  Base = r0
  NoTarget = NoTarget
  MaxTime = 2
  MaxCrashes = 1
  Faults = {"crash", "torn", "service", "late", "manual"}
SYMMETRY Symmetry
INVARIANTS
  OneActiveGuard
  OneOutcome
  ActiveNeverStale
PROPERTIES
  ActivationGuarded
CHECK_DEADLOCK FALSE
