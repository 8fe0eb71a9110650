SPECIFICATION Spec
CONSTANTS
  d1 = d1
  d2 = d2
  r0 = r0
  Deployments = {d1, d2}
  Generations = {1, 2}
  Targets <- MCTargets
  Candidate <- MCCandidate
  Base = r0
  NoTarget = NoTarget
  MaxTime = 2
  MaxCrashes = 2
  Faults = {"crash", "service"}
INVARIANTS
  RestorePossible
  GatewayFirst
PROPERTIES
  ImplementsContract
  GuardResolves
CHECK_DEADLOCK FALSE
