SPECIFICATION Spec
CONSTANTS
  d1 = d1
  d2 = d2
  r0 = r0
  Deployments = {d1}
  Generations = {1}
  Targets <- MCTargets
  Candidate <- MCCandidate
  Base = r0
  NoTarget = NoTarget
  MaxTime = 2
  MaxCrashes = 1
  Faults = {"torn"}
PROPERTIES
  GuardResolves
CHECK_DEADLOCK FALSE
