SPECIFICATION Spec
CONSTANTS
  d1 = d1
  p1 = p1
  p2 = p2
  a = a
  b = b
  l1 = l1
  l2 = l2
  h1 = h1
  h2 = h2
  k1 = k1
  k2 = k2
  Deliveries = {d1}
  Plans = {p1, p2}
  PlanOf <- MCPlanOf
  Expiry <- MCExpiry
  Generations = {1}
  States <- MCStates
  Keys = {k1, k2}
  DeploymentIds = {x1, x2}
  DeploymentStates = {"guard_armed"}
  LeaseIds = {l1, l2}
  Holders = {h1, h2}
  ChildIds = {c1}
  Results = {r1}
  Artifacts <- MCArtifacts
  EvidenceKinds = {e1}
  IntentKeys = {i1}
  None = None
  MAX_EVENTS_PER_RUN = 2
  MaxSkew = 1
  MaxTime = 3
SYMMETRY Symmetry
CONSTRAINT OneTable
INVARIANTS
  ProjectionMatchesLog
  LeasePointerExact
  UnexpiredHolderFenced
PROPERTIES
  HistoryFinal
CHECK_DEADLOCK FALSE
