SPECIFICATION Spec
CONSTANTS
  base = base
  fix = fix
  fork = fork
  d1 = d1
  f1 = f1
  op = op
  None = None
  Commits = {base, fix, fork}
  Ancestors <- History
  Deliveries = {d1}
  Operator = op
  Mutations = {d1, op}
  ExpectedOld = base
  ExpiresAt = 2
  WorkflowDeadline = 1
  MaxClock = 2
  Source = base
  Starts <- MCStarts
  Expiries = {2}
  Fingerprints = {f1}
  MaxMoves = 1
  MaxPlans = 1
  MaxAttempts = 2
  MaxPolls = 1
  MaxRunAttempts = 2
INVARIANTS
  IntentBeforePush
  CompletedExact
PROPERTIES
  FastForwardOnly
  SettledFinal
CHECK_DEADLOCK FALSE
