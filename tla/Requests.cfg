SPECIFICATION Spec
CONSTANTS
  i1 = i1
  i2 = i2
  f1 = f1
  f2 = f2
  n1 = n1
  n2 = n2
  Ids = {i1, i2}
  Fingerprints = {f1, f2}
  Nonces = {n1, n2}
  MaxAge = 1
  Retention = 3
  MaxTime = 4
  MaxFailures = 1
  MaxAdmissions = 2
SYMMETRY Symmetry
INVARIANTS
  OncePerRetention
  ExactOnce
  ReplyMatches
CHECK_DEADLOCK FALSE
