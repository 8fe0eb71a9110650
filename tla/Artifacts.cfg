SPECIFICATION Spec
CONSTANTS
  i1 = i1
  i2 = i2
  u = u
  v = v
  Ids = {i1, i2}
  Units = {u, v}
  Zero = u
  maximumArtifactBytes = 2
  MaxLength = 3
  Sources <- MCSources
  Chunks <- MCChunks
  Expectations <- MCExpectations
  None = None
SYMMETRY Symmetry
INVARIANTS
  FinalizedExact
  AckedKept
PROPERTIES
  FinalizedImmutable
CHECK_DEADLOCK FALSE
