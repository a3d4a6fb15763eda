SPECIFICATION Spec
CONSTANTS
  c1 = c1
  c2 = c2
  Nodes = {n1, n2}
  Configs = {c1, c2}
  Empty = Empty
  Foreign <- ForeignPairs
  MaxVersions = 2
  MaxCasRetries = 2
  MaxWrites = 2
  MaxCalls = 2
INVARIANTS
  WindowRetained
  Provenance
PROPERTY
  SnapshotsImmutable
SYMMETRY Symmetry
