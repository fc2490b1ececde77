SPECIFICATION Spec
CONSTANTS
  Workspaces = {w1, w2}
  Canonicals = {c1, c2}
  MaxArtifacts = 2
  MaxHandoffs = 1
  MaxCheckpoints = 2
  MaxVersion = 2
  MaxFailures = 1
INVARIANTS
  CanonicalIdsUnique
