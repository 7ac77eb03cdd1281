SPECIFICATION ArtifactsSpec
CONSTANTS
  a = a
  b = b
  c = c
  Digests = {a, b, c}
  Size <- MCSize
  Quota = 3
  ListLimit = 2
  Handlers = {h1, h2}
  MaxCalls = 4
  MaxFailures = 1
  MaxCrashes = 1
SYMMETRY MCSymmetry
CHECK_DEADLOCK FALSE
INVARIANTS ContentInUseStays CollectLeavesNoOrphans
