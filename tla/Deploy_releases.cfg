SPECIFICATION Spec
CONSTANTS
  Releases = {r1, r2, r3}
  Materializes = {r1, r2}
  KeepLast = 2
  None = None
  MaxRequests = 4
  MaxFailures = 2
  MaxCancels = 1
  MaxCrashes = 1
SYMMETRY MCSymmetry
CHECK_DEADLOCK FALSE
INVARIANTS OneActive CurrentExists RolledBackIsTrue ReplacementRuns
PROPERTIES PruneSparesRollbackTarget
