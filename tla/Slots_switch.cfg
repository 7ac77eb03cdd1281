SPECIFICATION Spec
CONSTANTS
  Releases = {r1, r2, r3}
  Renumbered = {r3}
  KeepLast = 2
  None = None
  MaxRequests = 3
  MaxFailures = 1
  MaxCancels = 1
  MaxCrashes = 1
  MaxForeign = 1
SYMMETRY MCSymmetry
CHECK_DEADLOCK FALSE
INVARIANTS FailureKeepsTraffic SuccessServesRelease OneServingRow
PROPERTIES NeverDark
