SPECIFICATION Spec
CONSTANTS
  Hosts = {1, 2, 3}
  Registered = {1, 2, 3}
  Stocked = {1, 3}
  Action = "deploy"
  BatchSize = 2
  Concurrency = 2
  MaxRuns = 2
  MaxLost = 1
  MaxForeign = 1
CHECK_DEADLOCK FALSE
INVARIANTS FailureStopsTheNextWave ReportedSuccessIsTrue OneOperationPerHost
PROPERTIES BatchEnds
