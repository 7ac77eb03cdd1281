SPECIFICATION Spec
CONSTANTS
  Manifests = 2
  Required = 2
  StartTimeout = 1
  MaxPuts = 1
  MaxFaults = 2
INVARIANTS PreparedIsLoaded DeployedRuns CountIsOfThisStart
