SPECIFICATION ManifestsSpec
CONSTANTS
  a1 = a1
  a2 = a2
  v1 = v1
  v2 = v2
  c1 = c1
  c2 = c2
  Clients <- MCClients
  Versions <- MCVersions
  Artifacts <- MCArtifacts
  Documents <- MCDocuments
  MediaTypes = {"binary", "tar"}
  None = None
  MaxRequests = 2
SYMMETRY MCSymmetry
CHECK_DEADLOCK FALSE
INVARIANTS ValidatesAgain VersionNamesOneArtifact ArchivesAreUnpacked
