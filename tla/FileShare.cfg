SPECIFICATION Spec
CONSTANTS
  Tests = {"nfs", "cifs", "data"}
  MaxVersions = 2
  Half = 4
INVARIANT TypeOK
INVARIANT Exit0MeansClean
INVARIANT PatternSurvived
INVARIANT KnownLeftoversAnnounced
