SPECIFICATION Spec
CONSTANTS
  Handlers = {"block", "nfs", "cifs"}
  Iterations = 3
  PbdCycles = 2
  MaxLuns = 2
  MaxVersions = 2
INVARIANT TypeOK
INVARIANT ExitStatusIsTrue
INVARIANT Exit0LeavesNothing
INVARIANT LeftoversAnnounced
INVARIANT ClusterRestored
PROPERTY OneSrAtATime
