SPECIFICATION Spec
CONSTANTS
  Handlers = {"block"}
  Iterations = 2
  PbdCycles = 1
  MaxLuns = 2
  MaxVersions = 1
PROPERTY CreateSucceedsWithAnyLun
