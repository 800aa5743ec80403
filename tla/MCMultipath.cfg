SPECIFICATION Spec
CONSTANTS
  p1 = p1
  p2 = p2
  p3 = p3
  p4 = p4
  a = a
  b = b
  c = c
  d = d
  Path <- FourPaths
  Port <- FourPorts
  Setups <- TestedSetups
  DownAtStart <- NoneDown
  MaxFailoverPolls = 2
  MaxRestorePolls = 2
  DefaultIterations = 4
INVARIANT TypeOK
INVARIANT FullMarksMeanPass
INVARIANT FullMarksLeaveNothing
PROPERTY CreditMeansFailover
PROPERTY IterationsIndependent
PROPERTY Terminates
