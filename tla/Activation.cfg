SPECIFICATION Spec
CONSTANTS
  Proc = {p, q}
  NoProc = NoProc
  FailRetries = 2
  MaxCalls = 4
  MaxFaults = 1
INVARIANT TypeOK HeldIsActive NothingLeaks
PROPERTY HeldDeviceStays EveryCallEnds
CHECK_DEADLOCK FALSE
