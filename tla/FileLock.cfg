SPECIFICATION Spec
CONSTANTS
  Proc = {a, b, c}
  NoProc = NoProc
  Cleaners = {c}
  Retries = 1
  MaxDepth = 2
  MaxSections = 4
  MaxCleanups = 2
INVARIANT TypeOK BookkeepingIsTrue ExclusiveUntilCleanup
PROPERTY OpenGivesUpLast WaitersGetIn Serializes
