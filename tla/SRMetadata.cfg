SPECIFICATION Spec
CONSTANTS
  Uuid = {u1, u2, u3, u4}
  Value = {v1, v2, long}
  TooLong = long
  NoRecord = NoRecord
  NoOp = NoOp
  Capacity = 3
  MaxKills = 2
INVARIANT TypeOK LengthCoversRecords
PROPERTY ClosedIsDone Implements
