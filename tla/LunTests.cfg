SPECIFICATION Spec
CONSTANTS
  Source = {p1, p2}
  Lun = {l1, l2}
  NoDevice = NoDevice
  Handlers = {"iscsi", "hba"}
INVARIANT TypeOK
INVARIANT PassMeansTested
INVARIANT MarksAgree
INVARIANT WritesOnlyWhatItMay
INVARIANT SessionsClosed
