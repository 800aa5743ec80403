SPECIFICATION Spec
CONSTANTS
  Source = {p1, p2}
  Lun = {l1, l2}
  NoDevice = NoDevice
  Handlers = {"iscsi"}
INVARIANT PassMeansSameLuns
