SPECIFICATION CountsSpec
CONSTANTS
  Obj = {o1, o2}
  Values <- SetTo
  MaxOps = 4
  MaxAccidents = 1
INVARIANT NamespaceIsItsFiles
PROPERTY KeepsCounts
