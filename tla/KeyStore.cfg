SPECIFICATION Spec
CONSTANTS
  null = null
  small = small
  large = large
  Keys = {k1, k2}
  NoKey = NoKey
  Vals = {null, small, large}
  NoVal = NoVal
  Size <- MCSize
  MinSize = 1
  SplitMin = 1
  MinSafe = 1
  Reverts = {TRUE, FALSE}
  Splits = {TRUE}
  NoRevert = {}
  Ops = {"write", "append", "delete", "undelete", "unwrite", "rename", "read_row", "nested"}
  AnyRow = TRUE
  MaxRows = 3
  MaxCells = 3
SYMMETRY Symmetry
INVARIANTS
  TypeOK
  SpacePartitioned
  MemoryMatches
PROPERTIES
  IsDictionary
