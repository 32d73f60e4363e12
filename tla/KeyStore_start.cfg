SPECIFICATION USpec
CONSTANTS
  null = null
  small = small
  large = large
  Keys = {k1, k2}
  NoKey = NoKey
  Vals = {small, large}
  NoVal = NoVal
  Size <- MCSize
  MinSize = 1
  SplitMin = 1
  MinSafe = 0
  Reverts = {TRUE}
  Splits = {FALSE}
  NoRevert = {}
  Ops = {"write", "delete", "undelete", "read_row", "nested"}
  AnyRow = FALSE
  Again = FALSE
  MaxRows = 4
  MaxCells = 4
SYMMETRY Symmetry
INVARIANTS
  StartKept
  VersionsGenuine
