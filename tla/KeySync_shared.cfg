SPECIFICATION Spec
CONSTANTS
  Handles = {h1, h2}
  Keys = {k1, k2}
  NoKey = NoKey
  RowSize = 2
  Wrap = 100
  Ops = {"get", "add", "update", "delete", "undelete", "rename"}
  MaxRows = 3
  MaxSync = 5
SYMMETRY Symmetry
INVARIANTS
  TypeOK
  TableCurrent
  RowsReadCurrent
