SPECIFICATION Spec
CONSTANTS
  Handles = {h1}
  Keys = {k1, k2}
  NoKey = NoKey
  RowSize = 2
  Wrap = 100
  Ops = {"get", "function", "add", "update", "protect", "delete", "undelete", "rename", "recycle", "nested"}
  MaxRows = 4
  MaxSync = 5
SYMMETRY Symmetry
INVARIANTS
  TableCurrent
