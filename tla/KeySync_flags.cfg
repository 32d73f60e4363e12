SPECIFICATION Spec
CONSTANTS
  Handles = {h1, h2}
  Keys = {k1, k2}
  NoKey = NoKey
  RowSize = 2
  Wrap = 100
  Ops = {"add", "update", "protect"}
  MaxRows = 3
  MaxSync = 5
SYMMETRY Symmetry
PROPERTIES
  ReadOnlyRefused
