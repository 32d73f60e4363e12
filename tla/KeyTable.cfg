SPECIFICATION Spec
CONSTANTS
  k1 = k1
  k2 = k2
  k3 = k3
  k4 = k4
  Keys = {k1, k2, k3, k4}
  Bit <- MCBit
  Limits = {0, 2}
  Mixed = FALSE
  MaxChanges = 7
INVARIANTS
  TypeOK
  LookupsRight
  TableAccurate
CHECK_DEADLOCK FALSE
