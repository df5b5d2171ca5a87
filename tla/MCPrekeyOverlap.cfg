CONSTANTS
  Procs = {p1, p2}
  Refresh = 2
  Archive = 2
  MaxStall = 1
  MaxTime = 6
  MaxKeys = 4
  MaxBatches = 1
SPECIFICATION Spec
SYMMETRY Symmetry
INVARIANTS
  TypeOK
  ServerKeysHeld
  StampHonest
  ActiveKeysLast
CHECK_DEADLOCK FALSE
