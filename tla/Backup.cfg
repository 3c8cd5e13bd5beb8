SPECIFICATION Spec
CONSTANTS
  Buckets = {b}
  Parts = {h1, h2}
  NoFile = nofile
  Torn = torn
  MaxOps = 4
  MaxFaults = 2
SYMMETRY PartSymmetry
CHECK_DEADLOCK FALSE
INVARIANTS
  TypeOK
  SnapshotComplete
  RestoredIsWhole
