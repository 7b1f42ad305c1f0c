SPECIFICATION Spec
CONSTANTS
  Calls = {c1, c2}
  Keys = {k1, k2}
  MaxProcs = 3
  Limits = {0, 1}
  Overlap = FALSE
  None = None
SYMMETRY Symmetry
INVARIANTS
  TypeOK
  NoOrphan
  ProxyOwned
  CrashIsNoticed
PROPERTY OneProcessSpec
CHECK_DEADLOCK FALSE
