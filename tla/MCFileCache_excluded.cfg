SPECIFICATION Spec
CONSTANTS
  NULL = NULL
  Gc = Gc
  Path = {p1}
  Handle = {h1, h2}
  Pe = {x1, x2, x3}
  Inode = {i1, i2, i3}
  Calls <- ExcludeCalls
  Excluded = {p1}
  Faults = {"lock", "fstat", "open"}
  GcOn = FALSE
  Workers = 2
  MaxRefcount = 2
PROPERTIES
  ExcludedStaysLocal
SYMMETRY Symmetry
VIEW View
CHECK_DEADLOCK FALSE
