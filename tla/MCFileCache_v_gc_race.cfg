SPECIFICATION Spec
CONSTANTS
  NULL = NULL
  Gc = Gc
  Path = {p1}
  Handle = {h1, h2}
  Pe = {x1, x2}
  Inode = {i1, i2, i3}
  Calls <- ReadCalls
  Excluded = {}
  Faults = {}
  GcOn = TRUE
  Workers = 1
  MaxRefcount = 2
PROPERTIES
  OpenCellsKept
CHECK_DEADLOCK FALSE
