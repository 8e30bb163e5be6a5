SPECIFICATION OpenSpec
CONSTANTS
  NULL = NULL
  Gc = Gc
  Path = {p1}
  Handle = {h1, h2}
  Pe = {x1, x2}
  Inode = {i1, i2, i3}
  Calls <- WriteCalls
  Excluded = {}
  Faults = {}
  GcOn = TRUE
  Workers = 2
  MaxRefcount = 2
INVARIANTS
  WriterExclusion
  NoOrphanCopy

  
SYMMETRY Symmetry
VIEW View
CHECK_DEADLOCK FALSE
