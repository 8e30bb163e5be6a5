SPECIFICATION FairSpec
CONSTANTS
  NULL = NULL
  Gc = Gc
  Path = {p1}
  Handle = {h1, h2}
  Pe = {x1, x2}
  Inode = {i1, i2, i3}
  Calls <- WriterCalls
  Excluded = {}
  Faults = {}
  GcOn = FALSE
  Workers = 2
  MaxRefcount = 2
INVARIANTS
  WritersCanWrite
PROPERTIES
  WritersTakeTurns
