SPECIFICATION FairSpec
CONSTANTS
  NULL = NULL
  Gc = Gc
  Path = {p1}
  Handle = {h1, h2}
  Pe = {x1}
  Inode = {i1, i2}
  Calls <- PlainCalls
  Excluded = {}
  Faults = {}
  GcOn = TRUE
  Workers = 1
  MaxRefcount = 2
PROPERTIES
  OldFilesCollected
CHECK_DEADLOCK FALSE
