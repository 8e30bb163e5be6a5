SPECIFICATION Spec
CONSTANTS
  NULL = NULL
  Gc = Gc
  Path = {p1}
  Handle = {h1, h2}
  Pe = {x1, x2}
  Inode = {i1, i2, i3}
  Calls <- PlainCalls
  Excluded = {}
  Faults = {"alloc", "open", "namei", "read", "mknod", "upload"}
  GcOn = TRUE
  Workers = 1
  MaxRefcount = 2
INVARIANTS
  GcRemovesWhatItLocked
  OpenWriterKept
  WholeFile
  RemoteWhole
SYMMETRY Symmetry
VIEW View
CHECK_DEADLOCK FALSE
