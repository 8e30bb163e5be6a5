SPECIFICATION Spec
CONSTANTS
  NULL = NULL
  Gc = Gc
  Path = {p1}
  Handle = {h1, h2}
  Pe = {x1, x2}
  Inode = {i1, i2, i3}
  Calls <- AllCalls
  Excluded = {}
  Faults = {"alloc", "open", "namei", "read", "mknod", "upload"}
  GcOn = FALSE
  Workers = 2
  MaxRefcount = 2
INVARIANTS
  TypeOK
  OpenHasFd
  RefcountCoversHandles
  NoUseAfterFree
  NoStaleServed
PROPERTIES
  LocalNotForgotten
SYMMETRY Symmetry
VIEW View
CHECK_DEADLOCK FALSE
