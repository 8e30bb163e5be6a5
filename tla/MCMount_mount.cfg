SPECIFICATION MountSpec
CONSTANTS
  NULL = NULL
  Gc = Gc
  Path = {p1}
  Handle = {h1, h2}
  Pe = {x1, x2}
  Inode = {i1, i2, i3}
  Calls <- WriteCalls
  Excluded = {}
  Faults = {}
  GcOn = TRUE
  Workers = 2
  MaxRefcount = 2
  Bucket = "bucket"
  Number <- Numbers
  LogLevel <- LogLevels
  Malformed = {"["}
  Setups <- SetupsOfTwoLines
INVARIANTS
  Precedence
  CacheDirReady
  ConfMemorySafe
  CopiesRemoved

  
SYMMETRY Symmetry
VIEW View
CHECK_DEADLOCK FALSE
