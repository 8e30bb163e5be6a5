SPECIFICATION FairSpec
CONSTANTS
  NULL = NULL
  Freed = Freed
  root = root
  f = f
  Path = {root, f}
  Pe = {x1, x2}
  Request = {r1}
  Worker = {w1, w2}
  Root = root
  Dir = {root}
  Parent <- FileOfRoot
  MaxCells = 2
  MaxChanges = 1
  MaxUnlinks = 1
  MaxQueue = 1
INVARIANTS
  TypeOK
  
  
  
PROPERTIES
  EventuallyRefreshed
  RequestsReturn
CHECK_DEADLOCK FALSE
