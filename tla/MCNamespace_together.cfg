SPECIFICATION FairSpec
CONSTANTS
    Worker = {w1, w2}
    MaxRetry = 1
    NULL = NULL
    Path <- PairPath
    Data = {"x", "y"}
    Tree <- PairTree
    Calls <- PairCalls
    Cacheable = {}
    Faults = {"refused", "lost"}
    TMPSTR_NB = 5
INVARIANTS TypeOK NothingLost CreatedIsThere
PROPERTIES CallsReturn
