SPECIFICATION Spec
CONSTANTS
    Worker = {w1}
    MaxRetry = 0
    NULL = NULL
    Path <- SerialPath
    Data = {"x", "y"}
    Tree <- SerialTree
    Calls <- SerialCalls
    Cacheable <- SomeFiles
    Faults = {"refused"}
    TMPSTR_NB = 5
INVARIANTS NoOrphanCache NothingLost RenameComplete ListsItsDirectory
