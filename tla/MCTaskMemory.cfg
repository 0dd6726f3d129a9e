SPECIFICATION Spec
CONSTANTS
    MaxPid = 4
    Programs <- MCPrograms
    Hello <- MCHello
    KStack = 2
    PageSize = 2
    Levels = 2
    Fan = 4
    FirstFrame = 8
    Limit = 28
INVARIANTS
    Accounted
    MemoryOwn
CHECK_DEADLOCK FALSE
