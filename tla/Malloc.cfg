CONSTANTS
    ALIGN = 2
    HEADER = 4
    PAGESIZE = 4
    WORD = 256
    ORIG = 16
    LIMIT = 52
    PTRSZ = 2
    Requests = {0, 3, 8, 20}
    Arrays <- MCArrays
    Gaps = {0, 6}

SPECIFICATION Spec

INVARIANTS
    ListsWellFormed
    DefragComplete
    InfoExact

PROPERTY ImplementsHeap

CHECK_DEADLOCK FALSE
