CONSTANTS
    NPAGES = 18
    FANOUT = 10
    PROC_START = 8
    Reserved = {0, 6}
    KernelPages = {1, 2, 3, 4, 5}
    KernelTables = 1
    ConsolePage = 6
    RebootTable = 8
    Procs = {p, q}
    UserPages = {10, 20}
    VPages = {1, 6, 10, 20}

SYMMETRY Interchangeable

SPECIFICATION Spec

INVARIANTS
    LookupExact
    KernelReachable
    UserConfined

PROPERTY Implements

CHECK_DEADLOCK FALSE
