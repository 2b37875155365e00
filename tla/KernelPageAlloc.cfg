CONSTANTS
    NPROC = 4
    PAGESIZE = 2
    NPAGES = 10
    Reserved = {0, 3}
    CONSOLE = 3
    KernelPages = {1}
    PROC_START = 4
    VIRT = 8
    MAPTOP = 9
    NTABLES = 1
    Text = {4}
    Data = {}
    Commands = {1, 2}
    VAMSIZE = 2
    Calls = {"sbrk", "brk", "fork", "exit", "yield", "panic", "page_alloc"}
    ForkedCalls = {"fork", "exit", "yield", "panic", "page_alloc"}
    Increments <- WholePages
    Targets = {6, 9, 10, 16, 18}

SPECIFICATION FairSpec

INVARIANTS
    NeverUndercounted
    MappingOwn

PROPERTIES
    EveryoneRuns

CHECK_DEADLOCK FALSE
