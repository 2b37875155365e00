CONSTANTS
    NPROC = 4
    PAGESIZE = 2
    NPAGES = 11
    Reserved = {0, 3}
    CONSOLE = 3
    KernelPages = {1}
    PROC_START = 4
    VIRT = 8
    MAPTOP = 9
    NTABLES = 1
    Text = {4}
    Data = {}
    Commands = {1}
    VAMSIZE = 2
    Calls = {"sbrk", "brk", "fork", "exit", "yield", "panic"}
    ForkedCalls = {"fork", "exit", "yield"}
    Increments <- AnyBytes
    Targets = {9, 10, 13}

SPECIFICATION Spec

INVARIANT OwnersActive

CHECK_DEADLOCK FALSE
