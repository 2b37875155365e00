CONSTANTS
    PAGESIZE = 4
    SECTORSIZE = 2
    MEMSIZE = 24
    Images <- ProgramFiles
    Kernels <- KernelFiles
    Rooms = {2, 6}
    LONG = 5
    INT = 4
    NUMBUFSIZ = 3
    Formats <- Calls
    Messages <- Lines
    Sizes = {0, 1, 3, 8}
    PANICBUF = 8
    PANICPREFIX = 2
    Keys <- Typed
    HELD = 2
    NPROC = 4
    HALFSECOND = 2
    TICKS = 5

SPECIFICATION PartsSpec

INVARIANTS
    ImageExact
    BreakBehindImage
    BufferKept
    PanicLine
    ReadsBack
    FieldExact
    ReturnsDocumented
    NoStuckModifier

PROPERTIES
    Terminates
    KeysRead
    ShownAlive
    EveryoneShown

CHECK_DEADLOCK FALSE
