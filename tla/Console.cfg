CONSTANTS
    ROWS = 6
    COLS = 2
    STATUS = 4
    PHYSICAL = 1
    TITLE = 2
    VIRTUAL = 1
    MARGIN = 1
    WIDTH = 1
    POLLS = 2
    p1 = p1
    p2 = p2
    Procs = {p1, p2}
    TwoDigits = {p2}
    Texts <- Words
    Messages <- Lines
    PREFIX = 1
    CALLS = 2

SPECIFICATION Spec

INVARIANTS
    InScreen
    PanicWhole
    UndisturbedWhole

PROPERTIES
    PanicEnds
