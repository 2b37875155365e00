CONSTANTS
    NPROC = 3
    Calls <- Used
    Stamps = {1, 2}

SPECIFICATION Spec

INVARIANTS
    PageAllocReports

CHECK_DEADLOCK FALSE
