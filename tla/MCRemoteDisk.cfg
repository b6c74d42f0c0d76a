CONSTANTS
    NPROC = 2
    NBLOCKS = 2
    Data = {d1, d2}
    NONE = none
    RD_BUFFS = 2
    RD_RETRIES = 2
    MaxLate = 1
    Shared = FALSE
SPECIFICATION LiveSpec
INVARIANT BuffersAccounted
INVARIANT LocalReadCurrent
INVARIANT WritesReachServer
PROPERTY ReadReturns
VIEW StateView
CHECK_DEADLOCK FALSE
