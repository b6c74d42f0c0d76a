CONSTANTS
    Procs = {p1, p2, p3}
    NBPOOLS = 2
    NBUFS = 3
    Sizes = {1, 2}
    Killable = {p1}
SPECIFICATION LiveSpec
INVARIANT PoolsSound
PROPERTY Served
CHECK_DEADLOCK FALSE
