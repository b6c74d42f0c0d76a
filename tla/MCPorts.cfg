CONSTANTS
    Procs = {p1, p2, p3}
    NPORTS = 1
    NMSGS = 2
    U16 = 4
    Counts = {1, 2, 3}
    Killable = {p1}
    MaxSeq = 3
SPECIFICATION LiveSpec
INVARIANT PortsSound
INVARIANT NoStaleMessage
PROPERTY ResetReleases
CHECK_DEADLOCK FALSE
