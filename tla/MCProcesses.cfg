CONSTANTS
    NPROC = 4
    NSEM = 1
    NSTK = 3
    QUANTUM = 1
    HALF = 8
    INITPRIO = 2
    MaxCount = 1
    Calls = {"create", "kill", "resume", "yield", "receive"}
    Prios = {0, 1, 3}
    NewPrios = {1}
    Msgs = {0}
    Counts = {0, 1}
    Delays = {1}
    RecvWaits = {1}
    KillAgain = FALSE
SPECIFICATION Spec
INVARIANT TypeOK
INVARIANT HighestPriorityRuns
INVARIANT ProcessesAccounted
VIEW StateView
