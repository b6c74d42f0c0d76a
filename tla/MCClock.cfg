CONSTANTS
    NPROC = 4
    NSEM = 1
    NSTK = 3
    QUANTUM = 2
    HALF = 8
    INITPRIO = 2
    MaxCount = 1
    Calls = {"create", "resume", "send", "recvtime", "sleep"}
    Prios = {2}
    NewPrios = {1}
    Msgs = {0}
    Counts = {0}
    Delays = {0, 1, 3}
    RecvWaits = {2}
    KillAgain = TRUE
SPECIFICATION LiveSpec
INVARIANT DelaysKept
PROPERTY NeverEarly
PROPERTY ReadyRuns
PROPERTY SleeperWakes
VIEW StateView
