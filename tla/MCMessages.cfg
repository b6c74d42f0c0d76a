CONSTANTS
    NPROC = 3
    NSEM = 1
    NSTK = 2
    QUANTUM = 1
    HALF = 8
    INITPRIO = 2
    MaxCount = 1
    Calls = {"create", "exit", "kill", "suspend", "resume", "chprio", "send", "receive", "recvclr", "recvtime", "sleep"}
    Prios = {1, 2}
    NewPrios = {1}
    Msgs = {0, 1}
    Counts = {0, 1}
    Delays = {1}
    RecvWaits = {1}
    KillAgain = TRUE
SPECIFICATION Spec
INVARIANT SomethingToRun
INVARIANT NoLostWakeup
VIEW StateView
