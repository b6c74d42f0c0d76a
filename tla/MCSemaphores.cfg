CONSTANTS
    NPROC = 4
    NSEM = 1
    NSTK = 3
    QUANTUM = 1
    HALF = 8
    INITPRIO = 2
    MaxCount = 1
    Calls = {"create", "kill", "resume", "semcreate", "wait", "signal", "signaln", "semdelete", "semreset"}
    Prios = {2}
    NewPrios = {1}
    Msgs = {0}
    Counts = {0, 1}
    Delays = {1}
    RecvWaits = {1}
    KillAgain = TRUE
SPECIFICATION Spec
INVARIANT QueueStateAgree
INVARIANT SemCountAgree
INVARIANT DeferBalanced
PROPERTY SemaphorePromise
VIEW StateView
