CONSTANTS
    Slots = {p1, p2, p3}
    NONE = none
    Sessions <- MCSessions
    Jobs = {1, 2}
    Counts = {2, 3}
    Overlap = FALSE
    Consumers = {1, 2, 3}
    Producers = {4, 5}
    Flags = {"EXCLUSIVE", "SHARED"}
    MAX_SIZE = 3
SPECIFICATION LiveSpec
INVARIANT InOrder
INVARIANT FutureSound
INVARIANT ParseIsGrammar
INVARIANT ShellReturns
PROPERTY ShellBack
PROPERTY JobCompletes
PROPERTY ConsumersReturn
CHECK_DEADLOCK FALSE
