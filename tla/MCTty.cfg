CONSTANTS
    Readers = {r1}
    Writers = {w1, w2}
    TY_IBUFLEN = 4
    TY_OBUFLEN = 3
    TY_EBUFLEN = 5
    UART_FIFO_SIZE = 2
    Counts = {0, 3}
    NOBODY = nobody
    Texts = {"x", "newline"}
SPECIFICATION LiveSpec
INVARIANT OutputInOrder
INVARIANT NothingStuck
PROPERTY LinePromise
PROPERTY WriterServed
PROPERTY LineRead
VIEW StateView
CHECK_DEADLOCK FALSE
