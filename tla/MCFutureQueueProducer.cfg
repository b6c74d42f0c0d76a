CONSTANTS
    Consumers = {6, 7}
    Producers = {4, 5}
    MAX_SIZE = 10
    Junk = {0, 7}
SPECIFICATION Spec
PROPERTY ConsumersReturn
CHECK_DEADLOCK FALSE
