CONSTANTS
    MB = 2
    WSIZE = 1
    minheap = 2
    maxheap = 14
    U32 = 64
    Requests = {1, 2, 3, 4, 5}
SPECIFICATION HeapSpec
INVARIANT HeapSound
