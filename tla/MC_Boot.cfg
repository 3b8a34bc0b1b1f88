SPECIFICATION BootSpec
CONSTANTS
    vmm = vmm
    heap = heap
    Clients <- MC_Clients
    MemoryMaps <- MC_Maps
    BITS_PER_FRAME = 32
    Counts = {1, 2, 3, 4, 5, 6, 7, 8, 9, 10, 11, 17, 18}
    MaxTarget = 8
    HEAP_MAX_PAGES = 25
    PagesPerTable = 8
    UpperTables = 2
    BootTables = 3
    ScreenPages = {3, 8, 10, 17}
INVARIANTS BootInv HeapIffEnough
PROPERTY ComesUpOrPanics
\* the kernel ends in hlt
CHECK_DEADLOCK FALSE
