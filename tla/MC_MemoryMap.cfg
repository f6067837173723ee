SPECIFICATION MapSpec
CONSTANTS
    MaxWord = 63
    PAGE_SIZE = 4
    heap_base <- MC_heap_base
    heap_limit <- MC_heap_limit
    mmap_base <- MC_mmap_base
    mmap_limit <- MC_mmap_limit
    Lengths <- MC_Lengths
INVARIANT MapTypeOK
INVARIANT NoOverlap
INVARIANT InsideWindows
INVARIANT RefusalIsExhaustion
