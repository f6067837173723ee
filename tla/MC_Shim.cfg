SPECIFICATION FairShimSpec
CONSTANTS
    XRegs = {0, 1, 2, 3, 4, 5, 8, 30}
    VRegs = {}
    RamBase <- MC_RamBase
    RamSize <- MC_RamSize
    Decode <- MC_Decode
    MaxWord = 255
    PAGE_SIZE = 8
    heap_base <- MC_heap_base
    heap_limit <- MC_heap_limit
    mmap_base <- MC_mmap_base
    mmap_limit <- MC_mmap_limit
    Lengths = {}
    Setups <- MC_Setups
    GuestPcs = {72, 76}
    ShimBudgets = {0, 1, 2}
    MAX_TRANSFER = 4
    MAX_PATH = 3
    UNHANDLED_CAPACITY = 2
    STAT_BYTES = 16
    UTSNAME_BYTES = 18
    HostErrnos = {9}
    MaxIcount = 2
CHECK_DEADLOCK FALSE
INVARIANT ShimTypeOK
INVARIANT BudgetIsExact
INVARIANT GrantsAreUsable
PROPERTY SentIsGatherPrefix
PROPERTY ReturnCountsSent
PROPERTY CallWritesItsResult
PROPERTY ShimReturns
