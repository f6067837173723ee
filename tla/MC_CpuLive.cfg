SPECIFICATION FairSpec
CONSTANTS
    XRegs = {0, 1, 8, 30}
    VRegs = {0}
    RamBase <- MC_RamBase
    RamSize <- MC_RamSize
    Decode <- MC_Decode
    MAX_DELTAS_PER_BLOCK = 255
    TRAP_LOG_CAPACITY = 1
    DECODE_CACHE_ENTRIES = 2
    ENABLED_SINK = TRUE
    Images <- MC_LiveImages
    Entry <- MC_Entry
    Budgets = {0, 2}
    HostWords = {36}
    HostCells = {}
    MaxLookups = 4
PROPERTY RunReturns
