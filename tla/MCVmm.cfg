CONSTANTS
    Maps <- MCMaps
    KernelSizes = {4097}
    MaxAddrs = {32768}
    PAGES_PER_TABLE = 8
    HEAP_FIRST = 23
    HEAP_PAGES = 3
    TEST_SHARE = 2
    TEST_MIN = 2
    TEST_MAX = 4
SPECIFICATION SSpec
INVARIANTS
    TablesEditable
    FramesDisjoint
    HeapIsBacked
    PanicMeansExhausted
    SelfTestRestores
