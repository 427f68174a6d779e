CONSTANTS
    Maps <- MCMaps
    KernelSizes = {0, 4097}
    MaxAddrs = {4095, 16384, 4194304}
    Totals = {3, 32, 37, 66}
    Clear <- MCClear
    Args <- MCArgs
SPECIFICATION MCSpec
INVARIANTS
    CounterExact
    CriticalRegionsSafe
    ScanExact
PROPERTIES
    AllocExact
    PoolSpec
