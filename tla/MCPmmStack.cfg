CONSTANTS
    Maps <- MCConventional
    KernelSizes = {40000}
    MaxAddrs = {4194304}
SPECIFICATION Spec
INVARIANTS
    KernelStackReserved
