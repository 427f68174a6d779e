\* A region of 96 bytes: room for one to three blocks, so that
\* splits, tight fits and merges on both sides all happen.
CONSTANTS
    HEAP_INITIAL_SIZE = 96
    Requests = {0, 3, 12, 77}
SPECIFICATION Spec
INVARIANTS
    ListTilesHeap
    FullyCoalesced
    NoHeapPanic
    DoubleFreeDetected
PROPERTIES
    FirstFit
    KmallocReturns
    AbsSpec
