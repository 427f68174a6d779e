SPECIFICATION Spec
CONSTANTS
    BLOCK_MAX_DEVICES = 4
    ATA_LBA28_MAX = 11
    U32 = 16
    Attached = {0, 1}
    Size <- MCSize
    Tables <- MCTables
    Lbas = {0, 1, 2, 3, 4, 5, 9, 15}
INVARIANTS
    ReadsOwnSector
    ScanAccountsForAll
