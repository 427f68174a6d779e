CONSTANTS
    ATA_PIO_TIMEOUT = 3
    ATA_LBA28_MAX = 3
    MaxBusy = 4
    Channels <- MCChannels
    Size <- MCSize
    Lbas = {0, 1, 2, 4}
SPECIFICATION Spec
INVARIANTS
    DataAsRequested
    NoPhantomDrive
    CommandsInRange
PROPERTIES
    CallsReturn
