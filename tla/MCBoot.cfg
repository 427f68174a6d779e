CONSTANTS
    SEG = 8
    BATCH = 3
    SECTORS_PER_TRACK = 3
    HEADS_PER_CYLINDER = 2
    CYLINDERS = 8
    KERNEL_LBA = 5
    SECTOR = 2
    MEM = 24
    U16 = 64
    U32 = 1073741824
    Disk <- MCDisk
    KernelSizes = {1, 6, 15, 16, 17, 33, 34}
    Geometries <- MCGeometries
    MENU_POLLS = 2
    WAIT_TICKS = 2
    MaxRegions = 2
SPECIFICATION BootSpec
INVARIANTS
    HandsOverImage
    RefusesOnlyOnFailure
PROPERTIES
    BootEnds
