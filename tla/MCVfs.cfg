SPECIFICATION Spec
CONSTANTS
    VFS_MAX_MOUNTS = 4
    VFS_MOUNTPOINT_MAX = 4
    MountCalls <- MCMountCalls
    SearchPaths <- MCSearchPaths
    VFS_MAX_OPEN_FILES = 2
    SECTOR = 2
    U32 = 8
    BlockDevices = {"k", "q"}
    PyfsDevice = "q"
    Sectors <- MCSectors
    Paths <- MCPaths
    h1 = h1
    h2 = h2
    h3 = h3
    h4 = h4
    Handles <- MCHandles
    NULL = NULL
    Sizes = {0, 1, 2, 4}
    MaxBytes = 9
SYMMETRY HandleSymmetry
INVARIANTS
    UnspoiltReadsDeliverFile
    HeapMatchesTables
    PathsFindTheirMount
