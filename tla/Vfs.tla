--------------------------------- MODULE Vfs ---------------------------------
(***************************************************************************)
(* Files: the descriptor table of kernel/fs/vfs.c with the file systems    *)
(* under it, nullfs at /, devfs at /dev and PyFS at /py, and the heap      *)
(* objects that they allocate.                                             *)
(*                                                                         *)
(* Names are single letters: /d for /dev with n (null), z (zero) and the   *)
(* block devices, /p for /py with s (superblock).  A byte of a device is   *)
(* known by the device and its place.  Every read of a device may fail.    *)
(* Calls that fail are steps too: they must leave nothing behind.          *)
(***************************************************************************)
EXTENDS Mounts

CONSTANTS
    VFS_MAX_OPEN_FILES,    \* vfs.h: 32
    SECTOR,                \* sector_size and PYFS_BLOCK_SIZE: 512
    U32,                   \* the uint32_t position wraps here, 2^32
    BlockDevices,          \* the block devices that may be registered
    PyfsDevice,            \* disk0p1
    Sectors,               \* the sectors of each of them
    Handles, NULL,         \* heap objects, and the null pointer
    Paths,                 \* the paths callers open
    Sizes,                 \* the sizes callers ask for
    MaxBytes               \* bound: bytes read through one descriptor

Fds == 0 .. VFS_MAX_OPEN_FILES - 1

(* The three mounts of k_main fit into the table, a position reaches the   *)
(* end of every device, and no device has the name of another file.        *)
ASSUME VfsAssumption ==
    /\ VFS_MAX_OPEN_FILES \in Nat \ {0}
    /\ SECTOR \in Nat \ {0} /\ U32 \in Nat \ {0}
    /\ VFS_MAX_MOUNTS >= 3 /\ VFS_MOUNTPOINT_MAX > 2
    /\ PyfsDevice \in BlockDevices
    /\ BlockDevices \cap {"none", "null", "zero", "superblock"} = {}
    /\ Sectors \in [BlockDevices -> Nat \ {0}]
    /\ \A d \in BlockDevices : Sectors[d] * SECTOR < U32
    /\ NULL \notin Handles
    /\ Paths \subseteq Seq(STRING) /\ Sizes \subseteq Nat /\ MaxBytes \in Nat

VARIABLES
    registered,   \* the block devices
    g_mounts,     \* the mount table
    g_open,       \* the descriptor table
    heap,         \* the allocated heap objects
    pc,           \* where the start-up code is
    got, spoilt,  \* ghosts, for each descriptor: bytes delivered; a fill failed
    last          \* ghost: the last successful read

vars == << registered, g_mounts, g_open, heap, pc, got, spoilt, last >>

DevMount == <<"/", "d">>
PyMount == <<"/", "p">>

Closed == [ops |-> "none", ctx |-> NULL, pos |-> 0]
NoRead == [file |-> "null", start |-> 0, size |-> 0, data |-> << >>, spoilt |-> FALSE]

(* vfs_init, after the block layer.                                        *)
Init ==
    /\ registered \in SUBSET BlockDevices
    /\ g_mounts = << >>
    /\ g_open = [fd \in Fds |-> Closed]
    /\ heap = << >>
    /\ pc = "root"
    /\ got = [fd \in Fds |-> 0] /\ spoilt = [fd \in Fds |-> FALSE]
    /\ last = NoRead

-----------------------------------------------------------------------------
(* The heap.  kmalloc may fail; what it returns is not initialised.        *)
Allocated == DOMAIN heap
With(h, object) == [k \in Allocated \cup {h} |-> IF k = h THEN object ELSE heap[k]]
Without(handles) == [k \in Allocated \ handles |-> heap[k]]

-----------------------------------------------------------------------------
(* The mounts of k_main.                                                   *)
MountRoot ==
    /\ pc = "root" /\ pc' = "dev"
    /\ g_mounts' = WithMount(g_mounts, Root, "nullfs", NULL)
    /\ UNCHANGED << registered, g_open, heap, got, spoilt, last >>

MountDev ==
    /\ pc = "dev" /\ pc' = "py"
    /\ g_mounts' = WithMount(g_mounts, DevMount, "devfs", NULL)
    /\ UNCHANGED << registered, g_open, heap, got, spoilt, last >>

(* pyfs_create and the mount, for a device with a valid superblock.        *)
MountPy(h) ==
    /\ pc = "py" /\ pc' = "run"
    /\ PyfsDevice \in registered /\ h \notin Allocated
    /\ heap' = With(h, [kind |-> "pyfs", link |-> NULL, dev |-> PyfsDevice])
    /\ g_mounts' = WithMount(g_mounts, PyMount, "pyfs", h)
    /\ UNCHANGED << registered, g_open, got, spoilt, last >>

(* No partition, no memory, or a probe that fails and gives up its memory. *)
NoPy ==
    /\ pc = "py" /\ pc' = "run"
    /\ UNCHANGED << registered, g_mounts, g_open, heap, got, spoilt, last >>

-----------------------------------------------------------------------------
(* vfs_open.  devfs_open and pyfs_open make a context; nullfs has no file. *)
FreeFd == {fd \in Fds : g_open[fd].ops = "none" /\ \A k \in 0 .. fd - 1 : g_open[k].ops # "none"}

DevNode(rel) ==
    IF rel = <<"n">> THEN "null"
    ELSE IF rel = <<"z">> THEN "zero"
    ELSE IF Len(rel) = 1 /\ rel[1] \in registered THEN "block"
    ELSE "none"

Opened(fd, ops, h) ==
    /\ g_open' = [g_open EXCEPT ![fd] = [ops |-> ops, ctx |-> h, pos |-> 0]]
    /\ got' = [got EXCEPT ![fd] = 0] /\ spoilt' = [spoilt EXCEPT ![fd] = FALSE]

OpenDev(fd, rel, h) ==
    /\ DevNode(rel) # "none"
    /\ heap' = With(h, [kind |-> "devctx", link |-> NULL,
                        dev |-> IF DevNode(rel) = "block" THEN rel[1] ELSE "none"])
    /\ Opened(fd, DevNode(rel), h)

OpenPy(fd, fs, rel, h) ==
    /\ rel = <<"s">>
    /\ heap' = With(h, [kind |-> "pyctx", link |-> NULL, dev |-> heap[fs].dev])
    /\ Opened(fd, "pyfs", h)

Open(path, h) ==
    LET m == FindMount(g_mounts, path)
        rel == Relative(g_mounts[m].mountpoint, path)
    IN  /\ pc = "run" /\ m # 0 /\ h \notin Allocated
        /\ \E fd \in FreeFd :
              \/ g_mounts[m].fs = "devfs" /\ OpenDev(fd, rel, h)
              \/ g_mounts[m].fs = "pyfs" /\ OpenPy(fd, g_mounts[m].ctx, rel, h)
        /\ UNCHANGED << registered, g_mounts, pc, last >>

(* The error paths: the path is in no mount, all descriptors are in use    *)
(* (the file system is not asked then), the file system has no such file   *)
(* or kmalloc has no memory for its context.                               *)
HasFile(mount, rel) ==
    \/ mount.fs = "devfs" /\ DevNode(rel) # "none"
    \/ mount.fs = "pyfs" /\ rel = <<"s">>

OpenFailsAsksFirst(path) ==
    LET m == FindMount(g_mounts, path)
    IN  /\ pc = "run" /\ m # 0 /\ FreeFd = {}
        /\ HasFile(g_mounts[m], Relative(g_mounts[m].mountpoint, path))
        /\ \E h \in Handles \ Allocated :
              heap' = With(h, [kind |-> "devctx", link |-> NULL, dev |-> "none"])
        /\ UNCHANGED << registered, g_mounts, g_open, pc, got, spoilt, last >>

OpenFails(path) ==
    LET m == FindMount(g_mounts, path)
    IN  /\ pc = "run"
        /\ \/ m = 0 \/ FreeFd = {} \/ Allocated = Handles
           \/ m # 0 /\ ~HasFile(g_mounts[m], Relative(g_mounts[m].mountpoint, path))
        /\ UNCHANGED vars

-----------------------------------------------------------------------------
(* vfs_read.  The position moves by what was read, after a success only.   *)
Ctx(fd) == heap[g_open[fd].ctx]
File(fd) == IF g_open[fd].ops \in {"null", "zero"} THEN g_open[fd].ops ELSE Ctx(fd).dev

DeviceBytes(dev, from, n) == [i \in 1 .. n |-> <<dev, from + i - 1>>]
Zeros(n) == [i \in 1 .. n |-> <<"zero", 0>>]
Garbage(n) == [i \in 1 .. n |-> <<"garbage", 0>>]

Advance(pos, n) == (pos + n) % U32

Delivers(fd, size, data) ==
    /\ pc = "run" /\ got[fd] + Len(data) <= MaxBytes
    /\ g_open' = [g_open EXCEPT ![fd].pos = Advance(@, Len(data))]
    /\ got' = [got EXCEPT ![fd] = @ + Len(data)]
    /\ last' = [file |-> IF g_open[fd].ops = "pyfs" THEN "superblock" ELSE File(fd),
                start |-> got[fd], size |-> size, data |-> data, spoilt |-> spoilt[fd]]
    /\ UNCHANGED << registered, g_mounts, pc, spoilt >>

ReadNull(fd, size) ==
    /\ g_open[fd].ops = "null"
    /\ Delivers(fd, size, << >>)
    /\ UNCHANGED heap

ReadZero(fd, size) ==
    /\ g_open[fd].ops = "zero"
    /\ Delivers(fd, size, Zeros(size))
    /\ UNCHANGED heap

(* devfs_read_block: whole sectors, each of which the device has.          *)
ReadBlock(fd, size) ==
    LET pos == g_open[fd].pos
    IN  /\ g_open[fd].ops = "block"
        /\ pos % SECTOR = 0 /\ size % SECTOR = 0
        /\ \A i \in 0 .. (size \div SECTOR) - 1 : pos \div SECTOR + i < Sectors[Ctx(fd).dev]
        /\ Delivers(fd, size, DeviceBytes(Ctx(fd).dev, SECTOR * (pos \div SECTOR), size))
        /\ UNCHANGED heap

(* The device fails after k sectors, which it reports as read.             *)
PosAfterErrorMoved(pos, out_read) == Advance(pos, out_read)
PosAfterError(pos, out_read) == pos

ReadBlockFails(fd, size, k) ==
    LET pos == g_open[fd].pos
    IN  /\ pc = "run" /\ g_open[fd].ops = "block"
        /\ pos % SECTOR = 0 /\ size % SECTOR = 0
        /\ k * SECTOR < size
        /\ k = 0 \/ pos \div SECTOR + k - 1 < Sectors[Ctx(fd).dev]
        /\ g_open' = [g_open EXCEPT ![fd].pos = PosAfterError(@, k * SECTOR)]
        /\ UNCHANGED << registered, g_mounts, heap, pc, got, spoilt, last >>

(* pyfs_file_read.  The first read fills the cache.                        *)
Remaining(fd) == IF g_open[fd].pos < SECTOR THEN SECTOR - g_open[fd].pos ELSE 0
ToCopy(fd, size) == IF size < Remaining(fd) THEN size ELSE Remaining(fd)

ReadPyFill(fd, size, h) ==
    /\ g_open[fd].ops = "pyfs" /\ Ctx(fd).link = NULL /\ h \notin Allocated
    /\ heap' = [With(h, [kind |-> "cache", link |-> NULL, dev |-> Ctx(fd).dev])
                  EXCEPT ![g_open[fd].ctx].link = h]
    /\ Delivers(fd, size, DeviceBytes(Ctx(fd).dev, g_open[fd].pos, ToCopy(fd, size)))

(* The device fails: the cache stays, with what was in that memory.        *)
ReadPyFillFails(fd, h) ==
    /\ pc = "run"
    /\ g_open[fd].ops = "pyfs" /\ Ctx(fd).link = NULL /\ h \notin Allocated
    /\ heap' = [With(h, [kind |-> "cache", link |-> NULL, dev |-> "none"])
                  EXCEPT ![g_open[fd].ctx].link = h]
    /\ spoilt' = [spoilt EXCEPT ![fd] = TRUE]
    /\ UNCHANGED << registered, g_mounts, g_open, pc, got, last >>

ReadPyCached(fd, size) ==
    /\ g_open[fd].ops = "pyfs" /\ Ctx(fd).link # NULL
    /\ Delivers(fd, size,
                IF heap[Ctx(fd).link].dev = "none" THEN Garbage(ToCopy(fd, size))
                ELSE DeviceBytes(Ctx(fd).dev, g_open[fd].pos, ToCopy(fd, size)))
    /\ UNCHANGED heap

(* A block device is asked for parts of sectors, or there is no memory for *)
(* the cache of a PyFS file.                                               *)
ReadRefused(fd, size) ==
    /\ pc = "run"
    /\ \/ /\ g_open[fd].ops = "block"
          /\ g_open[fd].pos % SECTOR # 0 \/ size % SECTOR # 0
       \/ /\ g_open[fd].ops = "pyfs" /\ Ctx(fd).link = NULL
          /\ Allocated = Handles
    /\ UNCHANGED vars

-----------------------------------------------------------------------------
(* vfs_close, with devfs_close and pyfs_file_close.                        *)
Owned(fd) == {g_open[fd].ctx} \cup ({Ctx(fd).link} \ {NULL})
Close(fd) ==
    /\ pc = "run" /\ g_open[fd].ops # "none"
    /\ heap' = Without(Owned(fd))
    /\ g_open' = [g_open EXCEPT ![fd] = Closed]
    /\ got' = [got EXCEPT ![fd] = 0] /\ spoilt' = [spoilt EXCEPT ![fd] = FALSE]
    /\ UNCHANGED << registered, g_mounts, pc, last >>

Next ==
    \/ MountRoot \/ MountDev \/ NoPy
    \/ \E h \in Handles : MountPy(h) \/ \E path \in Paths : Open(path, h)
    \/ \E path \in Paths : OpenFails(path)
    \/ \E fd \in Fds :
          \/ \E size \in Sizes :
                \/ ReadNull(fd, size) \/ ReadZero(fd, size) \/ ReadBlock(fd, size)
                \/ \E k \in 0 .. size : ReadBlockFails(fd, size, k)
                \/ ReadRefused(fd, size)
                \/ ReadPyCached(fd, size) \/ \E h \in Handles : ReadPyFill(fd, size, h)
          \/ \E h \in Handles : ReadPyFillFails(fd, h)
          \/ Close(fd)

Spec == Init /\ [][Next]_vars

-----------------------------------------------------------------------------
(* Reads in sequence deliver a file in sequence: each starts where the     *)
(* last successful one ended, whatever failed in between, and is short     *)
(* only at the end of the file.                                            *)
FileSize(file) ==
    IF file = "null" THEN 0 ELSE IF file = "superblock" THEN SECTOR ELSE Sectors[file] * SECTOR

Expected(file, start, size) ==
    IF file = "zero" THEN Zeros(size)
    ELSE LET rest == FileSize(file) - start
         IN  DeviceBytes(IF file = "superblock" THEN PyfsDevice ELSE file,
                         start, IF size < rest THEN size ELSE rest)

ReadsDeliverFile == last.data = Expected(last.file, last.start, last.size)

(* The same for descriptors on which the fill of a PyFS cache did not fail *)
(* before.                                                                 *)
UnspoiltReadsDeliverFile == ~last.spoilt => ReadsDeliverFile

(* The search, for every table that the mounts of k_main and further calls *)
(* of vfs_mount can make in whatever order: an absolute path belongs to    *)
(* the nearest directory above it that is mounted, and a path without      *)
(* doubled slashes is split there into the mount point and a relative path *)
(* that has no leading slash, as the comments of vfs_find_mount and        *)
(* devfs_open say.                                                         *)
PathsFindTheirMount ==
    pc # "run" =>
        \A calls \in MountCalls, path \in SearchPaths :
            /\ Absolute(path) => IsNearest(TableAfter(g_mounts, calls), path)
            /\ ~DoubledSlash(path) => IsSplit(TableAfter(g_mounts, calls), path)

(* The heap and the tables agree after every call: what is allocated is    *)
(* owned by the mount of PyFS or by exactly one open descriptor, and what  *)
(* they own is allocated and of the kind they take it for.  So nothing     *)
(* leaks, nothing is used after it was freed or freed twice.               *)
MountOwned == {g_mounts[i].ctx : i \in DOMAIN g_mounts} \ {NULL}
OpenFds == {fd \in Fds : g_open[fd].ops # "none"}

HeapMatchesTables ==
    /\ Allocated = MountOwned \cup UNION {Owned(fd) : fd \in OpenFds}
    /\ \A fd \in OpenFds :
          /\ Owned(fd) \cap MountOwned = {}
          /\ \A other \in OpenFds \ {fd} : Owned(fd) \cap Owned(other) = {}
          /\ Ctx(fd).kind = IF g_open[fd].ops = "pyfs" THEN "pyctx" ELSE "devctx"
          /\ Ctx(fd).link # NULL => heap[Ctx(fd).link].kind = "cache"
    /\ \A h \in MountOwned : heap[h].kind = "pyfs"
=============================================================================
