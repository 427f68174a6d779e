# A TLA+ model of PyramidOS

PyramidOS is a 32-bit x86 hobby operating system: a BIOS boot loader (stage 1
and stage 2, real-mode assembly), and a single-threaded monolithic kernel in C
that manages memory, takes timer and keyboard interrupts, reads an ATA disk and
runs a command shell. This directory holds TLA+ modules that model the loader's
and the kernel's own logic, TLC configurations that check them on small instances, and TLAPS
proofs of the most important properties for every value of the constants.

## 1. Inventory

### Components, their state and operations

| Component | Source (`kernel/`) | State | Operations |
|---|---|---|---|
| Physical memory manager (PMM) | `core/pmm.c` | frame bitmap at 0x20000, `used_blocks`, `total_blocks`, two cursors | `pmm_init`, `pmm_alloc_page`, `pmm_alloc_page_low`, `pmm_free_page`, `pmm_mark_region_*` |
| Virtual memory manager (VMM) | `core/vmm.c` | page directory and page tables | `vmm_init`, `vmm_map`, `vmm_alloc_page` |
| Heap | `core/heap.c` | doubly linked list of in-band headers over a fixed 1 MiB region | `heap_init`, `kmalloc`, `kfree` |
| Interrupt path | `arch/i386/idt*.`, `drivers/pic.c`, `arch/i386/cpu.h` | interrupt flag, 8259 mask and in-service registers | `isr_handler`, `pic_send_eoi`, `pic_set_mask`, `cpu_idle` |
| Keyboard | `drivers/keyboard.c` | 256-byte ring, shift and caps flags | `keyboard_handler`, `keyboard_get_char`, `keyboard_try_get_char` |
| Timer | `drivers/timer.c` | 64-bit tick counter | `timer_handler`, `timer_get_ticks`, `timer_sleep` |
| ATA driver | `drivers/ata.c` | presence and size of two drives; the device's own registers | `ata_init`, `ata_read_sector` |
| Block layer, MBR | `drivers/block.c`, `ata_block.c`, `mbr.c` | registry of at most 8 devices, heap-allocated partition devices | `block_register`, `ata_block_register_devices`, `mbr_scan_and_register`, partition reads |
| VFS, devfs, pyfs, nullfs | `fs/*.c` | mount table, open-file table, per-file contexts and a lazily filled superblock cache | `vfs_mount`, `vfs_open`, `vfs_read`, `vfs_close` |
| Shell, self test, start-up | `core/shell.c`, `selftest.c`, `main.c` | line buffer | line editing, commands, `k_main`'s order of initialisation |
| RTC, terminal, string, debug | `drivers/rtc.c`, `terminal.c`, `lib/string.c`, `core/debug.c` | CMOS registers, cursor | reading the clock, printing, panic |
| Boot loader | `boot/src/legacy/*.asm` | BootInfo, E820 map, loaded image | disk loading, A20, E820, menus, protected-mode entry |

### How they interact

`k_main` runs everything on one CPU and one stack: PMM, IDT, PIC, VMM, timer,
keyboard, heap, block layer, MBR scan, VFS and mounts, self test, then
interrupts on and the shell. The only concurrency is between this main thread
and the two interrupt handlers (timer, keyboard), which share the tick counter,
the ring buffer and the modifier flags with it, and between the CPU and the
devices (8042, 8259, 8253, ATA). The VMM takes frames from the PMM, the heap
takes pages from the VMM, partitions, file contexts and caches live on the
heap, file systems call block devices through function pointers.

### What is hard here

* the pointer surgery of the heap (splits, two-sided merges) over long call
  sequences;
* redundant state: the PMM's counter and cursors against its bitmap;
* memory that runs out in the middle of start-up, and the competition of page
  tables and data for low memory;
* interrupts between a check and a halt, between two halves of a read, between
  two steps on the ring;
* the hardware handshakes: one edge per 8042 byte, EOI per level, ATA status
  polling with a timeout that a late answer can outlive, a clock that changes
  while its registers are read;
* a loader that fills memory across 64 KiB segments with BIOS calls of which any
  may fail after a part of the transfer;
* partial failures (an I/O error, an exhausted heap or table) that must leave no
  orphan and no half-initialised object behind.

### What makes each part correct

* PMM: the counter and the cursors tell the truth about the bitmap; a frame is
  handed out once, lowest first, and never one that is reserved; a failed
  allocation means that there is none.
* VMM: every paging structure stays reachable for editing, paging and data
  frames never coincide, and start-up fails only for lack of memory.
* Heap: the header list always tiles the region; areas never overlap; freeing
  everything gives the initial heap back; correct callers meet no panic.
* Keyboard and interrupts: no key that is stored sleeps in the ring, the
  keyboard is never left without an interrupt, keys arrive in order.
* Timer and RTC: the count is that of a moment of the call, a sleep is not short
  and ends, a time is read from one second.
* ATA: a successful read is the sector that was asked for; every call returns.
* Block layer and partitions: a name leads to its own sectors or to an error;
  failures leave nothing behind.
* VFS: reads in sequence deliver the file in sequence; every object has exactly
  one owner; a path goes to the nearest mount.
* Shell and terminal: what is executed is what the screen shows, every command
  gives back what it takes, and nothing is drawn outside the screen.
* Self test: it leaves the physical memory as it found it.
* Boot loader: the kernel is entered only with its image in place and with a
  BootInfo that describes it; a sound image is refused only for a failure.

`PROJECT.json` lists each of these hazards at its line, with the properties
aimed at it.

## 2. Plan

In order of importance; "done" marks what this version contains.

1. `Heap` with the abstract `Allocator` it implements, and `HeapProofs` - done.
2. `Pmm` with the abstract `FramePool` it implements, `PmmScan` (the word-mask
   scan), `MemoryProofs` - done.
3. `Keyboard` with the interrupt path and the abstract `BoundedQueue`, and
   `KeyboardProofs` - done.
4. `Timer` and `Rtc`, the clocks, and `ClockProofs` - done.
5. `Vmm`, composed with `Pmm` and the mapping loop of `heap_init`, with its
   proofs in `MemoryProofs` - done.
6. `Ata`, the driver against its two drives, and its proofs in `DiskProofs`
   - done.
7. `Storage`: the block registry, the disks and the partitions, and
   `StorageProofs` - done.
8. `Mounts` and `Vfs`: the mount table with its search, the descriptors and the
   heap objects of the file systems, and `VfsProofs` - done.
9. `Terminal` and `Shell`: the screen, the line editor and the commands across
   early returns, and `ShellProofs` - done.
10. `Boot`: both stages from the first read to the jump to the kernel, with its
    proofs in `DiskProofs` - done.
11. `SelfTest` over `Vmm`, proved in `MemoryProofs` - done.
12. Open: a module of the whole start-up that composes `Vmm`, `Storage` and
    `Vfs` over the `Allocator` that `Heap` implements, in place of the heap
    objects that `Storage` and `Vfs` keep for themselves, and that takes `Pmm`'s
    maps from what `Boot` hands over.

## 3. Modules

Every module names the source file it models in its header comment;
`PROJECT.json` ("map") relates each definition to its lines. Operators that
stand directly before a definition and carry its name with a suffix
(`NewBlockNoHeader`, `GetCharNoCli`, ...) are mutated forms of it: each
property is known to fail when one of them replaces the definition.

**`Allocator`, `Heap`.** The region is seen through its headers: `size`,
`is_free`, `magic`, `next`, `prev` are functions of the offset of a header.
`kmalloc` walks the list one node per action (`KmallocAdvance`, `KmallocTake`,
`KmallocSplit`, `KmallocFail`), `kfree` is one action with both merges.
`ClientWrite` is the caller filling its area: it destroys every header image
it overlaps, which is how an overlap of areas and headers would show. A panic
is a predicate on the state, and the property is that it never holds.
`Allocator` is what callers may rely on: live areas inside the region and
apart from each other.

**`Pmm`.** The bitmap is the set `used`; `pmm_init` takes one action per loop
iteration, an allocator call one action. `Finds` states what the bitmap scan
computes; **`PmmScan`** models the scan itself, word by word with the start and
end masks and the bytes past the bitmap read as 0xFF, and shows that it
computes that. `owned` is a ghost: the frames callers hold. `MapsAssumption`
keeps usable memory below 4 GiB, so that no 32-bit product of the code wraps
(`AddressesFit`). **`FramePool`** is what callers may rely on: a pool, opened
once, that hands out its lowest frame and takes back what it gave. `MCPmm` runs
both modules, each behaviour being one of the allocator or one of the scan;
**`MCPmmDocs`** states what the documents say of the memory left free.

**`Vmm`** extends `Pmm`: each step of `vmm_init` and of `heap_init`'s loop
that needs a frame is a PMM step. Page tables are functions from entries to
frames, reached through the identity map of the first table. **`SelfTest`**
extends `Vmm`: `selftest_pmm`, one page of its batch per action, run after
start-up and again for every `diagnose` on what the last run left.

**`BoundedQueue`, `Keyboard`.** The main thread, the handlers and the devices
are interleaved step by step. `int_flag`, `irr`, `in_service` and `imr` are the
CPU's and the 8259's state; an interrupt is accepted only with the flag set and
not directly after `sti`; the EOI and the way back from it to `iret` are one
step. `keyboard_get_char` and `keyboard_try_get_char` take
one action per access to shared state. `BoundedQueue` is what the shell may
rely on: first in, first out, a key dropped only while the ring is full.

**`Timer`, `Rtc`.** The 64-bit counter is two halves of `HALF` values each, read
in either order with ticks in between, also across the wrap of the low half;
`torn` is a ghost for a wrap inside one read. `timer_sleep` is its loop of
check, `sti`, `hlt`. `Rtc` adds the CMOS clock, which counts a second every
`PERIOD` units and changes its registers during the last `UPDATE` of them, with
the flag set `LEAD` units before. `rtc_get_time` polls the flag and reads one
register per unit, and either interrupt may take `HANDLER` units in between. The
four storage modes (BCD or binary, 12 or 24 hours) are modelled by the values
the registers then have.

**`Ata`.** The driver writes select, sector and command registers and polls,
one register access per action; the device works beside it. It is busy for a
time of its own choice (up to `MaxBusy` polls), ends with data, an error, a
signature or nothing, and does not listen while it is busy or has data. A
sector of data is the record of the command that produced it, so that data of
the wrong command is visible. `late` is a ghost: a wait gave up on a drive that
was still at work.

**`Storage`.** The registry is a sequence, a partition device a record with its
first sector and length in arithmetic modulo `U32`, and a read yields the
drive and sector that it reaches. The scan of the partition table takes one
action per entry and two for an entry that becomes a device, as each of its two
allocations may fail and the second has the first one to give back; the
registration may fail too. `Reprobe` is the self test's second `ata_init`, after which drives
may be gone.

**`Mounts`, `Vfs`.** `Mounts` is the mount table and the search of a path,
character by character, as operators on a table; it is checked against a
reference that says which directories lie above a path. `Vfs` adds the
descriptors and the file systems: each heap object (PyFS mount, file contexts,
superblock cache) is a handle with its kind and its pointer, each byte is known
by its device and place, and every device read may fail, for a read of several
sectors after any of them. Opens and reads that are refused, for want of a
descriptor, a file or memory, are steps that must leave nothing behind.

**`Terminal`, `Shell`.** The screen is a record of cursor and cells with
`term_print` as a recursion over characters, the line wrap and the clearing below the
last row included. `Shell` types into it: `Enter`, `Erase` and `Echo` are the
branches of `shell_run`, and each command is the sequence of its calls that can
fail, with the buffers and the descriptor it holds in `held`. `diskread` has two
returns that skip the reset of the line (`ReturnEarly`), which the ghost
`carried` remembers.

**`Boot`.** One action per BIOS call or loop iteration: the menu poll, A20, E820
entries, header, batches of the loading loop, the fallback from LBA to CHS,
checksum, BootInfo, countdown. Registers are counted in sectors, with the width
of the 16-bit offset as the length `SEG` of a segment. `mem[k]` is the disk sector
whose bytes lie at place `k`, so a sector in the wrong place is visible. A read
may fail after any part of the transfer, and a drive may have another geometry
than the one the CHS fallback assumes.

## 4. Runs

| Run | What it shows | Instance and why it is enough |
|---|---|---|
| `heap` | tiling, coalescing, no panic, double frees caught, first fit, termination, refinement of `Allocator` | 96 bytes, requests of 0, 3, 12 and 77 bytes: one to three blocks, so tight fits, splits, merges left, right and on both sides, exhaustion and rejected sizes all occur; the proofs lift the bound |
| `pmm` | exact counter, reserved regions, exact allocation, refinement of `FramePool`; the scan is exact | ragged, overlapping, zero-length and absent regions, the kernel's real addresses, few free frames so that every history is covered; limits below, inside and above memory. For the scan, bitmaps that end inside a byte, at a byte, at a word and in a third word, with up to two clear bits around the boundaries |
| `pmm_stack`, `pmm_whole` | two disagreements with the documents (below) | conventional memory up to an EBDA at 0x9FC00, inside a page |
| `vmm` | page tables stay editable, frames stay apart, the heap is backed, failure only by exhaustion; the self test restores memory, run after run | 8 entries per table, a heap over two tables, 0 to 6 low and 0 to 4 high frames: memory runs out at every step in some map; batches of 2 to 4 pages in the self test |
| `keyboard` | no lost wakeup, no stuck keyboard, case as typed, FIFO ring, progress | ring of 3 slots: it holds two characters, which shift and caps lock tell apart, so that order, a full ring and every place of the wrap occur; shift down and up, caps lock and a letter. The proof covers every size and every code |
| `clocks` | counter and sleeps tell the time, a date is of one second, every call returns | 14 ticks, low half of 8 values, starts before and at the wrap; delays of 0, 1 and 3; a clock call at every moment of a second of 21 units, which leaves room for the reads and both interrupts (`RtcAssumption`); a second that changes every field and one that carries a digit |
| `ata` | own data, no phantom drives, sectors in range, every call returns | a time-out of 3 polls against drives that stay busy for up to 4: prompt, slow and too slow answers; every channel of up to two drives; a size of 2, and 0 for unknown |
| `storage` | a device name always leads to its own sectors; the scan registers every usable partition it has room for and leaves no orphan | small sectors modulo `U32`, partitions that are empty, extended, at the end of the disk and wrapping; either allocation and the registry failing at each entry |
| `vfs` | reads in sequence across failures, heap matches tables, a path finds the nearest mount and, without doubled slashes, is split there with no leading slash | two descriptors, sectors of two bytes, four heap objects, one fewer than all owners need; every path of up to five characters against tables of up to four mounts at short mount points, in every order |
| `shell` | cursor on the screen, the screen shows the command, nothing held at the prompt | 2 rows of 5 columns and a line of 5 characters: lines that wrap and screens that clear; keys for a command, a sign and a digit; numbers of up to 2 digits fit atoi |
| `boot` | the image is in place, refusals have a reason, the loader ends | segments of 8 sectors, batches of 3, images of one byte up to just over two segments, at their edges; drives of four geometries; up to 2 E820 entries; menu and countdown of 2 rounds |

Named bounds: `MaxWire` (bytes waiting inside the keyboard), `Typist` (shift is
pressed and released in turn; codes that a held key repeats are left to the
proofs), `MaxTicks` and
`Slack` (ticks of a behaviour, and those left at the call of a sleep), `MaxBusy` (polls for which a
drive stays busy), `MaxBytes` (bytes read through one descriptor) and `MaxRegions`
(E820 entries of a BIOS). Widths and lengths that are constants of the code
(`U16`, `U32`, `HALF`, `SEG`, `CMD_BUF_SIZE`, `VGA_COLS`, ...) are scaled down by
the configurations and keep their relation to each other.

### Fairness

* A running CPU executes: weak fairness of the steps of a call (`Heap`,
  `Ata`) and of the boot stages (`Boot`,
  where it includes that a BIOS call returns). The user's choice in an open boot
  menu is not fair: `BootEnds` allows to wait there for ever.
* An ATA drive that has used up its time answers; before that nothing is assumed
  of it.
* `Keyboard` and `Rtc` (with `Timer`) assume strong fairness of the main thread,
  and `Keyboard` of the interrupt path, acceptance and handler: interrupts come at rates (100 Hz,
  keystrokes) that leave the main thread time, and a request that is possible
  again and again is taken. `Keyboard` assumes nothing of the timer and of the
  typist: keys arrive without their help. The timer of `Timer` runs on until the bound (weak fairness).
* `Pmm`, `PmmScan`, `Vmm`, `SelfTest`, `Storage`, `Vfs` and `Shell` state no
  fairness: their properties are safety properties.

### Findings

* `pmm_stack`: `pmm_init` reserves the raw image only; the kernel stack, in
  `.bss`, is left free although the document lists it as reserved.
* `pmm_whole`: `pmm_mark_region_free` rounds outward, so a frame that is usable
  only in part becomes free; `README.md:60` asks to "free only fully usable
  pages: start up, end down", and so does
  `docs/archive/2026-06-03-review/BOOT_MEMORY_LAYOUT.md:86`.

Observations that were made while modelling and have no run of their own:

* `timer_get_ticks` reads 64 bits in two halves with interrupts on; around the
  wrap of the low half (after 497 days) the result can be off by 2^32, while
  `docs/archive/2026-06-03-review/SMOKE_TESTS.md:59` expects that "uptime
  increases over time". `Timer` runs over the wrap, and its properties except
  calls in which it fell between the halves (`torn`).
* A wait of the ATA driver that gives up on a drive at work leaves the driver
  open to the late answer: it never checks that the device is ready before the
  next command, and may take the data of the master for the slave's, although
  `docs/ROADMAP_L2_ARCH.md:83` speaks of "master/slave probing to avoid phantom
  devices". The properties of `Ata` therefore hold up to that moment (`~late`),
  which is as far as the code can carry them.
* For a path with a doubled slash (`/dev//null`) the relative path begins with a
  slash, against the comments in `vfs.c:109` and `devfs.c:137`; the file is then
  not found. `PathsFindTheirMount` excepts such paths from its second half.
* `pyfs_file_read` installs its cache before the device read that fills it
  (`pyfs.c:131`): after a failed read the next one succeeds with uninitialised
  memory. `UnspoiltReadsDeliverFile` excepts such a mount; `ReadsDeliverFile` in
  `Vfs` is the property without the exception, and fails.
* `diskread` returns early when it has no memory or its argument is negative
  (`shell.c:217`, `:223`): no prompt is shown, and the next line is appended to
  the old one. It always asks the master, also when `disk0` is the slave. After a
  line has wrapped, backspace cannot erase it on the screen.
* `README.md:37` lists a command history among the shell's features; the shell
  keeps none.
* `rtc_get_time` ignores the 12-hour bit of status B: in that mode the hours are
  wrong, which `TimeOfOneSecond` excepts.
* Both shift keys share one flag: releasing one while the other is held turns
  shift off.
* The CHS fallback of stage 2 computes with 18 sectors and two heads, also for the
  raw hard disk of `Makefile:193`. A read of other sectors is then noticed by the
  magic and the checksum only, and an image whose checksum field is 0 is not
  checked. The checksum is a sum, which cannot tell all images apart:
  `HandsOverImage` excepts other sectors with the same sum (`SumCollides`), which
  the disk of the instance does not have.
* `setup_boot_info` writes the low 16 bits of the 32-bit `mmap_count`, which
  `bootinfo.h` calls the number of E820 entries: the upper half is what memory
  held. `do_e820` does not bound the entries (508 fit below stage 2).
* `check_a20` restores the byte it changed from a register that meanwhile holds
  the result.
* The bitmap of the PMM at 0x20000 is 64 KiB above the load address of the
  kernel: a larger image would be overwritten by it.

## 5. Proofs

Checked by TLAPS, for every value of the constants that satisfies the named
assumptions (`HeapSizeAssumption`, `RequestsAssumption`, `MapsAssumption`,
`ScanAssumption`, `KeyboardAssumption`, `VmmAssumption`, `SelfTestAssumption`,
`TimerAssumption`, `RtcAssumption`, `AtaAssumption`, `StorageAssumption`,
`MountsAssumption`, `VfsAssumption`, `TerminalAssumption`, `ShellAssumption`,
`BootAssumption`).

* **`HeapProofs`**: the inductive invariant is `HeapInv`. The tiling alone is
  not inductive: a split needs that sizes are multiples of four and headers
  intact (`HeadersGood`), a merge that no two neighbours were free before
  (`FullyCoalesced`), `ClientWrite` that a live area lies inside a used block
  (`LiveAreUsedBlocks`), first fit what the walk has left behind (`WalkInv`),
  and double frees that stale headers of merged blocks still say "free"
  (`FreedStayFree`). From it follow all invariants of the run, `FirstFit`, the
  refinement of `Allocator`, and that a walk only goes to higher addresses
  (`WalkDescends`).
* **`MemoryProofs`**: `PmmInv` adds to the invariants of the run what holds
  while `pmm_init` is under way (`InitInv`, `Locked`), that free frames touch
  usable memory (`FreeAreUsable`) and that the memory found so far ends below
  4 GiB (`TopInv`). `AllocExact` and the refinement of
  `FramePool` follow from it, with `ScanIsLowest` (a scan from a cursor below
  which nothing is free finds the lowest free frame) for both kinds of
  allocation. `VmmInv` carries it through start-up: what each stage finds
  (`StageInv`), that paging frames are low, held and distinct, with the first
  table an identity map (`PagingInv`), and that the pages mapped so far are
  held, distinct and not paging frames (`MappedInv`). `SelfTestInv` adds to it
  which places of the batch hold a page in each loop (`LoopInv`) and that these
  pages are the only frames held beyond those of start-up (`BatchInv`).
  `StartUpIsPmmClient` shows that start-up and self test use the frame manager
  only through its own steps, so every theorem on `Pmm` is one on them; one is
  `StartUpImplementsPool`. For the scan, `ScanInv` says that the words passed
  hold no clear bit of the range, and `CandidateFacts` is the arithmetic of the
  two masks; `ScanComputesFinds` shows that the result is what `Pmm` takes it to
  be.
* **`KeyboardProofs`**: `KeyboardInv` combines which code runs with the
  interrupt flag clear (`FlagInv`), that handlers do not nest and that a level
  in service is that of the running handler (`ServiceInv`), that a reader past
  its check finds a character (`ReaderInv`), and that the slots between the
  pointers hold characters (`RingInv`). The refinement of `BoundedQueue` needs
  the modular arithmetic of the ring for every `KB_BUFFER_SIZE >= 2`.
  `CaseInv` relates the modifier flags to the codes that the handler has seen,
  through every step between the port and the ring; `CaseAsTyped` follows.
* **`DiskProofs`**: for the driver, `AtaInv` says that, until a wait gives up on
  a drive at work, a call begins with a device that listens (`Listens`), that the
  registers and the command under way are the call's own (`OwnCommand`), and that
  requests are in range (`RequestInRange`). `ReturnKeeps` is the common lemma of
  the five ways in which a call returns. `CallLeft` counts the steps that a call
  may still take; it falls with every step of the driver or of a drive. For the
  loader, `BootInv` says that ES:BX, the LBA and the count of sectors left agree
  on the `L` sectors loaded so far, that a batch ends with its segment, and that
  only the places of the batch under way are open while a read may fail in the
  middle (`LoopInv`). `ChsIsExact` is the arithmetic of the address conversion on
  a floppy drive, `SumsAgree` that an image in place has its own checksum. For
  `BootNeverLoops`, a step lowers the `Rank` of its stage or, within a loop, the
  rounds or sectors left (`Remaining`).
* **`StorageProofs`**: `StorageInv` says that every device is a disk found at
  start-up or the partition of an entry already passed, and that names, and with
  them heap objects, are unique (`RegistryInv`); that the heap holds exactly the
  objects of the devices and, between the two allocations of an entry, the
  device being made (`HeapInv`); and which entries have a device while the table
  is scanned (`ScanInv`). `ReadsOwnSector` needs unique names and the exact
  bounds of a partition modulo 2^32.
* **`VfsProofs`**: `VfsInv` gives the mount table of each stage of start-up
  (`MountsInv`), exactly one owner for each heap object (`HeapMatchesTables`) and
  the place of each descriptor in its file (`PlacesInv`), which reads that fail
  in the middle must keep. `PathsFindTheirMount` is about loops: the comparison of
  a path with a mount point and the longest-match search over the table.
* **`ClockProofs`**: `TimerInv` says what a read between its two halves knows of
  the count (`ReadInv`) and that a sleep's target is its delay after the call.
  `RtcInv` bounds how far into the second each register read can be (`age`), from
  the time that the flag, the reads and two interrupts (`Stolen`) leave.
* **`ShellProofs`**: `ShellInv` says that the screen is blank from the cursor on
  (`IsScreen`), that the buffer is the typed line and then NUL (`LineInv`), what
  each stage of a command holds (`HeldInv`), and that the cursor's row reads the
  prompt and the line until the line wraps (`EchoInv`). What `term_print` does to
  the screen is proved by induction over the characters.

Facts about loops (`term_print`, the search of the mount table) are proved by
induction over the natural numbers in a first-order form: a set of naturals that
is not empty has a least member (`LeastOf`, from `WFMin`), so a set that contains
0 and is closed under successor is all of them (`InductionOn`).

The inductive invariants stand at the head of the proof modules, the properties
in the modules of the components.

Five properties are proved and not listed by a run, as the proof says more:
`EmptyHeapIsWhole` (`WholeAgain`), `CursorsSeeAll` (`PmmCursors`), `NoPmmPanic`
(`PmmPanicFree`), `AddressesFit` (`PmmAddressesFit`) and `OwnedTouchUsableRam`
(`PmmOwned`), which is as much as outward rounding leaves of what `pmm_whole`
refutes.

Only model-checked: the liveness properties (`KmallocReturns`, `KeysReachShell`,
`ClockCallsReturn`, `CallsReturn`, `BootEnds`), because the prover does not handle
fairness and ENABLED. For three of them the part that does not need fairness is
proved: `WalkDescends`, `AtaCallsBounded` and `BootNeverLoops` say that no step of
a call of `kmalloc`, of a call of the ATA driver or of the loader is one too many,
for every size, time-out and image. What the runs add is that there always is a
step and that it is taken. `ClockCallsReturn` and `KeysReachShell` depend on the
clock and on interrupts, not on a count of steps.

## 6. Not modelled

* Everything that only draws: fonts, boxes and texts of stage 2, colours and the
  hardware cursor of the terminal, number formatting, the text of panic screens
  and of the commands. `Shell` takes what a command prints as one of a few
  shapes.
* The set-up of constants in hardware: the gates of the IDT, the command words of
  `pic_remap`, the divisor of the PIT, the GDT. They are what `Keyboard` and
  `Timer` start from. The second PIC and spurious interrupts; nested interrupts
  (the kernel never enables them in a handler).
* The copying functions of `lib/string.c`, and the queries that list mounts and
  devices, which change nothing. The code of `main.c` lines 41-184 is disabled
  (`#if 0`).
* Memory above 4 GiB: `MapsAssumption` of `Pmm` excludes it. There `frame * 4096` and
  `total_blocks * 4096` are 32-bit products that wrap, and the address handed out
  would be that of another frame.
* A file or device of 4 GiB or more: the 32-bit position of a descriptor
  (`vfs.c:305`) would wrap and a sequential read start over at sector 0. `Vfs`
  excludes devices of that size.
* A byte that waits in the 8042 before `pic_remap`: `Keyboard` starts with an
  empty port and every key pressed after that point. `keyboard_init` does not
  drain the port, and ICW1 resets the edge detection of the 8259, so a byte left
  there has no request.
* The refusal of a file system name that is too long (`vfs.c:176-178`): every
  caller of `vfs_mount` passes a short constant.
* Non-maskable interrupts. Two halts of stage 2 (`stage2.asm:410-411` and
  `:1672-1673`) are not in a loop, so that one would run on behind them; `Boot`
  takes every halt as final.
* `.bss` is not cleared by `entry.asm`; the modules start from the variables'
  initial values as the kernel's own init functions set them.
* The scancode tables and the byte contents of memory, beyond what the
  properties tell apart.
