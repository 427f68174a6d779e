--------------------------------- MODULE Pmm ---------------------------------
(***************************************************************************)
(* The physical memory manager, kernel/core/pmm.c: one bit per 4 KiB frame *)
(* of physical memory, set when the frame is in use.                       *)
(*                                                                         *)
(* `used' is the set of frames whose bit is set; how the bits are packed   *)
(* and scanned word by word is PmmScan's subject, and Finds is what that   *)
(* scan computes.  pmm_init is modelled one loop iteration at a time; a    *)
(* call of the allocator is one action: the PMM is never entered from an   *)
(* interrupt handler.  pmm_panic_u32 halts the machine, so its conditions  *)
(* are the state predicates FreePanics and UnderflowPanics.                *)
(*                                                                         *)
(* MapsAssumption keeps usable memory below 4 GiB, where the 32-bit        *)
(* products frame * PMM_PAGE_SIZE do not wrap.                             *)
(***************************************************************************)
EXTENDS Integers, Sequences, FiniteSets

CONSTANTS
    Maps,          \* the E820 maps the BIOS may report: sequences of entries
    KernelSizes,   \* the values of BootInfo.kernel_size
    MaxAddrs       \* the limits callers pass to pmm_alloc_page_low

PMM_PAGE_SIZE == 4096
PMM_BITMAP_BASE == 131072        \* 0x20000
KERNEL_BASE == 65536             \* 0x10000
BOOTINFO_BASE == 20480           \* 0x5000
USABLE == 1                      \* the E820 type of usable memory

IsUsable(e) == e.type = USABLE

(* The frame after a region, and the frames of 4 GiB.                      *)
EndFrame(base, length) == (base + length + (PMM_PAGE_SIZE - 1)) \div PMM_PAGE_SIZE
FRAMES_4GIB == 1048576

ASSUME MapsAssumption ==
    /\ \A m \in Maps :
          /\ m \in Seq([base : Nat, length : Nat, type : Nat])
          /\ \A k \in 1..Len(m) :
                IsUsable(m[k]) => EndFrame(m[k].base, m[k].length) < FRAMES_4GIB
    /\ KernelSizes \subseteq Nat
    /\ MaxAddrs \subseteq Nat

VARIABLES
    mmap, kernel_size,              \* the BootInfo
    phase,                          \* how far pmm_init has come
    i,                              \* the loop variable of pmm_init
    highest_addr,
    total_blocks, bitmap_size, used, used_blocks,
    last_free_index, last_free_index_low,
    owned                           \* ghost: frames handed out, not yet freed

boot == << mmap, kernel_size >>
cursors == << last_free_index, last_free_index_low >>
vars == << boot, phase, i, highest_addr, total_blocks, bitmap_size, used,
           used_blocks, cursors, owned >>

-----------------------------------------------------------------------------
(* pmm_init.                                                               *)
Init ==
    /\ mmap \in Maps /\ kernel_size \in KernelSizes
    /\ phase = "scan" /\ i = 1 /\ highest_addr = 0
    /\ total_blocks = 0 /\ bitmap_size = 0 /\ used = {} /\ used_blocks = 0
    /\ last_free_index = 0 /\ last_free_index_low = 0
    /\ owned = {}

(* The first loop: the end of the highest usable region.                   *)
ScanEntry ==
    /\ phase = "scan" /\ i <= Len(mmap)
    /\ LET top == mmap[i].base + mmap[i].length IN
       highest_addr' = IF IsUsable(mmap[i]) /\ top > highest_addr
                       THEN top ELSE highest_addr
    /\ i' = i + 1
    /\ UNCHANGED << boot, phase, total_blocks, bitmap_size, used, used_blocks,
                    cursors, owned >>

(* Every frame starts out used.                                            *)
InitBitmap ==
    /\ phase = "scan" /\ i > Len(mmap)
    /\ total_blocks' = EndFrame(highest_addr, 0)
    /\ bitmap_size' = (total_blocks' + 7) \div 8
    /\ used' = 0 .. (total_blocks' - 1)
    /\ used_blocks' = total_blocks'
    /\ last_free_index' = 0 /\ last_free_index_low' = 0
    /\ phase' = "free" /\ i' = 1
    /\ UNCHANGED << boot, highest_addr, owned >>

(* The frames a region touches, clipped to the memory there is.            *)
Frames(base, length) ==
    { f \in 0 .. (total_blocks - 1) :
        /\ length # 0
        /\ f >= base \div PMM_PAGE_SIZE
        /\ f < EndFrame(base, length) }

(* pmm_set and pmm_unset over a set of frames count only the bits that     *)
(* they flip.                                                              *)
CountSetTwice(fs) == used_blocks + Cardinality(fs)
CountSet(fs) == used_blocks + Cardinality(fs \ used)
CountUnset(fs) == used_blocks - Cardinality(fs \cap used)

pmm_mark_region_used(base, length) ==
    /\ used' = used \cup Frames(base, length)
    /\ used_blocks' = CountSet(Frames(base, length))

pmm_mark_region_free(base, length) ==
    /\ used' = used \ Frames(base, length)
    /\ used_blocks' = CountUnset(Frames(base, length))

(* The second loop: usable regions become free.                            *)
FreeEntry ==
    /\ phase = "free" /\ i <= Len(mmap)
    /\ IF IsUsable(mmap[i])
       THEN pmm_mark_region_free(mmap[i].base, mmap[i].length)
       ELSE UNCHANGED << used, used_blocks >>
    /\ i' = i + 1
    /\ UNCHANGED << boot, phase, highest_addr, total_blocks, bitmap_size,
                    cursors, owned >>

FreeDone ==
    /\ phase = "free" /\ i > Len(mmap)
    /\ phase' = "lock" /\ i' = 1
    /\ UNCHANGED << boot, highest_addr, total_blocks, bitmap_size, used,
                    used_blocks, cursors, owned >>

(* The critical regions, in the order in which they are locked: page 0,    *)
(* the kernel, the bitmap, BootInfo with the E820 map.                     *)
Critical ==
    << [base |-> 0, length |-> PMM_PAGE_SIZE],
       [base |-> KERNEL_BASE, length |-> kernel_size],
       [base |-> PMM_BITMAP_BASE, length |-> bitmap_size],
       [base |-> BOOTINFO_BASE, length |-> PMM_PAGE_SIZE] >>

LockRegionStopsEarly ==
    /\ phase = "lock" /\ i \in 1..4
    /\ pmm_mark_region_used(Critical[i].base, Critical[i].length)
    /\ phase' = IF i = 3 THEN "ready" ELSE "lock"
    /\ i' = IF i = 3 THEN 1 ELSE i + 1
    /\ UNCHANGED << boot, highest_addr, total_blocks, bitmap_size, cursors, owned >>

LockRegion ==
    /\ phase = "lock" /\ i \in 1..4
    /\ pmm_mark_region_used(Critical[i].base, Critical[i].length)
    /\ phase' = IF i = 4 THEN "ready" ELSE "lock"
    /\ i' = IF i = 4 THEN 1 ELSE i + 1
    /\ UNCHANGED << boot, highest_addr, total_blocks, bitmap_size, cursors, owned >>

-----------------------------------------------------------------------------
(* pmm_find_free_in_range(start, end) returns f: the first frame of the    *)
(* range whose bit is clear, or -1.                                        *)
Finds(start, end, f) ==
    \/ /\ f \in start .. (end - 1) /\ f \notin used
       /\ \A g \in start .. (f - 1) : g \in used
    \/ f = -1 /\ \A g \in start .. (end - 1) : g \in used

(* pmm_first_free_from(cursor, end): from the cursor to the end, then from *)
(* the start to the cursor.  A cursor at or past the end is reset first.   *)
Restart(cursor, end) == IF cursor >= end THEN 0 ELSE cursor

FirstFree(cursor, end, f) ==
    LET c == Restart(cursor, end) IN
    \/ f # -1 /\ Finds(c, end, f)
    \/ Finds(c, end, -1) /\ Finds(0, c, f)

(* Where the next scan begins after f was handed out.                      *)
CursorAfterSkips(f, end) == IF f + 2 >= end THEN 0 ELSE f + 2
CursorAfter(f, end) == IF f + 1 >= end THEN 0 ELSE f + 1

pmm_set(f) ==
    /\ used' = used \cup {f}
    /\ used_blocks' = CountSet({f})
    /\ owned' = owned \cup {f}

Frozen == << boot, phase, i, highest_addr, total_blocks, bitmap_size >>

AllFrames == 0 .. (total_blocks - 1)
Full == used_blocks >= total_blocks

AllocPage(f) ==
    /\ phase = "ready" /\ ~Full
    /\ FirstFree(last_free_index, total_blocks, f) /\ f # -1
    /\ pmm_set(f)
    /\ last_free_index' = CursorAfter(f, total_blocks)
    /\ UNCHANGED << Frozen, last_free_index_low >>

(* pmm_alloc_page returns 0: the counter says that no frame is free.  That *)
(* the scan fails although the counter says otherwise is ScanMisses.       *)
AllocPageFails ==
    /\ phase = "ready" /\ Full
    /\ UNCHANGED vars

ScanMisses == ~Full /\ FirstFree(last_free_index, total_blocks, -1)

MaxFrame(max_addr) ==
    IF max_addr \div PMM_PAGE_SIZE > total_blocks
    THEN total_blocks ELSE max_addr \div PMM_PAGE_SIZE

AllocPageLow(max_addr, f) ==
    /\ phase = "ready" /\ MaxFrame(max_addr) # 0 /\ ~Full
    /\ FirstFree(last_free_index_low, MaxFrame(max_addr), f) /\ f # -1
    /\ pmm_set(f)
    /\ last_free_index_low' = CursorAfter(f, MaxFrame(max_addr))
    /\ UNCHANGED << Frozen, last_free_index >>

AllocPageLowFails(max_addr) ==
    /\ phase = "ready"
    /\ \/ (MaxFrame(max_addr) = 0 \/ Full) /\ UNCHANGED last_free_index_low
       \/ /\ MaxFrame(max_addr) # 0 /\ ~Full
          /\ FirstFree(last_free_index_low, MaxFrame(max_addr), -1)
          /\ last_free_index_low' = Restart(last_free_index_low, MaxFrame(max_addr))
    /\ UNCHANGED << Frozen, used, used_blocks, last_free_index, owned >>

(* The checks of pmm_free_page and, behind them, of pmm_unset.             *)
FreePanics(f) == f >= total_blocks \/ f \notin used
UnderflowPanics(f) == f \in used /\ used_blocks = 0

(* The cursors follow a frame freed below them, so that gaps are filled.   *)
LowCursorKept(cursor, f) == cursor
Lowered(cursor, f) == IF f < cursor THEN f ELSE cursor

FreePage(f) ==
    /\ phase = "ready" /\ ~FreePanics(f) /\ ~UnderflowPanics(f)
    /\ used' = used \ {f}
    /\ used_blocks' = CountUnset({f})
    /\ last_free_index' = Lowered(last_free_index, f)
    /\ last_free_index_low' = Lowered(last_free_index_low, f)
    /\ owned' = owned \ {f}
    /\ UNCHANGED Frozen

PmmInit == ScanEntry \/ InitBitmap \/ FreeEntry \/ FreeDone \/ LockRegion

Next ==
    \/ PmmInit
    \/ \E f \in AllFrames : AllocPage(f)
    \/ AllocPageFails
    \/ \E m \in MaxAddrs, f \in AllFrames : AllocPageLow(m, f)
    \/ \E m \in MaxAddrs : AllocPageLowFails(m)
    \/ \E f \in owned : FreePage(f)

Spec == Init /\ [][Next]_vars

-----------------------------------------------------------------------------
(* Type invariant.                                                         *)
TypeOK ==
    /\ mmap \in Maps /\ kernel_size \in KernelSizes
    /\ phase \in {"scan", "free", "lock", "ready"}
    /\ i \in Nat \ {0}
    /\ highest_addr \in Nat /\ total_blocks \in Nat /\ bitmap_size \in Nat
    /\ used \subseteq AllFrames
    /\ used_blocks \in Nat
    /\ last_free_index \in Nat /\ last_free_index_low \in Nat
    /\ owned \subseteq AllFrames

(* The counter that pmm_first_free trusts to tell a full machine, and that *)
(* the memory report is made from, is the number of bits set: overlapping  *)
(* E820 entries and overlapping critical regions are counted once.         *)
CounterExact == used_blocks = Cardinality(used)

(* No frame below a cursor is free.  The scan from the cursor therefore    *)
(* sees every free frame and the second scan of pmm_first_free_from never  *)
(* finds one: the allocator is lowest-frame-first, not next-fit.           *)
CursorsSeeAll ==
    \A f \in AllFrames : f < last_free_index \/ f < last_free_index_low => f \in used

(* The frames the kernel, the bitmap, BootInfo and page 0 live in.         *)
Reserved == UNION { Frames(Critical[k].base, Critical[k].length) : k \in 1..4 }

(* From the end of pmm_init on, the critical regions are in use and no     *)
(* caller ever gets one of their frames.                                   *)
CriticalRegionsSafe ==
    phase = "ready" => Reserved \subseteq used /\ Reserved \cap owned = {}

(* A frame a caller holds is marked used, so it is not handed out again,   *)
(* and it touches memory that the BIOS reported as usable.  That all of it *)
(* is usable, as the documents ask, does not hold: OnlyWholePagesFreed of  *)
(* MCPmmDocs.                                                              *)
OwnedTouchUsableRam ==
    \A f \in owned :
        /\ f \in used
        /\ \E k \in 1..Len(mmap) :
              IsUsable(mmap[k]) /\ f \in Frames(mmap[k].base, mmap[k].length)

(* Every frame has an address of 32 bits: frame * PMM_PAGE_SIZE, which     *)
(* pmm_alloc_page returns, and total_blocks * PMM_PAGE_SIZE, which is      *)
(* reported as the size of memory, are below 4 GiB.                        *)
AddressesFit == total_blocks < FRAMES_4GIB

(* A caller that frees a page it holds never meets a panic, and while the  *)
(* counter says that a frame is free pmm_alloc_page finds one.             *)
NoPmmPanic ==
    phase = "ready" => /\ \A f \in owned : ~FreePanics(f) /\ ~UnderflowPanics(f)
                       /\ ~ScanMisses

(* An allocation returns the lowest free frame (below the limit), and 0    *)
(* only if there is none.                                                  *)
LowestFree(end, f) == f \in 0..(end-1) /\ f \notin used /\ \A g \in 0..(f-1) : g \in used
AllocExact ==
    [][ /\ \A f \in AllFrames : AllocPage(f) => LowestFree(total_blocks, f)
        /\ AllocPageFails => AllFrames \subseteq used
        /\ \A m \in MaxAddrs :
              /\ \A f \in AllFrames :
                    AllocPageLow(m, f) => LowestFree(MaxFrame(m), f)
              /\ AllocPageLowFails(m) => 0..(MaxFrame(m) - 1) \subseteq used ]_vars

(* The frame manager is a pool that hands out its lowest frame and takes   *)
(* back what it gave: the cursors, the counter and the limit of            *)
(* pmm_alloc_page_low never show, and no frame is lost or handed out twice.*)
Pool == INSTANCE FramePool WITH
    open <- phase = "ready",
    pool <- IF phase = "ready" THEN AllFrames \ used ELSE {},
    held <- owned
PoolSpec == Pool!Spec
=============================================================================
