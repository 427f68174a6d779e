---------------------------- MODULE MemoryProofs ----------------------------
(***************************************************************************)
(* Proofs about memory, for every size of memory, map, window and heap:    *)
(* the frame manager of Pmm, the page tables and the heap window of Vmm    *)
(* that start-up builds with it, the self test of the frame manager, and   *)
(* the scan of its bitmap.                                                 *)
(***************************************************************************)
EXTENDS SelfTest, PmmScan, FiniteSetTheorems, SequenceTheorems, TLAPS

-----------------------------------------------------------------------------
(* The inductive invariant: what holds while pmm_init runs, and why it is  *)
(* enough afterwards.                                                      *)
Touches(f, e) == IsUsable(e) /\ f \in Frames(e.base, e.length)

InitInv ==
    /\ phase = "scan" => used = {} /\ used_blocks = 0 /\ total_blocks = 0
    /\ phase = "lock" => i <= 4
    /\ phase # "ready" => /\ owned = {}
                          /\ last_free_index = 0 /\ last_free_index_low = 0

FreeAreUsable ==
    \A f \in AllFrames \ used : \E k \in 1..Len(mmap) : Touches(f, mmap[k])

Locked ==
    \A k \in 1..4 : (phase = "ready" \/ (phase = "lock" /\ k < i)) =>
        Frames(Critical[k].base, Critical[k].length) \subseteq used

OwnedInv == owned \subseteq used /\ (phase = "ready" => Reserved \cap owned = {})

PmmInv ==
    /\ TypeOK
    /\ CounterExact
    /\ CursorsSeeAll
    /\ InitInv
    /\ FreeAreUsable
    /\ Locked
    /\ OwnedInv
    /\ OwnedTouchUsableRam

-----------------------------------------------------------------------------
(* The inductive invariant.  heap_init has mapped the pages in Done, and   *)
(* nothing else above the identity map; DataFrames are behind them.        *)
Done == HEAP_FIRST .. (page - 1)
Mappable == PAGES_PER_TABLE .. (PAGES_PER_TABLE * (PdIndex(HeapEnd - 1) + 1) - 1)
DataFrames == { Translate(v) : v \in Done }

VTypeOK ==
    /\ at \in { "pmm_init", "directory", "first_table", "heap_init", "map", "ready", "panic" }
    /\ page \in HEAP_FIRST .. HeapEnd /\ phys \in Int /\ page_directory \in Int
    /\ pde \in [Directory -> Tables \cup {NULL}]
    /\ pte \in [Tables -> [Entries -> Int]]

(* What each step of start-up finds.                                       *)
StageInv ==
    /\ at = "pmm_init" <=> phase # "ready"
    /\ at \in {"pmm_init", "directory"} <=> page_directory = NULL /\ at # "panic"
    /\ at \in {"pmm_init", "directory", "first_table"} => Tables = {}
    /\ at \in {"heap_init", "map", "ready"} => pde[0] # NULL
    /\ at = "map" => phys # NULL /\ page < HeapEnd
    /\ phys # NULL => at \in {"map", "panic"}
    /\ at = "ready" => page = HeapEnd

PagingInv ==
    /\ Paging \ {NULL} \subseteq owned \cap Entries
    /\ page_directory \notin Tables /\ NULL \notin Tables
    /\ \A d, e \in Directory : d # e /\ pde[d] # NULL => pde[d] # pde[e]
    /\ pde[0] # NULL => \A e \in Entries : pte[pde[0]][e] = e

MappedInv ==
    /\ \A v \in Done : Present(v)
    /\ DataFrames \cup ({phys} \ {NULL}) \subseteq owned \ Paging
    /\ phys \notin DataFrames
    /\ \A v, w \in Done : Translate(v) = Translate(w) => v = w
    /\ \A v \in Mappable : Present(v) => v \in Done

VmmInv ==
    /\ PmmInv
    /\ VTypeOK
    /\ StageInv
    /\ PagingInv
    /\ MappedInv
    /\ PanicMeansExhausted

-----------------------------------------------------------------------------
(* The inductive invariant: what the test holds, in which loop, on top of  *)
(* what was allocated before.  It never comes to the end that fails.       *)
TestPages == { pmm_test_pages[k] : k \in 1..Batch } \ {NULL}

TestTypeOK ==
    /\ test \in {"off", "batch", "every_other", "gaps", "cleanup", "compare"}
    /\ pmm_test_pages \in Seq(Int)
    /\ ti \in Nat \ {0} /\ rc \in Int /\ free_before \in Nat

BatchInv == test # "off" =>
    /\ at = "ready" /\ ti <= Batch /\ Batch <= free_before
    /\ total_blocks = free_before + Cardinality(used \ TestPages)
    /\ owned = ownedBefore \cup TestPages /\ ownedBefore \cap TestPages = {}
    /\ (Paging \cup DataFrames) \ {NULL} \subseteq ownedBefore
    /\ \A j, k \in 1..Batch :
          pmm_test_pages[j] = pmm_test_pages[k] /\ pmm_test_pages[j] # NULL => j = k

LoopInv ==
    /\ at # "ready" => rc = NoRc
    /\ test = "batch" => \A k \in 1..Batch : pmm_test_pages[k] = NULL <=> k >= ti
    /\ test = "every_other" =>
          /\ ti % 2 = 1
          /\ \A k \in 1..Batch :
                IF k < ti /\ k % 2 = 1 THEN pmm_test_pages[k] = NULL
                                      ELSE pmm_test_pages[k] # NULL
    /\ test = "gaps" =>
          /\ ti % 2 = 1
          /\ \A k \in ti..Batch : k % 2 = 1 => pmm_test_pages[k] = NULL
    /\ test = "cleanup" => \A k \in 1..(ti - 1) : pmm_test_pages[k] = NULL
    /\ test = "compare" => TestPages = {}

SelfTestInv ==
    /\ VmmInv
    /\ TestTypeOK
    /\ BatchInv
    /\ LoopInv
    /\ SelfTestRestores

-----------------------------------------------------------------------------
(* Behind the loop of the scan: the words passed hold no clear bit of the  *)
(* range.                                                                  *)
ScanInv ==
    /\ blocks \in Nat /\ clear \subseteq 0 .. (blocks - 1)
    /\ start_frame \in 0 .. blocks /\ end_frame \in 0 .. blocks
    /\ word_index \in Nat /\ pc \in {"enter", "loop", "done"}
    /\ pc = "enter" => result = -1
    /\ pc = "loop" => /\ result = -1 /\ start_frame < end_frame
                      /\ word_index >= start_word
                      /\ \A g \in start_frame .. (end_frame - 1) :
                            g < word_index * WORD_BITS => g \notin clear
    /\ ScanExact

-----------------------------------------------------------------------------
(* The set of used frames is finite, and the counter's arithmetic is that  *)
(* of its cardinality.                                                     *)
LEMMA UsedFinite ==
    ASSUME TypeOK
    PROVE  /\ IsFiniteSet(used) /\ Cardinality(used) \in Nat
           /\ \A fs \in SUBSET AllFrames : IsFiniteSet(fs)
<1>1. IsFiniteSet(AllFrames)
    BY FS_Interval DEF TypeOK, AllFrames
<1>2. \A fs \in SUBSET AllFrames : IsFiniteSet(fs)
    BY <1>1, FS_Subset
<1> QED BY <1>2, FS_CardinalityType DEF TypeOK

LEMMA CountSetExact ==
    ASSUME TypeOK, CounterExact, NEW fs \in SUBSET AllFrames
    PROVE  CountSet(fs) = Cardinality(used \cup fs) /\ CountSet(fs) \in Nat
<1> DEFINE new == fs \ used
<1>1. IsFiniteSet(used) /\ IsFiniteSet(new) /\ IsFiniteSet(used \cup fs)
    BY UsedFinite, FS_Subset, FS_Union
<1>2. used \cap new = {} /\ used \cup new = used \cup fs
    OBVIOUS
<1>3. Cardinality(used \cup new) = Cardinality(used) + Cardinality(new) - Cardinality(used \cap new)
    BY <1>1, FS_Union
<1>4. Cardinality(used \cap new) = 0
    BY <1>2, FS_EmptySet
<1>5. Cardinality(used) \in Nat /\ Cardinality(new) \in Nat
    BY <1>1, FS_CardinalityType
<1>6. Cardinality(used \cup fs) = used_blocks + Cardinality(new)
  <2> HIDE DEF new
  <2>1. Cardinality(used \cup fs) = Cardinality(used) + Cardinality(new) - 0
      BY <1>2, <1>3, <1>4
  <2> QED BY <1>5, <2>1 DEF CounterExact
<1> QED BY <1>5, <1>6 DEF CountSet, TypeOK

LEMMA CountUnsetExact ==
    ASSUME TypeOK, CounterExact, NEW fs \in SUBSET AllFrames
    PROVE  CountUnset(fs) = Cardinality(used \ fs) /\ CountUnset(fs) \in Nat
<1>1. IsFiniteSet(used) /\ IsFiniteSet(used \ fs)
    BY UsedFinite, FS_Difference
<1>2. Cardinality(used \ fs) = Cardinality(used) - Cardinality(used \cap fs)
    BY <1>1, FS_Difference
<1>3. used \cap fs = fs \cap used
    OBVIOUS
<1>4. Cardinality(used \ fs) \in Nat
    BY <1>1, FS_CardinalityType
<1> QED BY <1>2, <1>3, <1>4 DEF CountUnset, CounterExact

(* A counter that says full is right.                                      *)
LEMMA FullMeansFull ==
    ASSUME TypeOK, CounterExact, Full
    PROVE  used = AllFrames
<1>1. IsFiniteSet(AllFrames) /\ Cardinality(AllFrames) = total_blocks
    BY FS_Interval DEF TypeOK, AllFrames
<1>2. used \in SUBSET AllFrames
    BY DEF TypeOK
<1>3. Cardinality(used) <= total_blocks /\ (total_blocks = Cardinality(used) => AllFrames = used)
    BY <1>1, <1>2, FS_Subset
<1> QED BY <1>3 DEF Full, CounterExact, TypeOK

(* With nothing free below the cursor, the scan finds the lowest free      *)
(* frame of the range, or shows that the range is full.                    *)
LEMMA ScanIsLowest ==
    ASSUME NEW c \in Nat, NEW end \in Nat, NEW f \in Int,
           \A g \in AllFrames : g < c => g \in used,
           end <= total_blocks, total_blocks \in Nat,
           FirstFree(c, end, f)
    PROVE  /\ f # -1 => LowestFree(end, f)
           /\ f = -1 => \A g \in 0..(end-1) : g \in used
<1> DEFINE r == Restart(c, end)
<1>1. r \in Nat /\ (\A g \in 0..(r-1) : g \in used) /\ (r = 0 \/ r < end)
    BY DEF Restart, AllFrames
<1>2. f # -1 /\ Finds(r, end, f) => LowestFree(end, f)
    BY <1>1 DEF Finds, LowestFree
<1>3. Finds(r, end, -1) /\ Finds(0, r, f) => f = -1 /\ \A g \in 0..(end-1) : g \in used
    BY <1>1 DEF Finds
<1> QED BY <1>2, <1>3 DEF FirstFree

-----------------------------------------------------------------------------
LEMMA InitPmmInv == Init => PmmInv
<1> SUFFICES ASSUME Init PROVE PmmInv
    OBVIOUS
<1> USE DEF Init
<1>1. AllFrames = {}
    BY DEF AllFrames
<1>2. TypeOK
    BY DEF TypeOK
<1>3. CounterExact
    BY FS_EmptySet DEF CounterExact
<1>4. CursorsSeeAll /\ InitInv /\ FreeAreUsable
    BY <1>1 DEF CursorsSeeAll, InitInv, FreeAreUsable
<1>5. Locked /\ OwnedInv /\ OwnedTouchUsableRam
    BY DEF Locked, OwnedInv, OwnedTouchUsableRam
<1> QED BY <1>2, <1>3, <1>4, <1>5 DEF PmmInv

(* The entries of the map are well formed.                                 *)
LEMMA EntryFacts ==
    ASSUME TypeOK, i <= Len(mmap)
    PROVE  mmap[i].base \in Nat /\ mmap[i].length \in Nat /\ i \in 1..Len(mmap)
<1>1. mmap \in Seq([base : Nat, length : Nat, type : Nat]) /\ i \in Nat \ {0}
    BY MapsAssumption DEF TypeOK
<1>2. i \in 1..Len(mmap)
    BY <1>1
<1>3. mmap[i] \in [base : Nat, length : Nat, type : Nat]
    BY <1>1, <1>2, ElementOfSeq
<1> QED BY <1>2, <1>3

(* Frames only depends on the number of frames, which pmm_init sets once.  *)
LEMMA FramesSame ==
    ASSUME total_blocks' = total_blocks
    PROVE  /\ \A b, l : Frames(b, l)' = Frames(b, l)
           /\ \A b, l : Frames(b, l) \subseteq AllFrames
           /\ AllFrames' = AllFrames
BY DEF Frames, AllFrames

LEMMA IntervalSize ==
    ASSUME NEW n \in Nat
    PROVE  Cardinality(0 .. (n - 1)) = n
<1>1. Cardinality(0 .. (n - 1)) = IF 0 > n - 1 THEN 0 ELSE (n - 1) - 0 + 1
    BY FS_Interval
<1> QED BY <1>1

LEMMA StepScanEntry ==
    ASSUME PmmInv, ScanEntry
    PROVE  PmmInv'
<1> USE DEF PmmInv, ScanEntry, boot, cursors
<1>1. mmap[i].base \in Nat /\ mmap[i].length \in Nat
    BY EntryFacts
<1>2. highest_addr' \in Nat
    BY <1>1 DEF TypeOK
<1>3. AllFrames' = AllFrames /\ \A b, l : Frames(b, l)' = Frames(b, l)
    BY FramesSame
<1>4. TypeOK'
    BY <1>2, <1>3 DEF TypeOK
<1>5. CounterExact' /\ CursorsSeeAll' /\ InitInv'
    BY <1>3 DEF CounterExact, CursorsSeeAll, InitInv
<1>6. FreeAreUsable'
    BY <1>3 DEF FreeAreUsable, Touches
<1>7. Locked' /\ OwnedInv' /\ OwnedTouchUsableRam'
    BY DEF Locked, OwnedInv, OwnedTouchUsableRam, InitInv
<1> QED BY <1>4, <1>5, <1>6, <1>7

LEMMA StepInitBitmap ==
    ASSUME PmmInv, InitBitmap
    PROVE  PmmInv'
<1> USE DEF PmmInv, InitBitmap, boot
<1>1. total_blocks' \in Nat /\ bitmap_size' \in Nat
  <2>1. highest_addr \in Nat
      BY DEF TypeOK
  <2>2. total_blocks' \in Nat
      BY <2>1 DEF EndFrame, PMM_PAGE_SIZE
  <2> QED BY <2>2
<1>2. used' = AllFrames' /\ owned' = {}
    BY DEF AllFrames, InitInv
<1>3. TypeOK'
    BY <1>1, <1>2 DEF TypeOK
<1>4. CounterExact'
    BY <1>1, IntervalSize DEF CounterExact
<1>5. CursorsSeeAll' /\ InitInv' /\ FreeAreUsable'
    BY <1>2 DEF CursorsSeeAll, InitInv, FreeAreUsable
<1>6. Locked' /\ OwnedInv' /\ OwnedTouchUsableRam'
    BY <1>2 DEF Locked, OwnedInv, OwnedTouchUsableRam
<1> QED BY <1>3, <1>4, <1>5, <1>6

LEMMA StepFreeEntry ==
    ASSUME PmmInv, FreeEntry
    PROVE  PmmInv'
<1> USE DEF PmmInv
<1>0. /\ phase = "free" /\ phase' = "free" /\ i' = i + 1 /\ mmap' = mmap
      /\ kernel_size' = kernel_size /\ highest_addr' = highest_addr
      /\ total_blocks' = total_blocks /\ bitmap_size' = bitmap_size
      /\ last_free_index' = last_free_index /\ last_free_index_low' = last_free_index_low
      /\ owned' = owned
    BY DEF FreeEntry, boot, cursors
<1>1. i \in 1..Len(mmap)
    BY EntryFacts DEF FreeEntry
<1>2. AllFrames' = AllFrames /\ \A b, l : Frames(b, l)' = Frames(b, l) /\ Frames(b, l) \subseteq AllFrames
    BY <1>0, FramesSame
<1> DEFINE fs == IF IsUsable(mmap[i]) THEN Frames(mmap[i].base, mmap[i].length) ELSE {}
<1>3. used' = used \ fs /\ used_blocks' = Cardinality(used \ fs) /\ used_blocks' \in Nat
  <2>1. CASE IsUsable(mmap[i])
      BY <1>2, <2>1, CountUnsetExact DEF FreeEntry, pmm_mark_region_free
  <2>2. CASE ~IsUsable(mmap[i])
    <3>1. used \ fs = used
        BY <2>2
    <3> QED BY <2>2, <3>1 DEF FreeEntry, CounterExact, TypeOK
  <2> QED BY <2>1, <2>2
<1>4. \A f \in fs : Touches(f, mmap[i])
    BY DEF Touches
<1> HIDE DEF fs
<1>5. TypeOK'
    BY <1>0, <1>2, <1>3 DEF TypeOK
<1>6. CounterExact'
    BY <1>3 DEF CounterExact
<1>7. CursorsSeeAll' /\ InitInv'
  <2>1. last_free_index = 0 /\ last_free_index_low = 0 /\ owned = {}
      BY <1>0 DEF InitInv
  <2> QED BY <1>0, <1>2, <2>1 DEF CursorsSeeAll, InitInv, AllFrames, TypeOK
<1>8. FreeAreUsable'
  <2> SUFFICES ASSUME NEW f \in AllFrames, f \notin used'
               PROVE  \E k \in 1..Len(mmap) : Touches(f, mmap[k])
      BY <1>0, <1>2 DEF FreeAreUsable, Touches
  <2>1. CASE f \in fs
      BY <1>1, <1>4, <2>1
  <2>2. CASE f \notin fs
      BY <1>3, <2>2 DEF FreeAreUsable
  <2> QED BY <2>1, <2>2
<1>9. Locked' /\ OwnedInv' /\ OwnedTouchUsableRam'
    BY <1>0 DEF Locked, OwnedInv, OwnedTouchUsableRam, InitInv
<1> QED BY <1>5, <1>6, <1>7, <1>8, <1>9

LEMMA StepFreeDone ==
    ASSUME PmmInv, FreeDone
    PROVE  PmmInv'
<1> USE DEF PmmInv, FreeDone, boot, cursors
<1>1. AllFrames' = AllFrames /\ \A b, l : Frames(b, l)' = Frames(b, l)
    BY FramesSame
<1>2. TypeOK'
    BY <1>1 DEF TypeOK
<1>3. CounterExact' /\ CursorsSeeAll' /\ InitInv'
    BY <1>1 DEF CounterExact, CursorsSeeAll, InitInv
<1>4. FreeAreUsable'
    BY <1>1 DEF FreeAreUsable, Touches
<1>5. Locked' /\ OwnedInv' /\ OwnedTouchUsableRam'
    BY DEF Locked, OwnedInv, OwnedTouchUsableRam, InitInv
<1> QED BY <1>2, <1>3, <1>4, <1>5

LEMMA StepLockRegion ==
    ASSUME PmmInv, LockRegion
    PROVE  PmmInv'
<1> USE DEF PmmInv
<1> DEFINE fs == Frames(Critical[i].base, Critical[i].length)
<1>0. /\ phase = "lock" /\ i \in 1..4
      /\ phase' = IF i = 4 THEN "ready" ELSE "lock"
      /\ i' = IF i = 4 THEN 1 ELSE i + 1
      /\ mmap' = mmap /\ kernel_size' = kernel_size /\ highest_addr' = highest_addr
      /\ total_blocks' = total_blocks /\ bitmap_size' = bitmap_size
      /\ last_free_index' = last_free_index /\ last_free_index_low' = last_free_index_low
      /\ owned' = owned
      /\ used' = used \cup fs /\ used_blocks' = CountSet(fs)
    BY DEF LockRegion, pmm_mark_region_used, boot, cursors
<1>1. AllFrames' = AllFrames /\ \A b, l : Frames(b, l)' = Frames(b, l) /\ Frames(b, l) \subseteq AllFrames
    BY <1>0, FramesSame
<1>2. used_blocks' = Cardinality(used \cup fs) /\ used_blocks' \in Nat
    BY <1>0, <1>1, CountSetExact
<1>3. Critical' = Critical
    BY <1>0 DEF Critical
<1>4. \A k \in 1..4 : k <= i => Frames(Critical[k].base, Critical[k].length) \subseteq used'
    BY <1>0 DEF Locked
<1> HIDE DEF fs
<1>5. TypeOK'
    BY <1>0, <1>1, <1>2 DEF TypeOK, fs
<1>6. CounterExact'
    BY <1>0, <1>2 DEF CounterExact
<1>7. CursorsSeeAll' /\ InitInv'
    BY <1>0, <1>1 DEF CursorsSeeAll, InitInv
<1>8. FreeAreUsable'
    BY <1>0, <1>1 DEF FreeAreUsable, Touches
<1>9. Locked'
  <2> SUFFICES ASSUME NEW k \in 1..4, phase' = "ready" \/ (phase' = "lock" /\ k < i')
               PROVE  Frames(Critical[k].base, Critical[k].length) \subseteq used'
      BY <1>1, <1>3 DEF Locked
  <2>1. k <= i
      BY <1>0
  <2> QED BY <1>4, <2>1
<1>10. OwnedInv' /\ OwnedTouchUsableRam'
    BY <1>0 DEF OwnedInv, OwnedTouchUsableRam, InitInv
<1> QED BY <1>5, <1>6, <1>7, <1>8, <1>9, <1>10

-----------------------------------------------------------------------------
(* After pmm_init: everything but the bits, the counter and the cursors is *)
(* fixed, so it is enough to look at those.                                *)
LEMMA RunningStep ==
    ASSUME PmmInv, phase = "ready", UNCHANGED Frozen,
           NEW fs \in SUBSET AllFrames, fs \cap Reserved = {},
           \/ /\ used' = used \cup fs /\ used_blocks' = CountSet(fs) /\ owned' = owned \cup fs
              /\ fs \cap used = {}
           \/ /\ used' = used \ fs /\ used_blocks' = CountUnset(fs) /\ owned' = owned \ fs
              /\ fs \subseteq owned,
           last_free_index' \in Nat, last_free_index_low' \in Nat,
           \A g \in AllFrames : g < last_free_index' \/ g < last_free_index_low' => g \in used'
    PROVE  PmmInv'
<1> USE DEF PmmInv
<1>0. /\ mmap' = mmap /\ kernel_size' = kernel_size /\ phase' = phase /\ i' = i
      /\ highest_addr' = highest_addr /\ total_blocks' = total_blocks /\ bitmap_size' = bitmap_size
    BY DEF Frozen, boot
<1>1. AllFrames' = AllFrames /\ \A b, l : Frames(b, l)' = Frames(b, l)
    BY <1>0, FramesSame
<1>2. Critical' = Critical
    BY <1>0 DEF Critical
<1>3. Reserved' = Reserved
    BY <1>1, <1>2 DEF Reserved
<1>4. Reserved \subseteq used
    BY DEF Reserved, Locked
<1>5. owned \subseteq used
    BY DEF OwnedInv
<1>6. used_blocks' = Cardinality(used') /\ used_blocks' \in Nat
    BY CountSetExact, CountUnsetExact
<1>7. TypeOK'
    BY <1>0, <1>1, <1>6 DEF TypeOK
<1>8. CounterExact' /\ CursorsSeeAll' /\ InitInv'
    BY <1>0, <1>1, <1>6 DEF CounterExact, CursorsSeeAll, InitInv
<1>9. \A f \in AllFrames : f \in fs => \E k \in 1..Len(mmap) : Touches(f, mmap[k])
    BY DEF FreeAreUsable, OwnedTouchUsableRam, Touches
<1>10. FreeAreUsable'
  <2> SUFFICES ASSUME NEW f \in AllFrames, f \notin used'
               PROVE  \E k \in 1..Len(mmap) : Touches(f, mmap[k])
      BY <1>0, <1>1 DEF FreeAreUsable, Touches
  <2> QED BY <1>9 DEF FreeAreUsable
<1>11. Reserved \subseteq used' /\ Reserved \cap owned' = {}
    BY <1>4 DEF OwnedInv
<1>12. Locked'
    BY <1>1, <1>2, <1>3, <1>11 DEF Locked, Reserved
<1>13. OwnedInv'
    BY <1>3, <1>5, <1>11 DEF OwnedInv
<1>14. OwnedTouchUsableRam'
  <2> SUFFICES ASSUME NEW f \in owned'
               PROVE  f \in used' /\ \E k \in 1..Len(mmap) : Touches(f, mmap[k])
      BY <1>0, <1>1 DEF OwnedTouchUsableRam, Touches
  <2>1. f \in used'
      BY <1>13 DEF OwnedInv
  <2>2. CASE f \in owned
      BY <2>1, <2>2 DEF OwnedTouchUsableRam, Touches
  <2>3. CASE f \in fs
      BY <1>9, <2>1, <2>3
  <2> QED BY <2>2, <2>3
<1> QED BY <1>7, <1>8, <1>10, <1>12, <1>13, <1>14

(* A free frame belongs to no critical region.                             *)
LEMMA FreeNotReserved ==
    ASSUME PmmInv, phase = "ready", NEW f, f \notin used
    PROVE  {f} \cap Reserved = {}
BY DEF PmmInv, Locked, Reserved

LEMMA AllocIsLowest ==
    ASSUME PmmInv, NEW f \in AllFrames, AllocPage(f)
    PROVE  LowestFree(total_blocks, f)
BY ScanIsLowest DEF PmmInv, TypeOK, AllocPage, CursorsSeeAll, AllFrames

LEMMA MaxFrameBound ==
    ASSUME TypeOK, NEW m \in MaxAddrs
    PROVE  MaxFrame(m) \in Nat /\ MaxFrame(m) <= total_blocks
<1>1. m \in Nat /\ total_blocks \in Nat
    BY MapsAssumption DEF TypeOK
<1> QED BY <1>1 DEF MaxFrame, PMM_PAGE_SIZE

LEMMA AllocLowIsLowest ==
    ASSUME PmmInv, NEW m \in MaxAddrs, NEW f \in AllFrames, AllocPageLow(m, f)
    PROVE  LowestFree(MaxFrame(m), f)
BY ScanIsLowest, MaxFrameBound DEF PmmInv, TypeOK, AllocPageLow, CursorsSeeAll, AllFrames

LEMMA StepAllocPage ==
    ASSUME PmmInv, NEW f \in AllFrames, AllocPage(f)
    PROVE  PmmInv'
<1>1. LowestFree(total_blocks, f)
    BY AllocIsLowest
<1>2. f \notin used /\ \A g \in AllFrames : g < f + 1 => g \in used \cup {f}
    BY <1>1 DEF LowestFree, AllFrames
<1>3. last_free_index' \in Nat /\ last_free_index_low' \in Nat
    BY DEF AllocPage, CursorAfter, PmmInv, TypeOK, AllFrames
<1>4. \A g \in AllFrames : g < last_free_index' \/ g < last_free_index_low' => g \in used'
  <2>1. used' = used \cup {f} /\ last_free_index_low' = last_free_index_low
      BY DEF AllocPage, pmm_set
  <2>2. last_free_index' = 0 \/ last_free_index' = f + 1
      BY DEF AllocPage, CursorAfter
  <2>3. \A g \in AllFrames : g < last_free_index_low => g \in used
      BY DEF PmmInv, CursorsSeeAll
  <2> QED BY <1>2, <2>1, <2>2, <2>3 DEF AllFrames
<1>5. {f} \in SUBSET AllFrames /\ {f} \cap Reserved = {} /\ {f} \cap used = {} /\ phase = "ready"
    BY <1>2, FreeNotReserved DEF AllocPage
<1> QED BY <1>3, <1>4, <1>5, RunningStep DEF AllocPage, pmm_set

LEMMA StepAllocPageLow ==
    ASSUME PmmInv, NEW m \in MaxAddrs, NEW f \in AllFrames, AllocPageLow(m, f)
    PROVE  PmmInv'
<1>1. LowestFree(MaxFrame(m), f)
    BY AllocLowIsLowest
<1>2. f \notin used /\ \A g \in AllFrames : g < f + 1 => g \in used \cup {f}
    BY <1>1 DEF LowestFree, AllFrames
<1>3. last_free_index' \in Nat /\ last_free_index_low' \in Nat
    BY DEF AllocPageLow, CursorAfter, PmmInv, TypeOK, AllFrames
<1>4. \A g \in AllFrames : g < last_free_index' \/ g < last_free_index_low' => g \in used'
  <2>1. used' = used \cup {f} /\ last_free_index' = last_free_index
      BY DEF AllocPageLow, pmm_set
  <2>2. last_free_index_low' = 0 \/ last_free_index_low' = f + 1
      BY DEF AllocPageLow, CursorAfter
  <2>3. \A g \in AllFrames : g < last_free_index => g \in used
      BY DEF PmmInv, CursorsSeeAll
  <2> QED BY <1>2, <2>1, <2>2, <2>3 DEF AllFrames
<1>5. {f} \in SUBSET AllFrames /\ {f} \cap Reserved = {} /\ {f} \cap used = {} /\ phase = "ready"
    BY <1>2, FreeNotReserved DEF AllocPageLow
<1> QED BY <1>3, <1>4, <1>5, RunningStep DEF AllocPageLow, pmm_set

LEMMA StepAllocPageLowFails ==
    ASSUME PmmInv, NEW m \in MaxAddrs, AllocPageLowFails(m)
    PROVE  PmmInv'
<1>1. phase = "ready" /\ UNCHANGED << Frozen, used, used_blocks, last_free_index, owned >>
    BY DEF AllocPageLowFails
<1>2. last_free_index_low' \in {0, last_free_index_low}
    BY DEF AllocPageLowFails, Restart
<1>3. used' = used \cup {} /\ owned' = owned \cup {} /\ {} \in SUBSET AllFrames
    BY <1>1
<1>4. used_blocks' = CountSet({})
  <2>1. CountSet({}) = Cardinality(used)
      BY CountSetExact DEF PmmInv
  <2> QED BY <1>1, <2>1 DEF PmmInv, CounterExact
<1>5. \A g \in AllFrames : g < last_free_index' \/ g < last_free_index_low' => g \in used'
    BY <1>1, <1>2 DEF PmmInv, CursorsSeeAll, AllFrames
<1>6. last_free_index' \in Nat /\ last_free_index_low' \in Nat
    BY <1>1, <1>2 DEF PmmInv, TypeOK
<1>7. {} \cap Reserved = {} /\ {} \cap used = {}
    OBVIOUS
<1> QED BY <1>1, <1>3, <1>4, <1>5, <1>6, <1>7, RunningStep

LEMMA StepFreePage ==
    ASSUME PmmInv, NEW f \in owned, FreePage(f)
    PROVE  PmmInv'
<1>1. f \in AllFrames /\ f \in Nat /\ phase = "ready"
    BY DEF PmmInv, TypeOK, AllFrames, FreePage
<1>2. {f} \in SUBSET AllFrames /\ {f} \subseteq owned /\ {f} \cap Reserved = {}
    BY <1>1 DEF PmmInv, OwnedInv
<1>3. /\ last_free_index' \in Nat /\ last_free_index' <= last_free_index
      /\ last_free_index' <= f
    BY <1>1 DEF FreePage, Lowered, PmmInv, TypeOK
<1>4. /\ last_free_index_low' \in Nat /\ last_free_index_low' <= last_free_index_low
      /\ last_free_index_low' <= f
    BY <1>1 DEF FreePage, Lowered, PmmInv, TypeOK
<1>5. used' = used \ {f} /\ used_blocks' = CountUnset({f}) /\ owned' = owned \ {f}
    BY DEF FreePage
<1>6. \A g \in AllFrames : g < last_free_index' \/ g < last_free_index_low' => g \in used'
  <2> SUFFICES ASSUME NEW g \in AllFrames, g < last_free_index' \/ g < last_free_index_low'
               PROVE  g \in used'
      OBVIOUS
  <2>1. g \in Nat /\ last_free_index \in Nat /\ last_free_index_low \in Nat
      BY DEF AllFrames, PmmInv, TypeOK
  <2>2. g # f /\ (g < last_free_index \/ g < last_free_index_low)
      BY <1>1, <1>3, <1>4, <2>1
  <2> QED BY <1>5, <2>2 DEF PmmInv, CursorsSeeAll
<1>7. UNCHANGED Frozen
    BY DEF FreePage
<1> QED BY <1>1, <1>2, <1>3, <1>4, <1>5, <1>6, <1>7, RunningStep

-----------------------------------------------------------------------------
LEMMA NextPmmInv == PmmInv /\ [Next]_vars => PmmInv'
<1> SUFFICES ASSUME PmmInv, [Next]_vars PROVE PmmInv'
    OBVIOUS
<1>1. CASE UNCHANGED vars
  <2>1. AllFrames' = AllFrames /\ (\A b, l : Frames(b, l)' = Frames(b, l)) /\ Critical' = Critical
      BY <1>1, FramesSame DEF vars, boot, Critical
  <2>2. Reserved' = Reserved
      BY <2>1 DEF Reserved
  <2>3. TypeOK' /\ CounterExact' /\ CursorsSeeAll' /\ InitInv'
      BY <1>1, <2>1 DEF vars, boot, cursors, PmmInv, TypeOK, CounterExact, CursorsSeeAll, InitInv
  <2>4. FreeAreUsable' /\ OwnedTouchUsableRam'
      BY <1>1, <2>1 DEF vars, boot, PmmInv, FreeAreUsable, OwnedTouchUsableRam, Touches
  <2>5. Locked' /\ OwnedInv'
      BY <1>1, <2>1, <2>2 DEF vars, PmmInv, Locked, OwnedInv
  <2> QED BY <2>3, <2>4, <2>5 DEF PmmInv
<1>2. CASE PmmInit
    BY <1>2, StepScanEntry, StepInitBitmap, StepFreeEntry, StepFreeDone, StepLockRegion DEF PmmInit
<1>3. ASSUME NEW f \in AllFrames, AllocPage(f) PROVE PmmInv'
    BY <1>3, StepAllocPage
<1>4. CASE AllocPageFails
    BY <1>1, <1>4 DEF AllocPageFails
<1>5. ASSUME NEW m \in MaxAddrs, NEW f \in AllFrames, AllocPageLow(m, f) PROVE PmmInv'
    BY <1>5, StepAllocPageLow
<1>6. ASSUME NEW m \in MaxAddrs, AllocPageLowFails(m) PROVE PmmInv'
    BY <1>6, StepAllocPageLowFails
<1>7. ASSUME NEW f \in owned, FreePage(f) PROVE PmmInv'
    BY <1>7, StepFreePage
<1> QED BY <1>1, <1>2, <1>3, <1>4, <1>5, <1>6, <1>7 DEF Next

(* The invariant of pmm_init and of the running allocator.                 *)
THEOREM PmmInvariant == Spec => []PmmInv
BY InitPmmInv, NextPmmInv, PTL DEF Spec

(* Type correctness.                                                       *)
THEOREM PmmTypeCorrect == Spec => []TypeOK
<1>1. PmmInv => TypeOK
    BY DEF PmmInv
<1> QED BY <1>1, PmmInvariant, PTL

(* used_blocks is the number of bits set, for every E820 map.              *)
THEOREM PmmCounter == Spec => []CounterExact
<1>1. PmmInv => CounterExact
    BY DEF PmmInv
<1> QED BY <1>1, PmmInvariant, PTL

(* No free frame is below a cursor.                                        *)
THEOREM PmmCursors == Spec => []CursorsSeeAll
<1>1. PmmInv => CursorsSeeAll
    BY DEF PmmInv
<1> QED BY <1>1, PmmInvariant, PTL

(* The frames of the critical regions are never handed out.                *)
THEOREM PmmCriticalSafe == Spec => []CriticalRegionsSafe
<1>1. PmmInv => CriticalRegionsSafe
    BY DEF PmmInv, CriticalRegionsSafe, Locked, OwnedInv, Reserved
<1> QED BY <1>1, PmmInvariant, PTL

(* Frames held are marked used and touch usable RAM.                       *)
THEOREM PmmOwned == Spec => []OwnedTouchUsableRam
<1>1. PmmInv => OwnedTouchUsableRam
    BY DEF PmmInv
<1> QED BY <1>1, PmmInvariant, PTL

(* The highest address that the first loop has seen lies in a frame below  *)
(* 4 GiB.                                                                  *)
TopInv == EndFrame(highest_addr, 0) < FRAMES_4GIB /\ AddressesFit

LEMMA StepTopInv ==
    ASSUME PmmInv, TopInv, Next
    PROVE  TopInv'
<1> USE DEF TopInv, AddressesFit
<1>1. CASE ScanEntry
  <2> USE <1>1 DEF ScanEntry
  <2>1. mmap[i].base \in Nat /\ mmap[i].length \in Nat /\ i \in 1..Len(mmap)
      BY EntryFacts DEF PmmInv
  <2>2. mmap \in Maps /\ highest_addr \in Nat
      BY DEF PmmInv, TypeOK
  <2>3. IsUsable(mmap[i]) => EndFrame(mmap[i].base, mmap[i].length) < FRAMES_4GIB
      BY <2>1, <2>2, MapsAssumption
  <2>4. \/ highest_addr' = highest_addr
        \/ IsUsable(mmap[i]) /\ highest_addr' = mmap[i].base + mmap[i].length
      OBVIOUS
  <2> QED BY <2>1, <2>2, <2>3, <2>4 DEF EndFrame
<1>2. CASE InitBitmap
    BY <1>2 DEF InitBitmap, EndFrame
<1>3. CASE highest_addr' = highest_addr /\ total_blocks' = total_blocks
    BY <1>3 DEF EndFrame
<1> QED BY <1>1, <1>2, <1>3 DEF Next, PmmInit, FreeEntry, FreeDone, LockRegion, AllocPage,
      AllocPageFails, AllocPageLow, AllocPageLowFails, FreePage, Frozen, vars

(* Every frame number, and the number of frames, times the page size is a  *)
(* 32-bit address.                                                         *)
THEOREM PmmAddressesFit == Spec => []AddressesFit
<1>1. Init => TopInv
    BY DEF Init, TopInv, AddressesFit, EndFrame, PMM_PAGE_SIZE, FRAMES_4GIB
<1>2. PmmInv /\ TopInv /\ [Next]_vars => TopInv'
    BY StepTopInv DEF TopInv, AddressesFit, EndFrame, vars
<1>3. TopInv => AddressesFit
    BY DEF TopInv
<1> QED BY <1>1, <1>2, <1>3, PmmInvariant, PTL DEF Spec

(* An owner that frees its page meets no panic, and the scan finds a frame *)
(* whenever the counter promises one.                                      *)
THEOREM PmmPanicFree == Spec => []NoPmmPanic
<1>1. PmmInv => NoPmmPanic
  <2> SUFFICES ASSUME PmmInv, phase = "ready" PROVE NoPmmPanic
      BY DEF NoPmmPanic
  <2>1. ASSUME NEW f \in owned PROVE ~FreePanics(f) /\ ~UnderflowPanics(f)
    <3>1. f \in used /\ f \in AllFrames /\ total_blocks \in Nat
        BY DEF PmmInv, OwnedInv, TypeOK
    <3>2. ~FreePanics(f)
        BY <3>1 DEF FreePanics, AllFrames
    <3>3. used_blocks # 0
      <4>1. IsFiniteSet(used) /\ used_blocks = Cardinality(used)
          BY UsedFinite DEF PmmInv, CounterExact
      <4>2. used # {}
          BY <3>1
      <4> QED BY <4>1, <4>2, FS_EmptySet
    <3> QED BY <3>2, <3>3 DEF UnderflowPanics
  <2>2. ~ScanMisses
    <3> SUFFICES ASSUME ScanMisses PROVE FALSE
        OBVIOUS
    <3>1. /\ last_free_index \in Nat /\ total_blocks \in Nat /\ used \subseteq AllFrames
          /\ \A g \in AllFrames : g < last_free_index => g \in used
        BY DEF PmmInv, TypeOK, CursorsSeeAll
    <3>2. \A g \in 0..(total_blocks-1) : g \in used
        BY <3>1, ScanIsLowest DEF ScanMisses
    <3>3. used = 0 .. (total_blocks - 1)
        BY <3>1, <3>2 DEF AllFrames
    <3>4. used_blocks = total_blocks
        BY <3>1, <3>3, IntervalSize DEF PmmInv, CounterExact
    <3> QED BY <3>1, <3>4 DEF ScanMisses, Full
  <2> QED BY <2>1, <2>2 DEF NoPmmPanic
<1> QED BY <1>1, PmmInvariant, PTL

(* A step of the frame manager after pmm_init takes the lowest frame of    *)
(* the pool, gives one back, or leaves the pool alone.                     *)
LEMMA TakesLowest ==
    ASSUME PmmInv, NEW end \in Nat, end <= total_blocks, NEW f \in AllFrames, LowestFree(end, f),
           pmm_set(f), phase = "ready", phase' = phase, total_blocks' = total_blocks
    PROVE  Pool!Take
<1>1. f \in AllFrames \ used /\ \A g \in AllFrames \ used : f <= g
    BY DEF LowestFree, AllFrames, PmmInv, TypeOK
<1>2. AllFrames' \ used' = (AllFrames \ used) \ {f} /\ owned' = owned \cup {f}
    BY DEF pmm_set, AllFrames
<1> QED BY <1>1, <1>2 DEF Pool!Take

(* The frame manager implements the pool: through both cursors, whatever   *)
(* the limits of the callers, it hands out the lowest free frame, never    *)
(* one that a caller has, and gets every frame back.                       *)
THEOREM PmmImplementsPool == Spec => PoolSpec
<1>1. Init => Pool!Init
    BY DEF Init, Pool!Init
<1>2. ASSUME PmmInv, PmmInv', [Next]_vars
      PROVE  [Pool!Next]_<< phase = "ready", IF phase = "ready" THEN AllFrames \ used ELSE {}, owned >>
  <2> DEFINE stutter == /\ (phase = "ready")' = (phase = "ready")
                        /\ (IF phase = "ready" THEN AllFrames \ used ELSE {})'
                             = (IF phase = "ready" THEN AllFrames \ used ELSE {})
                        /\ owned' = owned
  <2> SUFFICES stutter \/ Pool!Next
      OBVIOUS
  <2>1. CASE UNCHANGED vars
    <3>1. stutter
        BY <2>1 DEF vars, AllFrames
    <3> QED BY <3>1
  <2>2. CASE PmmInit
    <3>1. phase # "ready" /\ owned' = owned
        BY <2>2 DEF PmmInit, ScanEntry, InitBitmap, FreeEntry, FreeDone, LockRegion
    <3>2. CASE phase' = "ready"
      <4>1. total_blocks' \in Nat
          BY <1>2 DEF PmmInv, TypeOK
      <4>2. AllFrames' \subseteq Nat
        <5>1. \A n \in Nat : 0 .. (n - 1) \subseteq Nat
            OBVIOUS
        <5>2. AllFrames' = 0 .. (total_blocks' - 1)
            BY DEF AllFrames
        <5> QED BY <4>1, <5>1, <5>2
      <4>3. Pool!Open
          BY <3>1, <3>2, <4>2 DEF Pool!Open
      <4> QED BY <4>3 DEF Pool!Next
    <3>3. CASE phase' # "ready"
        BY <3>1, <3>3
    <3> QED BY <3>2, <3>3
  <2>3. ASSUME NEW f \in AllFrames, AllocPage(f) PROVE Pool!Take
    <3>1. LowestFree(total_blocks, f) /\ total_blocks \in Nat
        BY <1>2, <2>3, AllocIsLowest DEF PmmInv, TypeOK
    <3>2. pmm_set(f) /\ phase = "ready" /\ phase' = phase /\ total_blocks' = total_blocks
        BY <2>3 DEF AllocPage, Frozen
    <3> QED BY <1>2, <3>1, <3>2, TakesLowest
  <2>4. ASSUME NEW m \in MaxAddrs, NEW f \in AllFrames, AllocPageLow(m, f) PROVE Pool!Take
    <3>1. LowestFree(MaxFrame(m), f)
        BY <1>2, <2>4, AllocLowIsLowest
    <3>2. MaxFrame(m) \in Nat /\ MaxFrame(m) <= total_blocks
        BY <1>2, MaxFrameBound DEF PmmInv
    <3>3. pmm_set(f) /\ phase = "ready" /\ phase' = phase /\ total_blocks' = total_blocks
        BY <2>4 DEF AllocPageLow, Frozen
    <3> QED BY <1>2, <3>1, <3>2, <3>3, TakesLowest
  <2>5. ASSUME NEW f \in owned, FreePage(f) PROVE Pool!Give
    <3>1. f \in AllFrames
        BY <1>2, <2>5 DEF PmmInv, TypeOK
    <3>2. /\ phase = "ready" /\ phase' = phase /\ AllFrames' = AllFrames
          /\ used' = used \ {f} /\ owned' = owned \ {f}
        BY <2>5 DEF FreePage, Frozen, AllFrames
    <3>3. AllFrames' \ used' = (AllFrames \ used) \cup {f}
        BY <3>1, <3>2
    <3> QED BY <3>2, <3>3 DEF Pool!Give
  <2>6. CASE AllocPageFails \/ \E m \in MaxAddrs : AllocPageLowFails(m)
    <3>1. UNCHANGED << phase, total_blocks, used, owned >>
        BY <2>6 DEF AllocPageFails, AllocPageLowFails, Frozen, vars
    <3>2. stutter
        BY <3>1 DEF AllFrames
    <3> QED BY <3>2
  <2> QED BY <1>2, <2>1, <2>2, <2>3, <2>4, <2>5, <2>6 DEF Next, Pool!Next
<1> QED BY <1>1, <1>2, PmmInvariant, PTL DEF Spec, PoolSpec, Pool!Spec

(* An allocation returns the lowest free frame, and 0 only when there is   *)
(* none (below the limit): the next-fit cursors lose no frame.             *)
THEOREM PmmAllocExact == Spec => AllocExact
<1> DEFINE A == /\ \A f \in AllFrames : AllocPage(f) => LowestFree(total_blocks, f)
                /\ AllocPageFails => AllFrames \subseteq used
                /\ \A m \in MaxAddrs :
                      /\ \A f \in AllFrames : AllocPageLow(m, f) => LowestFree(MaxFrame(m), f)
                      /\ AllocPageLowFails(m) => 0..(MaxFrame(m) - 1) \subseteq used
<1>1. ASSUME PmmInv PROVE A
  <2>1. AllocPageFails => AllFrames \subseteq used
      BY <1>1, FullMeansFull DEF AllocPageFails, PmmInv
  <2>2. ASSUME NEW m \in MaxAddrs, AllocPageLowFails(m)
        PROVE  0..(MaxFrame(m) - 1) \subseteq used
    <3>1. MaxFrame(m) \in Nat /\ MaxFrame(m) <= total_blocks /\ total_blocks \in Nat
        BY <1>1, MaxFrameBound DEF PmmInv, TypeOK
    <3>2. CASE MaxFrame(m) = 0
        BY <3>2
    <3>3. CASE Full
        BY <1>1, <3>1, <3>3, FullMeansFull DEF PmmInv, AllFrames
    <3>4. CASE FirstFree(last_free_index_low, MaxFrame(m), -1)
      <4>1. /\ last_free_index_low \in Nat
            /\ \A g \in AllFrames : g < last_free_index_low => g \in used
          BY <1>1 DEF PmmInv, TypeOK, CursorsSeeAll
      <4> QED BY <3>1, <3>4, <4>1, ScanIsLowest
    <3> QED BY <2>2, <3>2, <3>3, <3>4 DEF AllocPageLowFails
  <2> QED BY <1>1, <2>1, <2>2, AllocIsLowest, AllocLowIsLowest
<1>2. Spec => [][A]_vars
    BY <1>1, PmmInvariant, PTL DEF Spec
<1> QED BY <1>2 DEF AllocExact

-----------------------------------------------------------------------------
(* Start-up and the self test.                                             *)
(* Arithmetic of page numbers.                                             *)
LEMMA TableSize ==
    /\ PAGES_PER_TABLE \in Nat /\ PAGES_PER_TABLE > 0
    /\ HEAP_FIRST \in Nat /\ HEAP_FIRST >= PAGES_PER_TABLE
    /\ HEAP_PAGES \in Nat /\ HEAP_PAGES > 0
    /\ VMM_LOWMEM_LIMIT \in MaxAddrs
BY VmmAssumption DEF VMM_LOWMEM_LIMIT

LEMMA PageIndices ==
    ASSUME NEW v \in Nat
    PROVE  /\ PdIndex(v) \in Nat /\ PtIndex(v) \in Entries
           /\ v = PAGES_PER_TABLE * PdIndex(v) + PtIndex(v)
BY TableSize DEF PdIndex, PtIndex, Entries

LEMMA IndicesTell ==
    ASSUME NEW v \in Nat, NEW w \in Nat, PdIndex(v) = PdIndex(w), PtIndex(v) = PtIndex(w)
    PROVE  v = w
BY PageIndices

LEMMA IndicesMonotonic ==
    ASSUME NEW v \in Nat, NEW w \in Nat, v <= w
    PROVE  PdIndex(v) <= PdIndex(w)
BY TableSize DEF PdIndex

LEMMA EntryIndices ==
    ASSUME NEW e \in Entries
    PROVE  PdIndex(e) = 0 /\ PtIndex(e) = e
BY TableSize DEF PdIndex, PtIndex, Entries

LEMMA IndexPositive ==
    ASSUME NEW v \in Nat, v >= PAGES_PER_TABLE
    PROVE  PdIndex(v) >= 1
BY TableSize DEF PdIndex

LEMMA HeapIndices ==
    ASSUME NEW v \in HeapPages
    PROVE  /\ v \in Nat /\ v \in Mappable
           /\ PdIndex(v) \in Directory \ {0} /\ PtIndex(v) \in Entries
<1>1. v \in Nat /\ v >= PAGES_PER_TABLE /\ HeapEnd - 1 \in Nat /\ v <= HeapEnd - 1
    BY TableSize DEF HeapPages, HeapEnd
<1>2. /\ PdIndex(v) \in Nat /\ PtIndex(v) \in Entries /\ PdIndex(v) >= 1
      /\ PdIndex(v) <= PdIndex(HeapEnd - 1) /\ PdIndex(HeapEnd - 1) \in Nat
    BY <1>1, PageIndices, IndexPositive, IndicesMonotonic
<1>3. v < PAGES_PER_TABLE * (PdIndex(HeapEnd - 1) + 1)
  <2>1. HeapEnd - 1 = PAGES_PER_TABLE * PdIndex(HeapEnd - 1) + PtIndex(HeapEnd - 1)
      BY <1>1, PageIndices
  <2>2. PtIndex(HeapEnd - 1) \in Nat /\ PtIndex(HeapEnd - 1) < PAGES_PER_TABLE
      BY <1>1, PageIndices, TableSize DEF Entries
  <2> QED BY <1>1, <1>2, <2>1, <2>2, TableSize
<1>4. PAGES_PER_TABLE * (PdIndex(HeapEnd - 1) + 1) \in Nat
    BY <1>2, TableSize
<1> QED BY <1>1, <1>2, <1>3, <1>4, TableSize DEF Mappable, Directory

LEMMA MappableIndices ==
    ASSUME NEW v \in Mappable
    PROVE  v \in Nat /\ PdIndex(v) \in Directory \ {0} /\ PtIndex(v) \in Entries
<1> DEFINE last == PdIndex(HeapEnd - 1)
<1>1. HeapEnd - 1 \in Nat /\ last \in Nat
    BY TableSize, PageIndices DEF HeapEnd
<1>2. PAGES_PER_TABLE * (last + 1) \in Nat
    BY <1>1, TableSize
<1>3. v \in Nat /\ v >= PAGES_PER_TABLE /\ v < PAGES_PER_TABLE * (last + 1)
    BY <1>2, TableSize DEF Mappable
<1>4. PdIndex(v) \in Nat /\ PtIndex(v) \in Entries /\ PdIndex(v) >= 1
    BY <1>3, PageIndices, IndexPositive
<1>5. PdIndex(v) <= last
  <2>1. v = PAGES_PER_TABLE * PdIndex(v) + PtIndex(v) /\ PtIndex(v) \in Nat
      BY <1>3, PageIndices DEF Entries
  <2>2. PAGES_PER_TABLE * PdIndex(v) < PAGES_PER_TABLE * (last + 1)
    <3> HIDE DEF last
    <3> QED BY <1>1, <1>2, <1>3, <1>4, <2>1, TableSize
  <2> HIDE DEF last
  <2> QED BY <1>1, <1>4, <2>2, TableSize
<1> QED BY <1>1, <1>3, <1>4, <1>5 DEF Directory

LEMMA PageIsHeapPage ==
    ASSUME VTypeOK
    PROVE  /\ Done \subseteq HeapPages /\ 0 \in Directory
           /\ page < HeapEnd => page \in HeapPages
           /\ page \notin Done /\ page \in Nat
           /\ HEAP_FIRST .. page = Done \cup {page}
<1>1. page \in Nat /\ HEAP_FIRST \in Nat /\ HeapEnd \in Nat /\ HEAP_FIRST <= page /\ page <= HeapEnd
    BY TableSize DEF VTypeOK, HeapEnd
<1>2. PdIndex(HeapEnd - 1) \in Nat
  <2>1. HeapEnd - 1 \in Nat
      BY TableSize DEF HeapEnd
  <2> QED BY <2>1, PageIndices
<1> QED BY <1>1, <1>2 DEF Done, HeapPages, Directory

(* The low allocator looks at the frames of the identity map.              *)
LEMMA LowFrames ==
    ASSUME TypeOK
    PROVE  MaxFrame(VMM_LOWMEM_LIMIT) =
               IF PAGES_PER_TABLE > total_blocks THEN total_blocks ELSE PAGES_PER_TABLE
<1>1. VMM_LOWMEM_LIMIT \div PMM_PAGE_SIZE = PAGES_PER_TABLE
    BY TableSize DEF VMM_LOWMEM_LIMIT, PMM_PAGE_SIZE
<1> QED BY <1>1 DEF MaxFrame

(* What an allocation gives.                                               *)
LEMMA AllocLowGets ==
    ASSUME PmmInv, NEW f \in AllFrames, AllocLow(f)
    PROVE  /\ PmmInv' /\ phase = "ready" /\ phase' = "ready" /\ total_blocks' = total_blocks
           /\ f \notin owned /\ owned' = owned \cup {f} /\ f \in Entries /\ f # NULL /\ f \in Int
<1>1. PmmInv' /\ LowestFree(MaxFrame(VMM_LOWMEM_LIMIT), f)
    BY TableSize, StepAllocPageLow, AllocLowIsLowest DEF AllocLow
<1>2. /\ phase = "ready" /\ phase' = "ready" /\ total_blocks' = total_blocks
      /\ owned' = owned \cup {f}
    BY DEF AllocLow, AllocPageLow, Frozen, pmm_set
<1>3. f \notin owned
    BY <1>1 DEF LowestFree, PmmInv, OwnedInv
<1>4. f \in Entries
    BY <1>1, LowFrames, TableSize DEF LowestFree, Entries, PmmInv, TypeOK, AllFrames
<1> QED BY <1>1, <1>2, <1>3, <1>4 DEF AllFrames, NULL

LEMMA AllocGets ==
    ASSUME PmmInv, NEW f \in AllFrames, AllocPage(f)
    PROVE  /\ PmmInv' /\ phase = "ready" /\ phase' = "ready" /\ total_blocks' = total_blocks
           /\ f \notin owned /\ owned' = owned \cup {f} /\ f # NULL /\ f \in Int
<1>1. PmmInv' /\ LowestFree(total_blocks, f)
    BY StepAllocPage, AllocIsLowest
<1>2. /\ phase = "ready" /\ phase' = "ready" /\ total_blocks' = total_blocks
      /\ owned' = owned \cup {f}
    BY DEF AllocPage, Frozen, pmm_set
<1>3. f \notin owned
    BY <1>1 DEF LowestFree, PmmInv, OwnedInv
<1> QED BY <1>1, <1>2, <1>3 DEF AllFrames, NULL

(* A failure means that no low frame is free.                              *)
LEMMA AllocLowFailsExhausted ==
    ASSUME PmmInv, AllocLowFails
    PROVE  /\ PmmInv' /\ phase' = phase /\ owned' = owned
           /\ (\A f \in AllFrames : f < PAGES_PER_TABLE => f \in used)'
<1>1. PmmInv' /\ total_blocks' = total_blocks /\ used' = used /\ owned' = owned /\ phase' = phase
    BY TableSize, StepAllocPageLowFails DEF AllocLowFails, AllocPageLowFails, Frozen
<1>2. MaxFrame(VMM_LOWMEM_LIMIT) \in Nat /\ MaxFrame(VMM_LOWMEM_LIMIT) <= total_blocks
    BY TableSize, MaxFrameBound DEF PmmInv
<1>3. 0 .. (MaxFrame(VMM_LOWMEM_LIMIT) - 1) \subseteq used
  <2>1. CASE MaxFrame(VMM_LOWMEM_LIMIT) = 0
      BY <2>1
  <2>2. CASE Full
      BY <1>2, <2>2, FullMeansFull DEF PmmInv, TypeOK, AllFrames
  <2>3. CASE FirstFree(last_free_index_low, MaxFrame(VMM_LOWMEM_LIMIT), -1)
      BY <1>2, <2>3, ScanIsLowest DEF PmmInv, TypeOK, CursorsSeeAll
  <2> QED BY <2>1, <2>2, <2>3 DEF AllocLowFails, AllocPageLowFails
<1>4. \A f \in AllFrames : f < PAGES_PER_TABLE => f \in used
    BY <1>3, LowFrames, TableSize DEF PmmInv, TypeOK, AllFrames
<1> QED BY <1>1, <1>4 DEF AllFrames

LEMMA AllocFailsExhausted ==
    ASSUME PmmInv, AllocPageFails
    PROVE  /\ PmmInv' /\ phase' = phase /\ owned' = owned
           /\ (\A f \in AllFrames : f < PAGES_PER_TABLE => f \in used)'
<1>1. PmmInv' /\ total_blocks' = total_blocks /\ used' = used /\ owned' = owned /\ phase' = phase
    BY NextPmmInv DEF AllocPageFails, vars
<1>2. used = AllFrames
    BY FullMeansFull DEF PmmInv, AllocPageFails
<1> QED BY <1>1, <1>2 DEF AllFrames

-----------------------------------------------------------------------------
(* The translations do not change while the PMM works.                     *)
Held == (Paging \cup {phys} \cup DataFrames) \ {NULL}

LEMMA HeldIsOwned ==
    ASSUME PagingInv, MappedInv
    PROVE  Held \subseteq owned
BY DEF PagingInv, MappedInv, Held, Paging

LEMMA TranslationsKept ==
    ASSUME VTypeOK, PagingInv, MappedInv, UNCHANGED << vmm, page, phys >>, Held \subseteq owned'
    PROVE  /\ PagingInv' /\ MappedInv' /\ Held' = Held
           /\ Done' = Done /\ Tables' = Tables /\ Paging' = Paging /\ DataFrames' = DataFrames
           /\ at' \in { "pmm_init", "directory", "first_table", "heap_init", "map", "ready", "panic" }
                => VTypeOK'
<1> USE DEF vmm
<1>1. Done' = Done /\ Tables' = Tables /\ Paging' = Paging
    BY DEF Done, Tables, Paging
<1>2. \A v : (Present(v)' <=> Present(v)) /\ Translate(v)' = Translate(v)
    BY DEF Present, Translate
<1>3. DataFrames' = DataFrames
    BY <1>1, <1>2 DEF DataFrames
<1>4. NULL \notin DataFrames /\ DataFrames \cap Paging = {} /\ phys \notin Paging \ {NULL}
    BY DEF MappedInv, PagingInv, Present, DataFrames, Translate
<1>5. PagingInv'
    BY <1>1 DEF PagingInv, Held
<1>6. MappedInv'
    BY <1>1, <1>2, <1>3, <1>4 DEF MappedInv, Held
<1>7. at' \in { "pmm_init", "directory", "first_table", "heap_init", "map", "ready", "panic" }
        => VTypeOK'
    BY <1>1 DEF VTypeOK
<1> QED BY <1>1, <1>3, <1>5, <1>6, <1>7 DEF Held

LEMMA VInitVmmInv == VInit => VmmInv
<1> SUFFICES ASSUME VInit PROVE VmmInv
    OBVIOUS
<1> USE DEF VInit
<1>1. PmmInv /\ phase = "scan"
    BY InitPmmInv DEF Init
<1>2. Tables = {} /\ Paging = {NULL} /\ Done = {}
    BY TableSize DEF Tables, Paging, Done
<1>3. VTypeOK
  <2>1. pte \in [Tables -> [Entries -> Int]]
      BY <1>2 DEF Tables
  <2>2. HEAP_FIRST \in HEAP_FIRST .. HeapEnd
      BY TableSize DEF HeapEnd
  <2> QED BY <2>1, <2>2 DEF VTypeOK, NULL
<1>4. 0 \in Directory
    BY <1>3, PageIsHeapPage
<1>5. StageInv
    BY <1>1, <1>2, <1>4 DEF StageInv
<1>6. PagingInv
    BY <1>2, <1>4 DEF PagingInv
<1>7. MappedInv
  <2>1. DataFrames = {}
      BY <1>2 DEF DataFrames
  <2>2. \A v \in Mappable : ~Present(v)
      BY MappableIndices DEF Present
  <2> QED BY <1>2, <2>1, <2>2 DEF MappedInv
<1> QED BY <1>1, <1>3, <1>5, <1>6, <1>7 DEF VmmInv, PanicMeansExhausted

-----------------------------------------------------------------------------
(* One lemma per step of start-up.                                         *)
LEMMA StepPmmInitStep ==
    ASSUME VmmInv, PmmInitStep
    PROVE  VmmInv'
<1> USE DEF PmmInitStep
<1>1. PmmInv' /\ owned' = owned
  <2>1. PmmInv'
      BY NextPmmInv DEF VmmInv, Next
  <2> QED BY <2>1 DEF PmmInit, ScanEntry, InitBitmap, FreeEntry, FreeDone, LockRegion
<1>2. at' \in {"pmm_init", "directory"}
    OBVIOUS
<1>3. PagingInv' /\ MappedInv' /\ VTypeOK' /\ Tables' = Tables
    BY <1>1, <1>2, TranslationsKept, HeldIsOwned DEF VmmInv
<1>4. StageInv'
    BY <1>2, <1>3 DEF VmmInv, StageInv, vmm
<1> QED BY <1>1, <1>2, <1>3, <1>4 DEF VmmInv, PanicMeansExhausted

(* Before the first table nothing is mapped.                               *)
LEMMA NothingMapped ==
    ASSUME VmmInv, Tables = {}
    PROVE  /\ pde = [d \in Directory |-> NULL] /\ Done = {} /\ DataFrames = {}
           /\ \A v \in Mappable : ~Present(v)
<1>1. pde = [d \in Directory |-> NULL]
    BY DEF VmmInv, VTypeOK
<1>2. Done = {}
    BY <1>1, PageIsHeapPage, HeapIndices DEF VmmInv, MappedInv, Present
<1> QED BY <1>1, <1>2, MappableIndices DEF DataFrames, Present

LEMMA StepVmmDirectory ==
    ASSUME VmmInv, NEW f \in AllFrames, VmmDirectory(f)
    PROVE  VmmInv'
<1> USE DEF VmmDirectory
<1>1. /\ PmmInv' /\ phase' = "ready" /\ f \notin owned /\ owned' = owned \cup {f}
      /\ f \in Entries /\ f # NULL /\ f \in Int
    BY AllocLowGets DEF VmmInv
<1>2. Tables = {} /\ Tables' = {} /\ phys = NULL /\ phys' = NULL /\ page' = page
    BY DEF VmmInv, StageInv, Tables
<1>3. Done' = {} /\ DataFrames' = {} /\ \A v \in Mappable : ~Present(v)'
  <2>1. Done = {} /\ Done' = Done
      BY <1>2, NothingMapped DEF Done
  <2> QED BY <2>1, MappableIndices DEF DataFrames, Present
<1>4. VTypeOK' /\ 0 \in Directory
    BY <1>1, <1>2, PageIsHeapPage DEF VmmInv, VTypeOK, Tables
<1>5. StageInv'
    BY <1>1, <1>2 DEF StageInv
<1>6. PagingInv'
    BY <1>1, <1>2, <1>4 DEF PagingInv, Paging
<1>7. MappedInv'
    BY <1>2, <1>3 DEF MappedInv
<1> QED BY <1>1, <1>4, <1>5, <1>6, <1>7 DEF VmmInv, PanicMeansExhausted

LEMMA StepVmmFirstTable ==
    ASSUME VmmInv, NEW f \in AllFrames, VmmFirstTable(f)
    PROVE  VmmInv'
<1> USE DEF VmmFirstTable
<1>1. /\ PmmInv' /\ phase' = "ready" /\ f \notin owned /\ owned' = owned \cup {f}
      /\ f \in Entries /\ f # NULL /\ f \in Int
    BY AllocLowGets DEF VmmInv
<1>2. /\ Tables = {} /\ phys = NULL /\ phys' = NULL /\ page' = page
      /\ page_directory # NULL /\ page_directory' = page_directory
    BY DEF VmmInv, StageInv
<1>3. pte' = [t \in {f} |-> [e \in Entries |-> e]] /\ Tables' = {f}
    BY DEF Tables
<1>4. 0 \in Directory /\ pde' = [d \in Directory |-> IF d = 0 THEN f ELSE NULL]
    BY <1>2, NothingMapped, PageIsHeapPage DEF VmmInv
<1>5. Done' = {} /\ DataFrames' = {} /\ \A v \in Mappable : ~Present(v)'
  <2>1. Done = {} /\ Done' = Done
      BY <1>2, NothingMapped DEF Done
  <2> QED BY <1>4, <2>1, MappableIndices DEF DataFrames, Present
<1>6. VTypeOK'
  <2>1. pte' \in [{f} -> [Entries -> Int]]
      BY <1>3 DEF Entries
  <2> QED BY <1>1, <1>2, <1>3, <1>4, <2>1 DEF VmmInv, VTypeOK
<1>7. StageInv'
    BY <1>1, <1>2, <1>4 DEF StageInv
<1>8. PagingInv'
    BY <1>1, <1>2, <1>3, <1>4 DEF VmmInv, PagingInv, Paging
<1>9. MappedInv'
    BY <1>2, <1>5 DEF MappedInv
<1> QED BY <1>1, <1>6, <1>7, <1>8, <1>9 DEF VmmInv, PanicMeansExhausted

LEMMA StepHeapFrame ==
    ASSUME VmmInv, NEW f \in AllFrames, HeapFrame(f)
    PROVE  VmmInv'
<1> USE DEF HeapFrame
<1>1. /\ PmmInv' /\ phase' = "ready" /\ f \notin owned /\ owned' = owned \cup {f}
      /\ f # NULL /\ f \in Int
    BY AllocGets DEF VmmInv
<1>2. Done' = Done /\ Tables' = Tables /\ Paging' = Paging /\ DataFrames' = DataFrames
    BY DEF vmm, Done, Tables, Paging, DataFrames, Translate
<1>3. f \notin Paging \cup DataFrames
    BY <1>1 DEF VmmInv, PagingInv, MappedInv
<1>4. VTypeOK'
    BY <1>1, <1>2 DEF VmmInv, VTypeOK, vmm
<1>5. StageInv'
    BY <1>1, <1>2 DEF VmmInv, StageInv, vmm
<1>6. PagingInv'
    BY <1>1, <1>2 DEF VmmInv, PagingInv, vmm
<1>7. MappedInv'
    BY <1>1, <1>2, <1>3 DEF VmmInv, MappedInv, Present, Translate, vmm
<1> QED BY <1>1, <1>4, <1>5, <1>6, <1>7 DEF VmmInv, PanicMeansExhausted

(* The page that vmm_map enters joins the mapped ones.                     *)
LEMMA MappedOneMore ==
    ASSUME VmmInv, at = "map", Mapped,
           owned \subseteq owned', NEW p, p = page, Present(p)', Translate(p)' = phys,
           \A v \in Mappable \ {p} :
               (Present(v)' <=> Present(v)) /\ (Present(v) => Translate(v)' = Translate(v)),
           Paging' \cap (DataFrames \cup {phys}) = {}
    PROVE  MappedInv'
<1> USE DEF Mapped
<1>1. /\ page \in HeapPages /\ page \in Nat /\ page \notin Done /\ phys # NULL
      /\ Done \subseteq HeapPages /\ HEAP_FIRST .. page = Done \cup {page}
    BY PageIsHeapPage DEF VmmInv, StageInv
<1>2. Done' = Done \cup {page}
  <2>1. (page + 1) - 1 = page
      BY <1>1
  <2> QED BY <1>1, <2>1 DEF Done
<1>3. page \in Mappable /\ Done \subseteq Mappable \ {page}
    BY <1>1, HeapIndices
<1>4. \A v \in Done : Present(v)' /\ Translate(v)' = Translate(v)
    BY <1>3 DEF VmmInv, MappedInv
<1>5. DataFrames' = DataFrames \cup {phys}
    BY <1>2, <1>4 DEF DataFrames
<1>6. /\ phys \notin DataFrames /\ DataFrames \cup {phys} \subseteq owned /\ NULL \notin DataFrames
      /\ \A v, w \in Done : Translate(v) = Translate(w) => v = w
      /\ \A v \in Mappable : Present(v) => v \in Done
  <2>1. NULL \notin DataFrames
      BY DEF VmmInv, MappedInv, Present, DataFrames, Translate
  <2> QED BY <1>1, <2>1 DEF VmmInv, MappedInv
<1>7. \A v, w \in Done' : (Translate(v) = Translate(w))' => v = w
    BY <1>2, <1>4, <1>6 DEF DataFrames
<1>8. \A v \in Done' : Present(v)'
    BY <1>2, <1>4
<1>9. \A v \in Mappable : Present(v)' => v \in Done'
    BY <1>2, <1>6
<1>10. (DataFrames \cup ({phys} \ {NULL}))' \subseteq owned' \ Paging' /\ phys' \notin DataFrames'
    BY <1>1, <1>5, <1>6
<1> QED BY <1>7, <1>8, <1>9, <1>10 DEF MappedInv, Mappable

LEMMA StepMapInTable ==
    ASSUME VmmInv, MapInTable
    PROVE  VmmInv'
<1> USE DEF MapInTable
<1> DEFINE d == PdIndex(page)  e == PtIndex(page)  t == pde[d]
<1>1. PmmInv' /\ phase' = phase /\ owned' = owned /\ used' = used /\ total_blocks' = total_blocks
    BY NextPmmInv DEF VmmInv, vars
<1>2. /\ page \in HeapPages /\ page \in Nat /\ page' = page + 1 /\ phys' = NULL
      /\ page < HeapEnd /\ at' = "heap_init" /\ phase = "ready" /\ phys # NULL
    BY PageIsHeapPage DEF VmmInv, StageInv, Mapped
<1>3. d \in Directory \ {0} /\ e \in Entries /\ page \in Mappable /\ 0 \in Directory
    BY <1>2, HeapIndices, PageIsHeapPage DEF VmmInv
<1>4. t \in Tables /\ pte[t] \in [Entries -> Int] /\ phys \in Int /\ pte \in [Tables -> [Entries -> Int]]
    BY <1>3 DEF VmmInv, VTypeOK
<1>5. /\ pte' \in [Tables -> [Entries -> Int]] /\ Tables' = Tables /\ Paging' = Paging
      /\ \A x \in Tables, k \in Entries :
            pte'[x][k] = IF x = t /\ k = e THEN phys ELSE pte[x][k]
  <2>1. pte' = [pte EXCEPT ![t] = [pte[t] EXCEPT ![e] = phys]]
      OBVIOUS
  <2>2. pte' \in [Tables -> [Entries -> Int]]
      BY <1>3, <1>4, <2>1
  <2>3. Tables' = Tables
      BY <1>4, <2>2 DEF Tables
  <2> QED BY <1>3, <1>4, <2>1, <2>2, <2>3 DEF Paging
<1>6. VTypeOK'
    BY <1>2, <1>5, TableSize DEF VmmInv, VTypeOK, NULL, HeapEnd
<1>7. StageInv'
    BY <1>1, <1>2, <1>5 DEF VmmInv, StageInv
<1>8. PagingInv'
  <2>1. pde[0] # NULL => pde[0] # t /\ pde[0] \in Tables
      BY <1>3 DEF VmmInv, VTypeOK, PagingInv
  <2> QED BY <1>1, <1>5, <2>1 DEF VmmInv, PagingInv
<1>9. MappedInv'
  <2>1. pde'[d] # NULL /\ pte'[pde'[d]][e] = phys
      BY <1>2, <1>3, <1>4, <1>5
  <2>4. ASSUME NEW q, q = page PROVE Present(q)' /\ Translate(q)' = phys
      BY <1>2, <2>4, <2>1 DEF Present, Translate
  <2>2. ASSUME NEW v \in Mappable \ {page}
        PROVE  (Present(v)' <=> Present(v)) /\ (Present(v) => Translate(v)' = Translate(v))
    <3>1. PdIndex(v) \in Directory /\ PtIndex(v) \in Entries /\ v \in Nat
        BY <2>2, MappableIndices
    <3>2. CASE pde[PdIndex(v)] = NULL
        BY <3>2 DEF Present
    <3>3. CASE pde[PdIndex(v)] # NULL
      <4>1. pde[PdIndex(v)] \in Tables
          BY <3>1, <3>3 DEF VmmInv, VTypeOK
      <4>2. ~(pde[PdIndex(v)] = t /\ PtIndex(v) = e)
          BY <1>2, <1>3, <2>2, <3>1, <3>3, IndicesTell DEF VmmInv, PagingInv
      <4>3. pte'[pde[PdIndex(v)]][PtIndex(v)] = pte[pde[PdIndex(v)]][PtIndex(v)]
          BY <1>5, <3>1, <4>1, <4>2
      <4> QED BY <4>3 DEF Present, Translate
    <3> QED BY <3>2, <3>3
  <2>3. Paging' \cap (DataFrames \cup {phys}) = {}
      BY <1>2, <1>5 DEF VmmInv, MappedInv
  <2> QED BY <1>1, <2>4, <2>2, <2>3, MappedOneMore
<1> QED BY <1>1, <1>2, <1>6, <1>7, <1>8, <1>9 DEF VmmInv, PanicMeansExhausted

LEMMA StepMapInNewTable ==
    ASSUME VmmInv, NEW f \in AllFrames, MapInNewTable(f)
    PROVE  VmmInv'
<1> USE DEF MapInNewTable
<1> DEFINE d == PdIndex(page)  e == PtIndex(page)
<1>1. /\ PmmInv' /\ phase = "ready" /\ phase' = "ready" /\ f \notin owned
      /\ owned' = owned \cup {f} /\ f \in Entries /\ f # NULL /\ f \in Int
    BY AllocLowGets DEF VmmInv
<1>2. /\ page \in HeapPages /\ page \in Nat /\ page' = page + 1 /\ phys' = NULL
      /\ page < HeapEnd /\ at' = "heap_init" /\ phys # NULL
    BY PageIsHeapPage DEF VmmInv, StageInv, Mapped
<1>3. d \in Directory \ {0} /\ e \in Entries /\ page \in Mappable /\ 0 \in Directory
    BY <1>2, HeapIndices, PageIsHeapPage DEF VmmInv
<1>4. f \notin Paging \cup DataFrames \cup {phys}
    BY <1>1, <1>2 DEF VmmInv, PagingInv, MappedInv
<1>5. /\ Tables' = Tables \cup {f} /\ Paging' = Paging \cup {f}
      /\ \A x \in Tables : pte'[x] = pte[x]
      /\ pte'[f] = [k \in Entries |-> IF k = e THEN phys ELSE NULL]
    BY <1>4 DEF Tables, Paging
<1>6. /\ pde' = [pde EXCEPT ![d] = f] /\ pde \in [Directory -> Tables \cup {NULL}]
      /\ pde' \in [Directory -> Tables' \cup {NULL}]
    BY <1>3, <1>5 DEF VmmInv, VTypeOK
<1>7. VTypeOK'
  <2>1. pte' \in [Tables' -> [Entries -> Int]]
    <3>1. pte'[f] \in [Entries -> Int]
        BY <1>5 DEF VmmInv, VTypeOK, NULL
    <3>2. pte \in [Tables -> [Entries -> Int]]
        BY DEF VmmInv, VTypeOK
    <3>3. pte' = [x \in Tables' |-> pte'[x]]
        BY DEF Tables
    <3> QED BY <1>5, <3>1, <3>2, <3>3
  <2>2. page' \in HEAP_FIRST .. HeapEnd
      BY <1>2, TableSize DEF VmmInv, VTypeOK, HeapEnd
  <2> QED BY <1>2, <1>6, <2>1, <2>2 DEF VmmInv, VTypeOK, NULL
<1>8. StageInv'
    BY <1>1, <1>2, <1>3, <1>5, <1>6 DEF VmmInv, StageInv
<1>9. PagingInv'
  <2>1. pde'[0] = pde[0]
      BY <1>3, <1>6
  <2>2. \A a, b \in Directory : a # b /\ pde'[a] # NULL => pde'[a] # pde'[b]
      BY <1>1, <1>3, <1>4, <1>6 DEF VmmInv, PagingInv, Paging
  <2>3. pde[0] # NULL => pde[0] \in Tables
      BY <1>3, <1>6
  <2>4. pde[0] # NULL => \A k \in Entries : pte'[pde[0]][k] = k
      BY <1>5, <2>3 DEF VmmInv, PagingInv
  <2>5. Paging' \ {NULL} \subseteq owned' \cap Entries /\ page_directory' \notin Tables' /\ NULL \notin Tables'
      BY <1>1, <1>4, <1>5 DEF VmmInv, PagingInv, Paging
  <2> QED BY <2>1, <2>2, <2>4, <2>5 DEF PagingInv
<1>10. MappedInv'
  <2>1. pde'[d] # NULL /\ pte'[pde'[d]][e] = phys
      BY <1>1, <1>2, <1>3, <1>5, <1>6
  <2>4. ASSUME NEW q, q = page PROVE Present(q)' /\ Translate(q)' = phys
      BY <1>2, <2>4, <2>1 DEF Present, Translate
  <2>2. ASSUME NEW v \in Mappable \ {page}
        PROVE  (Present(v)' <=> Present(v)) /\ (Present(v) => Translate(v)' = Translate(v))
    <3>1. PdIndex(v) \in Directory /\ PtIndex(v) \in Entries /\ v \in Nat
        BY <2>2, MappableIndices
    <3>2. CASE PdIndex(v) = d
      <4>1. PtIndex(v) # e
          BY <1>2, <2>2, <3>1, <3>2, IndicesTell
      <4>2. ~Present(v)
          BY <3>2 DEF Present
      <4>3. pte'[pde'[PdIndex(v)]][PtIndex(v)] = NULL
          BY <1>3, <1>5, <1>6, <3>1, <3>2, <4>1
      <4> QED BY <4>2, <4>3 DEF Present
    <3>3. CASE PdIndex(v) # d
      <4>1. pde'[PdIndex(v)] = pde[PdIndex(v)] /\ pde[PdIndex(v)] \in Tables \cup {NULL}
          BY <1>3, <1>6, <3>1, <3>3
      <4> QED BY <1>5, <4>1 DEF Present, Translate
    <3> QED BY <3>2, <3>3
  <2>3. Paging' \cap (DataFrames \cup {phys}) = {}
      BY <1>2, <1>4, <1>5 DEF VmmInv, MappedInv
  <2> QED BY <1>1, <2>4, <2>2, <2>3, MappedOneMore
<1> QED BY <1>1, <1>2, <1>7, <1>8, <1>9, <1>10 DEF VmmInv, PanicMeansExhausted

(* panic() after a failed allocation changes nothing but the stage.        *)
LEMMA PanicKeeps ==
    ASSUME VmmInv, at # "pmm_init", PmmInv', phase' = phase, owned' = owned, at' = "panic",
           UNCHANGED << vmm, page, phys >>, PanicMeansExhausted'
    PROVE  VmmInv'
<1>1. PagingInv' /\ MappedInv' /\ VTypeOK' /\ Tables' = Tables
    BY TranslationsKept, HeldIsOwned DEF VmmInv
<1>2. StageInv'
    BY <1>1 DEF VmmInv, StageInv, vmm
<1> QED BY <1>1, <1>2 DEF VmmInv

LEMMA StepVmmInitFails ==
    ASSUME VmmInv, VmmInitFails
    PROVE  VmmInv'
BY AllocLowFailsExhausted, PanicKeeps DEF VmmInitFails, VmmInv, PanicMeansExhausted

LEMMA StepMapFails ==
    ASSUME VmmInv, MapFails
    PROVE  VmmInv'
BY AllocLowFailsExhausted, PanicKeeps DEF MapFails, VmmInv, PanicMeansExhausted

LEMMA StepHeapFrameFails ==
    ASSUME VmmInv, HeapFrameFails
    PROVE  VmmInv'
BY AllocFailsExhausted, PanicKeeps DEF HeapFrameFails, VmmInv, PanicMeansExhausted

LEMMA StepHeapReady ==
    ASSUME VmmInv, HeapReady
    PROVE  VmmInv'
<1> USE DEF HeapReady
<1>1. PmmInv' /\ owned' = owned /\ phase' = phase
    BY NextPmmInv DEF VmmInv, vars
<1>2. PagingInv' /\ MappedInv' /\ VTypeOK' /\ Tables' = Tables
    BY <1>1, TranslationsKept, HeldIsOwned DEF VmmInv
<1>3. StageInv'
    BY <1>1, <1>2 DEF VmmInv, StageInv, vmm
<1> QED BY <1>1, <1>2, <1>3 DEF VmmInv, PanicMeansExhausted

LEMMA StutterVmm ==
    ASSUME VmmInv, UNCHANGED vvars
    PROVE  VmmInv'
<1>1. /\ PmmInv' /\ owned' = owned /\ phase' = phase /\ used' = used
      /\ total_blocks' = total_blocks /\ at' = at /\ UNCHANGED << vmm, page, phys >>
    BY NextPmmInv DEF VmmInv, vars, vvars
<1>2. at' \in { "pmm_init", "directory", "first_table", "heap_init", "map", "ready", "panic" }
    BY <1>1 DEF VmmInv, VTypeOK
<1>3. PagingInv' /\ MappedInv' /\ VTypeOK' /\ Tables' = Tables
    BY <1>1, <1>2, TranslationsKept, HeldIsOwned DEF VmmInv
<1>4. StageInv'
    BY <1>1, <1>3 DEF VmmInv, StageInv, vmm
<1>5. PanicMeansExhausted'
    BY <1>1 DEF VmmInv, PanicMeansExhausted, AllFrames
<1> QED BY <1>1, <1>3, <1>4, <1>5 DEF VmmInv

LEMMA BootVmmInv ==
    ASSUME VmmInv, Boot
    PROVE  VmmInv'
BY StepPmmInitStep, StepVmmDirectory, StepVmmFirstTable, StepHeapFrame, StepMapInNewTable,
   StepMapInTable, StepHeapReady, StepVmmInitFails, StepHeapFrameFails, StepMapFails DEF Boot

-----------------------------------------------------------------------------
(* The self test.  It works on frames the kernel does not use.             *)
LEMMA PmmWorks ==
    ASSUME VmmInv, at = "ready", OnlyPmm, PmmInv', phase' = phase, Held \subseteq owned'
    PROVE  VmmInv' /\ Paging' = Paging /\ DataFrames' = DataFrames
<1>1. at' = "ready" /\ UNCHANGED << vmm, page, phys >>
    BY DEF OnlyPmm
<1>2. /\ PagingInv' /\ MappedInv' /\ VTypeOK' /\ Tables' = Tables
      /\ Paging' = Paging /\ DataFrames' = DataFrames
    BY <1>1, TranslationsKept DEF VmmInv
<1>3. StageInv'
    BY <1>1, <1>2 DEF VmmInv, StageInv, vmm
<1> QED BY <1>1, <1>2, <1>3 DEF VmmInv, PanicMeansExhausted

LEMMA HeldBefore ==
    ASSUME SelfTestInv, test # "off"
    PROVE  Held \subseteq ownedBefore /\ phys = NULL /\ at = "ready" /\ phase = "ready"
BY DEF SelfTestInv, BatchInv, VmmInv, StageInv, Held

LEMMA SInitSelfTestInv == SInit => SelfTestInv
<1> SUFFICES ASSUME SInit PROVE SelfTestInv
    OBVIOUS
<1>1. VmmInv
    BY VInitVmmInv DEF SInit
<1>2. TestTypeOK
    BY DEF SInit, TestTypeOK, NoRc
<1> QED BY <1>1, <1>2 DEF SInit, SelfTestInv, BatchInv, LoopInv, SelfTestRestores

LEMMA StepBoot ==
    ASSUME SelfTestInv, Boot, UNCHANGED testVars
    PROVE  SelfTestInv'
<1>1. VmmInv'
    BY BootVmmInv DEF SelfTestInv
<1>2. at # "ready" /\ (phase = "ready" \/ at = "pmm_init")
    BY DEF Boot, PmmInitStep, VmmDirectory, VmmFirstTable, HeapFrame, MapInNewTable, MapInTable,
           HeapReady, VmmInitFails, HeapFrameFails, MapFails, SelfTestInv, VmmInv, StageInv
<1>3. test = "off" /\ rc = NoRc
    BY <1>2 DEF SelfTestInv, BatchInv, LoopInv
<1>4. TestTypeOK'
    BY DEF SelfTestInv, TestTypeOK, testVars
<1> QED BY <1>1, <1>3, <1>4 DEF SelfTestInv, BatchInv, LoopInv, SelfTestRestores, testVars

LEMMA FreePages ==
    ASSUME PmmInv
    PROVE  /\ free_pages \in Int /\ free_pages = total_blocks - Cardinality(used)
           /\ free_pages >= 0 /\ (Full <=> free_pages = 0)
<1>1. /\ total_blocks \in Nat /\ used_blocks \in Nat /\ used_blocks = Cardinality(used)
      /\ IsFiniteSet(used) /\ Cardinality(used) <= total_blocks
  <2>1. total_blocks \in Nat /\ used_blocks \in Nat /\ used_blocks = Cardinality(used)
      BY DEF PmmInv, TypeOK, CounterExact
  <2>2. IsFiniteSet(AllFrames) /\ Cardinality(AllFrames) = total_blocks
    <3>1. IsFiniteSet(0 .. (total_blocks - 1))
        BY <2>1, FS_Interval
    <3> QED BY <2>1, <3>1, IntervalSize DEF AllFrames
  <2>3. used \subseteq AllFrames
      BY DEF PmmInv, TypeOK
  <2> QED BY <2>1, <2>2, <2>3, FS_Subset
<1> QED BY <1>1 DEF free_pages, Full

LEMMA TestSize ==
    ASSUME free_pages \in Nat
    PROVE  /\ PagesToTest \in Nat /\ PagesToTest <= free_pages
           /\ PagesToTest = 0 => free_pages = 0
<1> DEFINE share == free_pages \div TEST_SHARE
<1>1. TEST_SHARE \in Nat \ {0} /\ TEST_MIN \in Nat \ {0} /\ TEST_MAX \in Nat
    BY SelfTestAssumption
<1>2. share \in Nat /\ share <= free_pages
    BY <1>1
<1> HIDE DEF share
<1>3. PagesToTest = LET capped == IF share > TEST_MAX THEN TEST_MAX ELSE share
                    IN  IF capped >= TEST_MIN THEN capped
                        ELSE IF free_pages >= TEST_MIN THEN TEST_MIN ELSE free_pages
    BY DEF PagesToTest, share
<1> QED BY <1>1, <1>2, <1>3

LEMMA StepSelfTestPmm ==
    ASSUME SelfTestInv, SelfTestPmm
    PROVE  SelfTestInv'
<1> USE DEF SelfTestPmm
<1>1. /\ PmmInv /\ PmmInv' /\ used' = used /\ owned' = owned /\ total_blocks' = total_blocks
      /\ used_blocks' = used_blocks /\ phase' = phase
    BY NextPmmInv DEF SelfTestInv, VmmInv, OnlyTest, vars
<1>2. VmmInv' /\ Paging' = Paging /\ DataFrames' = DataFrames /\ at' = "ready"
    BY <1>1, PmmWorks, HeldIsOwned DEF SelfTestInv, VmmInv, OnlyTest, OnlyPmm
<1>3. free_pages \in Nat /\ free_pages = total_blocks - Cardinality(used) /\ (Full <=> free_pages = 0)
    BY <1>1, FreePages
<1>4. PagesToTest \in Nat /\ PagesToTest <= free_pages /\ (PagesToTest = 0 => free_pages = 0)
    BY <1>3, TestSize
<1>5. CASE PagesToTest = 0
  <2>1. TestTypeOK' /\ test' = "off"
      BY <1>5 DEF SelfTestInv, TestTypeOK
  <2>2. SelfTestRestores'
      BY <1>1, <1>3, <1>4, <1>5 DEF SelfTestRestores, Full
  <2> QED BY <1>2, <2>1, <2>2 DEF SelfTestInv, BatchInv, LoopInv
<1>6. CASE PagesToTest # 0
  <2> DEFINE n == PagesToTest
  <2>1. /\ test' = "batch" /\ ti' = 1 /\ rc' = NoRc /\ free_before' = free_pages
        /\ pmm_test_pages' = [k \in 1..n |-> NULL] /\ ownedBefore' = owned
      BY <1>6
  <2> HIDE DEF n
  <2>2. n \in Nat /\ n > 0 /\ n <= free_pages
      BY <1>4, <1>6 DEF n
  <2>3. pmm_test_pages' \in Seq(Int) /\ Batch' = n /\ \A k \in 1..n : pmm_test_pages'[k] = NULL
      BY <2>1, <2>2 DEF Batch, NULL
  <2>4. TestPages' = {}
      BY <2>3 DEF TestPages
  <2>5. TestTypeOK'
      BY <1>3, <2>1, <2>3 DEF TestTypeOK, NoRc
  <2>6. BatchInv'
    <3>1. total_blocks' = free_before' + Cardinality(used')
        BY <1>1, <1>3, <2>1 DEF PmmInv, TypeOK, CounterExact
    <3>2. ((Paging \cup DataFrames) \ {NULL})' \subseteq ownedBefore'
        BY <1>2, <2>1, HeldIsOwned DEF Held, SelfTestInv, VmmInv
    <3>3. used' \ TestPages' = used'
        BY <2>4
    <3> QED BY <1>1, <1>2, <2>1, <2>2, <2>3, <2>4, <3>1, <3>2, <3>3 DEF BatchInv
  <2>7. LoopInv'
      BY <1>2, <2>1, <2>2, <2>3 DEF LoopInv
  <2> QED BY <1>2, <2>1, <2>5, <2>6, <2>7 DEF SelfTestInv, SelfTestRestores
<1> QED BY <1>5, <1>6

(* A store in the batch.                                                   *)
LEMMA EntrySet ==
    ASSUME TestTypeOK, ti <= Batch, NEW f \in Int, SetHere(f)
    PROVE  /\ pmm_test_pages' \in Seq(Int) /\ Batch' = Batch /\ Batch \in Nat /\ ti \in 1..Batch
           /\ \A k \in 1..Batch : pmm_test_pages'[k] = IF k = ti THEN f ELSE pmm_test_pages[k]
<1>1. Batch \in Nat /\ ti \in 1..Batch /\ pmm_test_pages \in Seq(Int)
    BY DEF TestTypeOK, Batch
<1>2. pmm_test_pages' = [pmm_test_pages EXCEPT ![ti] = f]
    BY DEF SetHere
<1> QED BY <1>1, <1>2 DEF Batch

LEMMA StepTypes ==
    ASSUME TestTypeOK, NEW s \in {1, 2}, NEW then, Step(s, then), ti <= Batch, Batch' = Batch
    PROVE  /\ ti' \in Nat \ {0} /\ ti' <= Batch'
           /\ \/ ti' = ti + s /\ test' = test
              \/ ti' = 1 /\ test' = then /\ ti + s > Batch
BY DEF TestTypeOK, Step, Batch

(* The frames that the test holds are finitely many, and while an entry is *)
(* NULL fewer than the batch.                                              *)
LEMMA TestPagesFewer ==
    ASSUME TestTypeOK, ti <= Batch, Here = NULL
    PROVE  IsFiniteSet(TestPages) /\ Cardinality(TestPages) < Batch
<1> DEFINE S == (1..Batch) \ {ti}
           h == [k \in S |-> pmm_test_pages[k]]
           T == { h[k] : k \in S }
<1>1. Batch \in Nat /\ ti \in 1..Batch
    BY DEF TestTypeOK, Batch
<1>2. IsFiniteSet(1..Batch) /\ Cardinality(1..Batch) = Batch
    BY <1>1, FS_Interval
<1>3. IsFiniteSet(S) /\ Cardinality(S) = Batch - 1
    BY <1>1, <1>2, FS_RemoveElement
<1>4. IsFiniteSet(T) /\ Cardinality(T) <= Cardinality(S)
  <2>1. h \in Surjection(S, T)
    <3>1. h \in [S -> T]
        OBVIOUS
    <3>2. \A y \in T : \E x \in S : h[x] = y
        OBVIOUS
    <3> QED BY <3>1, <3>2 DEF Surjection
  <2> QED BY <1>3, <2>1, FS_Surjection
<1>5. TestPages \subseteq T
    BY DEF TestPages, Here
<1>6. IsFiniteSet(TestPages) /\ Cardinality(TestPages) <= Cardinality(T)
    BY <1>4, <1>5, FS_Subset
<1>7. Cardinality(T) \in Nat /\ Cardinality(S) \in Nat /\ Cardinality(TestPages) \in Nat
    BY <1>3, <1>4, <1>6, FS_CardinalityType
<1> QED BY <1>1, <1>3, <1>4, <1>6, <1>7

(* The allocation of the self test never fails.                            *)
LEMMA TestAllocFinds ==
    ASSUME SelfTestInv, test # "off", Here = NULL
    PROVE  ~Full
<1>1. PmmInv /\ TestTypeOK /\ ti <= Batch /\ Batch <= free_before
    BY DEF SelfTestInv, VmmInv, BatchInv
<1>2. IsFiniteSet(TestPages) /\ Cardinality(TestPages) < Batch
    BY <1>1, TestPagesFewer
<1>3. IsFiniteSet(used) /\ TestPages \subseteq used
  <2>1. TestPages \subseteq owned /\ owned \subseteq used
      BY DEF SelfTestInv, BatchInv, VmmInv, PmmInv, OwnedInv
  <2> QED BY <1>1, <2>1, UsedFinite DEF PmmInv
<1>4. Cardinality(used) = Cardinality(used \ TestPages) + Cardinality(TestPages)
  <2>1. used \cap TestPages = TestPages
      BY <1>3
  <2>2. Cardinality(used \ TestPages) = Cardinality(used) - Cardinality(TestPages)
      BY <1>3, <2>1, FS_Difference
  <2>3. Cardinality(used) \in Nat /\ Cardinality(TestPages) \in Nat
      BY <1>2, <1>3, FS_CardinalityType
  <2> QED BY <2>2, <2>3
<1>5. total_blocks = free_before + Cardinality(used \ TestPages) /\ used_blocks = Cardinality(used)
    BY DEF SelfTestInv, BatchInv, VmmInv, PmmInv, CounterExact
<1>6. /\ Batch \in Nat /\ free_before \in Nat /\ Cardinality(TestPages) \in Nat
      /\ Cardinality(used \ TestPages) \in Nat
  <2>1. IsFiniteSet(used \ TestPages)
      BY <1>3, FS_Difference
  <2> QED BY <1>1, <1>2, <2>1, FS_CardinalityType DEF TestTypeOK, Batch
<1> QED BY <1>1, <1>2, <1>4, <1>5, <1>6 DEF Full

LEMMA TookOne ==
    ASSUME SelfTestInv, test # "off", Here = NULL, NEW f \in AllFrames, AllocPage(f), SetHere(f),
           Kept, OnlyPmm, ti' <= Batch
    PROVE  VmmInv' /\ BatchInv' /\ at' = "ready"
<1>1. /\ PmmInv' /\ phase' = phase /\ total_blocks' = total_blocks /\ f \notin owned
      /\ owned' = owned \cup {f} /\ f # NULL /\ f \in Int
    BY AllocGets DEF SelfTestInv, VmmInv
<1>2. /\ Held \subseteq ownedBefore /\ at = "ready" /\ owned = ownedBefore \cup TestPages
      /\ at' = "ready" /\ ownedBefore' = ownedBefore /\ free_before' = free_before
    BY HeldBefore DEF SelfTestInv, BatchInv, OnlyPmm, Kept
<1>3. VmmInv' /\ Paging' = Paging /\ DataFrames' = DataFrames
    BY <1>1, <1>2, PmmWorks DEF SelfTestInv
<1>4. /\ Batch' = Batch /\ ti \in 1..Batch
      /\ \A k \in 1..Batch : pmm_test_pages'[k] = IF k = ti THEN f ELSE pmm_test_pages[k]
    BY <1>1, EntrySet DEF SelfTestInv, BatchInv
<1>5. TestPages' = TestPages \cup {f}
    BY <1>1, <1>4 DEF TestPages, Here
<1>6. used' \ TestPages' = used \ TestPages
  <2>1. used' = used \cup {f}
      BY DEF AllocPage, pmm_set
  <2>2. f \notin used
      BY AllocIsLowest DEF LowestFree, SelfTestInv, VmmInv
  <2> QED BY <1>5, <2>1, <2>2
<1>7. \A j, k \in 1..Batch :
          pmm_test_pages'[j] = pmm_test_pages'[k] /\ pmm_test_pages'[j] # NULL => j = k
  <2>1. \A k \in 1..Batch : pmm_test_pages[k] # f
      BY <1>1, <1>2 DEF TestPages
  <2>2. \A j, k \in 1..Batch :
            pmm_test_pages[j] = pmm_test_pages[k] /\ pmm_test_pages[j] # NULL => j = k
      BY DEF SelfTestInv, BatchInv
  <2> QED BY <1>4, <2>1, <2>2
<1>8. f \notin ownedBefore
    BY <1>1, <1>2
<1> QED BY <1>1, <1>2, <1>3, <1>4, <1>5, <1>6, <1>7, <1>8 DEF SelfTestInv, BatchInv

LEMMA GaveBack ==
    ASSUME SelfTestInv, test # "off", Here # NULL, FreePage(Here), SetHere(NULL),
           Kept, OnlyPmm, ti' <= Batch
    PROVE  VmmInv' /\ BatchInv' /\ at' = "ready"
<1> DEFINE h == Here
<1>1. ti \in 1..Batch /\ h \in TestPages
  <2>1. ti \in 1..Batch
      BY DEF SelfTestInv, TestTypeOK, BatchInv, Batch
  <2> QED BY <2>1 DEF Here, TestPages
<1>2. /\ Held \subseteq ownedBefore /\ at = "ready" /\ owned = ownedBefore \cup TestPages
      /\ ownedBefore \cap TestPages = {}
      /\ at' = "ready" /\ ownedBefore' = ownedBefore /\ free_before' = free_before
    BY HeldBefore DEF SelfTestInv, BatchInv, OnlyPmm, Kept
<1>3. /\ PmmInv' /\ phase' = phase /\ total_blocks' = total_blocks
      /\ owned' = owned \ {h} /\ used' = used \ {h}
  <2>1. PmmInv'
      BY <1>1, <1>2, StepFreePage DEF SelfTestInv, VmmInv
  <2> QED BY <2>1 DEF FreePage, Frozen
<1>4. VmmInv' /\ Paging' = Paging /\ DataFrames' = DataFrames
    BY <1>1, <1>2, <1>3, PmmWorks DEF SelfTestInv
<1>5. /\ Batch' = Batch
      /\ \A k \in 1..Batch : pmm_test_pages'[k] = IF k = ti THEN NULL ELSE pmm_test_pages[k]
  <2>1. NULL \in Int
      BY DEF NULL
  <2> QED BY <2>1, EntrySet DEF SelfTestInv, BatchInv
<1>6. \A j, k \in 1..Batch :
          pmm_test_pages[j] = pmm_test_pages[k] /\ pmm_test_pages[j] # NULL => j = k
    BY DEF SelfTestInv, BatchInv
<1>7. TestPages' = TestPages \ {h}
    BY <1>1, <1>5, <1>6 DEF TestPages, Here
<1>8. used' \ TestPages' = used \ TestPages
    BY <1>1, <1>3, <1>7
<1>9. \A j, k \in 1..Batch :
          pmm_test_pages'[j] = pmm_test_pages'[k] /\ pmm_test_pages'[j] # NULL => j = k
    BY <1>5, <1>6
<1> HIDE DEF h
<1>10. owned' = ownedBefore \cup TestPages' /\ ownedBefore \cap TestPages' = {}
    BY <1>1, <1>2, <1>3, <1>7
<1> QED BY <1>2, <1>3, <1>4, <1>5, <1>8, <1>9, <1>10 DEF SelfTestInv, BatchInv

LEMMA StepTestAlloc ==
    ASSUME SelfTestInv, TestAlloc
    PROVE  SelfTestInv'
<1> USE DEF TestAlloc
<1>1. /\ test \in {"batch", "gaps"} /\ TestTypeOK /\ ti <= Batch /\ ti \in Nat \ {0} /\ Batch \in Nat
      /\ rc' = rc /\ free_before' = free_before
    BY DEF SelfTestInv, BatchInv, TestTypeOK, Batch, Kept
<1>2. Here = NULL
    BY <1>1 DEF SelfTestInv, LoopInv, Here
<1>3. ~Full
    BY <1>1, <1>2, TestAllocFinds
<1>4. PICK f \in AllFrames : AllocPage(f) /\ SetHere(f)
    BY <1>3
<1>5. /\ f # NULL /\ f \in Int
    BY <1>4, AllocGets DEF SelfTestInv, VmmInv
<1>6. /\ pmm_test_pages' \in Seq(Int) /\ Batch' = Batch
      /\ \A k \in 1..Batch : pmm_test_pages'[k] = IF k = ti THEN f ELSE pmm_test_pages[k]
    BY <1>1, <1>4, <1>5, EntrySet
<1>7. /\ ti' \in Nat \ {0} /\ ti' <= Batch
      /\ test = "batch" => \/ ti' = ti + 1 /\ test' = test
                           \/ ti' = 1 /\ test' = "every_other" /\ ti + 1 > Batch
      /\ test = "gaps" => \/ ti' = ti + 2 /\ test' = test
                          \/ ti' = 1 /\ test' = "cleanup"
  <2>1. Step(1, "every_other") \/ Step(2, "cleanup")
      BY <1>3
  <2> QED BY <1>1, <1>3, <1>6, <2>1, StepTypes
<1>8. VmmInv' /\ BatchInv' /\ at' = "ready"
    BY <1>1, <1>2, <1>4, <1>7, TookOne
<1>9. TestTypeOK' /\ test' # "off"
    BY <1>1, <1>6, <1>7 DEF TestTypeOK
<1>10. LoopInv'
  <2>1. CASE test = "batch"
    <3>1. \A k \in 1..Batch : pmm_test_pages[k] = NULL <=> k >= ti
        BY <2>1 DEF SelfTestInv, LoopInv
    <3>2. CASE test' = "batch"
      <4>1. ti' = ti + 1
          BY <1>7, <2>1, <3>2
      <4>2. \A k \in 1..Batch : pmm_test_pages'[k] = NULL <=> k >= ti'
          BY <1>1, <1>5, <1>6, <3>1, <4>1
      <4> QED BY <1>6, <1>8, <3>2, <4>2 DEF LoopInv
    <3>3. CASE test' = "every_other"
      <4>1. ti' = 1 /\ ti' % 2 = 1 /\ ti + 1 > Batch
          BY <1>7, <2>1, <3>3
      <4>2. \A k \in 1..Batch : pmm_test_pages'[k] # NULL /\ ~(k < ti')
          BY <1>1, <1>5, <1>6, <3>1, <4>1
      <4> QED BY <1>6, <1>8, <3>3, <4>1, <4>2 DEF LoopInv
    <3> QED BY <1>7, <2>1, <3>2, <3>3
  <2>2. CASE test = "gaps"
    <3>1. ti % 2 = 1 /\ \A k \in ti..Batch : k % 2 = 1 => pmm_test_pages[k] = NULL
        BY <2>2 DEF SelfTestInv, LoopInv
    <3>2. CASE test' = "gaps"
      <4>1. ti' = ti + 2
          BY <1>7, <2>2, <3>2
      <4>2. ti' % 2 = 1
          BY <1>1, <3>1, <4>1
      <4>3. \A k \in ti'..Batch : k % 2 = 1 => pmm_test_pages'[k] = NULL
          BY <1>1, <1>6, <3>1, <4>1
      <4> QED BY <1>6, <1>8, <3>2, <4>2, <4>3 DEF LoopInv
    <3>3. CASE test' = "cleanup" /\ ti' = 1
        BY <1>8, <3>3 DEF LoopInv
    <3> QED BY <1>7, <2>2, <3>2, <3>3
  <2> QED BY <1>1, <2>1, <2>2
<1> QED BY <1>8, <1>9, <1>10 DEF SelfTestInv, SelfTestRestores

(* What the self test frees is allocated, so it meets no panic.            *)
LEMMA FreesItsOwn ==
    ASSUME SelfTestInv, test # "off", Here # NULL, NEW s \in {1, 2}, NEW then, FreeHere(s, then), Kept
    PROVE  /\ VmmInv' /\ BatchInv' /\ at' = "ready" /\ pmm_test_pages' \in Seq(Int)
           /\ Batch' = Batch /\ Batch \in Nat /\ ti \in 1..Batch
           /\ \A k \in 1..Batch : pmm_test_pages'[k] = IF k = ti THEN NULL ELSE pmm_test_pages[k]
           /\ ti' \in Nat \ {0}
           /\ \/ ti' = ti + s /\ test' = test
              \/ ti' = 1 /\ test' = then /\ ti + s > Batch
<1>1. TestTypeOK /\ ti <= Batch /\ ti \in 1..Batch /\ Batch \in Nat
    BY DEF SelfTestInv, TestTypeOK, BatchInv, Batch
<1>2. Here \in owned
    BY <1>1 DEF Here, SelfTestInv, BatchInv, TestPages
<1>3. ~FreePanics(Here)
    BY <1>2 DEF FreePanics, SelfTestInv, VmmInv, PmmInv, TypeOK, OwnedInv, AllFrames
<1>4. FreePage(Here) /\ SetHere(NULL) /\ Step(s, then) /\ OnlyPmm
    BY <1>3 DEF FreeHere
<1>5. /\ pmm_test_pages' \in Seq(Int) /\ Batch' = Batch
      /\ \A k \in 1..Batch : pmm_test_pages'[k] = IF k = ti THEN NULL ELSE pmm_test_pages[k]
  <2>1. NULL \in Int
      BY DEF NULL
  <2> QED BY <1>1, <1>4, <2>1, EntrySet
<1>6. /\ ti' \in Nat \ {0} /\ ti' <= Batch
      /\ \/ ti' = ti + s /\ test' = test
         \/ ti' = 1 /\ test' = then /\ ti + s > Batch
    BY <1>1, <1>4, <1>5, StepTypes
<1>7. VmmInv' /\ BatchInv' /\ at' = "ready"
    BY <1>4, <1>6, GaveBack
<1> QED BY <1>1, <1>5, <1>6, <1>7

LEMMA StepTestFree ==
    ASSUME SelfTestInv, TestFree
    PROVE  SelfTestInv'
<1>1. test = "every_other" /\ FreeHere(2, "gaps") /\ Kept
    BY DEF TestFree
<1>2. /\ ti % 2 = 1 /\ Here # NULL /\ ti \in Nat \ {0}
      /\ \A k \in 1..Batch : IF k < ti /\ k % 2 = 1 THEN pmm_test_pages[k] = NULL
                                                   ELSE pmm_test_pages[k] # NULL
  <2>1. ti % 2 = 1 /\ \A k \in 1..Batch : IF k < ti /\ k % 2 = 1 THEN pmm_test_pages[k] = NULL
                                                             ELSE pmm_test_pages[k] # NULL
      BY <1>1 DEF SelfTestInv, LoopInv
  <2>2. ti \in Nat \ {0} /\ ti <= Batch /\ Batch \in Nat
      BY <1>1 DEF SelfTestInv, TestTypeOK, BatchInv, Batch
  <2> QED BY <2>1, <2>2 DEF Here
<1>3. /\ VmmInv' /\ BatchInv' /\ at' = "ready" /\ pmm_test_pages' \in Seq(Int)
      /\ Batch' = Batch /\ Batch \in Nat /\ ti \in 1..Batch
      /\ \A k \in 1..Batch : pmm_test_pages'[k] = IF k = ti THEN NULL ELSE pmm_test_pages[k]
      /\ ti' \in Nat \ {0}
      /\ \/ ti' = ti + 2 /\ test' = test
         \/ ti' = 1 /\ test' = "gaps" /\ ti + 2 > Batch
    BY <1>1, <1>2, FreesItsOwn
<1>4. TestTypeOK' /\ test' # "off"
    BY <1>1, <1>3 DEF SelfTestInv, TestTypeOK, Kept
<1>5. LoopInv'
  <2>1. CASE test' = "every_other"
    <3>1. ti' = ti + 2 /\ ti' % 2 = 1
        BY <1>1, <1>2, <1>3, <2>1
    <3>2. \A k \in 1..Batch : IF k < ti' /\ k % 2 = 1 THEN pmm_test_pages'[k] = NULL
                                                     ELSE pmm_test_pages'[k] # NULL
        BY <1>2, <1>3, <3>1
    <3> QED BY <1>3, <2>1, <3>1, <3>2 DEF LoopInv
  <2>2. CASE test' = "gaps"
    <3>1. ti' = 1 /\ ti + 2 > Batch /\ ti' % 2 = 1
        BY <1>1, <1>3, <2>2
    <3>2. \A k \in 1..Batch : k % 2 = 1 => pmm_test_pages'[k] = NULL
        BY <1>2, <1>3, <3>1
    <3> QED BY <1>3, <2>2, <3>1, <3>2 DEF LoopInv
  <2> QED BY <1>1, <1>3, <2>1, <2>2
<1> QED BY <1>3, <1>4, <1>5 DEF SelfTestInv, SelfTestRestores

LEMMA StepCleanup ==
    ASSUME SelfTestInv, Cleanup
    PROVE  SelfTestInv'
<1>1. test = "cleanup" /\ Kept /\ ti \in Nat \ {0} /\ ti <= Batch /\ Batch \in Nat /\ ti \in 1..Batch
    BY DEF Cleanup, SelfTestInv, TestTypeOK, BatchInv, Batch
<1>2. /\ VmmInv' /\ BatchInv' /\ at' = "ready" /\ pmm_test_pages' \in Seq(Int)
      /\ Batch' = Batch /\ ti' \in Nat \ {0}
      /\ \A k \in 1..Batch : pmm_test_pages'[k] = IF k = ti THEN NULL ELSE pmm_test_pages[k]
      /\ \/ ti' = ti + 1 /\ test' = test
         \/ ti' = 1 /\ test' = "compare" /\ ti + 1 > Batch
  <2>1. CASE Here # NULL
    <3>1. FreeHere(1, "compare")
        BY <1>1, <2>1 DEF Cleanup
    <3> QED BY <1>1, <2>1, <3>1, FreesItsOwn
  <2>2. CASE Here = NULL
    <3>1. Step(1, "compare") /\ UNCHANGED pmm_test_pages /\ OnlyTest
        BY <1>1, <2>2 DEF Cleanup
    <3>2. /\ PmmInv' /\ used' = used /\ owned' = owned /\ total_blocks' = total_blocks
          /\ phase' = phase
        BY <3>1, NextPmmInv DEF SelfTestInv, VmmInv, OnlyTest, vars
    <3>3. VmmInv' /\ Paging' = Paging /\ DataFrames' = DataFrames /\ at' = "ready"
        BY <1>1, <3>1, <3>2, PmmWorks, HeldIsOwned, HeldBefore
           DEF SelfTestInv, VmmInv, OnlyTest, OnlyPmm
    <3>4. Batch' = Batch /\ TestPages' = TestPages
        BY <3>1 DEF Batch, TestPages
    <3>5. /\ ti' \in Nat \ {0} /\ ti' <= Batch
          /\ \/ ti' = ti + 1 /\ test' = test
             \/ ti' = 1 /\ test' = "compare" /\ ti + 1 > Batch
        BY <1>1, <3>1, <3>4, StepTypes DEF SelfTestInv
    <3>6. BatchInv'
        BY <1>1, <3>1, <3>2, <3>3, <3>4, <3>5 DEF SelfTestInv, BatchInv, Kept
    <3> QED BY <2>2, <3>1, <3>3, <3>4, <3>5, <3>6 DEF SelfTestInv, TestTypeOK, Here
  <2> QED BY <2>1, <2>2
<1>3. TestTypeOK' /\ test' # "off"
    BY <1>1, <1>2 DEF SelfTestInv, TestTypeOK, Kept
<1>4. \A k \in 1..(ti - 1) : pmm_test_pages[k] = NULL
    BY <1>1 DEF SelfTestInv, LoopInv
<1>5. \A k \in 1..ti : pmm_test_pages'[k] = NULL
    BY <1>1, <1>2, <1>4
<1>6. LoopInv'
  <2>1. CASE test' = "cleanup"
    <3>1. ti' - 1 = ti
        BY <1>1, <1>2, <2>1
    <3> QED BY <1>2, <1>5, <2>1, <3>1 DEF LoopInv
  <2>2. CASE test' = "compare"
    <3>1. \A k \in 1..Batch : pmm_test_pages'[k] = NULL
        BY <1>1, <1>2, <1>5, <2>2
    <3> QED BY <1>2, <2>2, <3>1 DEF LoopInv, TestPages
  <2> QED BY <1>1, <1>2, <2>1, <2>2
<1> QED BY <1>2, <1>3, <1>6 DEF SelfTestInv, SelfTestRestores

LEMMA StepTestEnds ==
    ASSUME SelfTestInv, TestEnds
    PROVE  SelfTestInv'
<1>1. test = "compare" /\ at = "ready" /\ ti \in Nat \ {0}
    BY DEF TestEnds, SelfTestInv, TestTypeOK, BatchInv
<1>2. /\ Return(IF free_pages = free_before THEN 0 ELSE 2) /\ OnlyTest
    BY <1>1 DEF TestEnds
<1>3. /\ PmmInv /\ PmmInv' /\ used' = used /\ owned' = owned /\ total_blocks' = total_blocks
      /\ used_blocks' = used_blocks /\ phase' = phase
    BY <1>2, NextPmmInv DEF SelfTestInv, VmmInv, OnlyTest, vars
<1>4. VmmInv' /\ at' = "ready"
    BY <1>1, <1>2, <1>3, PmmWorks, HeldIsOwned DEF SelfTestInv, VmmInv, OnlyTest, OnlyPmm
<1>5. free_pages = free_before /\ free_before > 0 /\ owned = ownedBefore
  <2>1. TestPages = {} /\ used \ TestPages = used /\ free_pages = total_blocks - Cardinality(used)
      BY <1>1, <1>3, FreePages DEF SelfTestInv, LoopInv
  <2>2. total_blocks = free_before + Cardinality(used) /\ Cardinality(used) \in Nat
      BY <1>1, <1>3, <2>1 DEF SelfTestInv, BatchInv, PmmInv, CounterExact, TypeOK
  <2>3. free_before \in Nat /\ Batch \in Nat /\ ti <= Batch /\ Batch <= free_before
      BY <1>1 DEF SelfTestInv, TestTypeOK, BatchInv, Batch
  <2> QED BY <1>1, <2>1, <2>2, <2>3 DEF SelfTestInv, BatchInv
<1>6. ~Full /\ (Full' <=> Full)
    BY <1>3, <1>5, FreePages DEF Full
<1>7. /\ test' = "off" /\ rc' = 0 /\ ti' = 1 /\ pmm_test_pages' = << >> /\ free_before' = 0
      /\ ownedBefore' = ownedBefore
    BY <1>2, <1>5 DEF Return
<1>8. TestTypeOK'
    BY <1>7 DEF TestTypeOK
<1> QED BY <1>3, <1>4, <1>5, <1>6, <1>7, <1>8 DEF SelfTestInv, BatchInv, LoopInv, SelfTestRestores

LEMMA StutterSelfTest ==
    ASSUME SelfTestInv, UNCHANGED svars
    PROVE  SelfTestInv'
<1>1. UNCHANGED vvars /\ UNCHANGED testVars
    BY DEF svars
<1>2. VmmInv'
    BY <1>1, StutterVmm DEF SelfTestInv
<1>3. /\ at' = at /\ used' = used /\ owned' = owned /\ total_blocks' = total_blocks
      /\ used_blocks' = used_blocks /\ UNCHANGED << vmm, page >>
    BY <1>1 DEF vvars, vars
<1>4. Batch' = Batch /\ TestPages' = TestPages /\ Paging' = Paging /\ DataFrames' = DataFrames
    BY <1>1, <1>3
       DEF testVars, vmm, Batch, TestPages, Paging, Tables, DataFrames, Done, Translate
<1>5. TestTypeOK' /\ BatchInv' /\ LoopInv'
    BY <1>1, <1>3, <1>4 DEF SelfTestInv, TestTypeOK, BatchInv, LoopInv, testVars
<1>6. SelfTestRestores'
    BY <1>1, <1>3 DEF SelfTestInv, SelfTestRestores, testVars, Full
<1> QED BY <1>2, <1>5, <1>6 DEF SelfTestInv

LEMMA NextSelfTestInv == SelfTestInv /\ [SNext]_svars => SelfTestInv'
<1> SUFFICES ASSUME SelfTestInv, [SNext]_svars PROVE SelfTestInv'
    OBVIOUS
<1>1. CASE Boot /\ UNCHANGED testVars
    BY <1>1, StepBoot
<1>2. CASE TestStep
    BY <1>2, StepSelfTestPmm, StepTestAlloc, StepTestFree, StepCleanup, StepTestEnds DEF TestStep
<1>3. CASE UNCHANGED svars \/ (Halted /\ UNCHANGED testVars)
    BY <1>3, StutterSelfTest DEF Halted, svars
<1> QED BY <1>1, <1>2, <1>3 DEF SNext

-----------------------------------------------------------------------------
(* The inductive invariant of start-up and the self test.                  *)
THEOREM SelfTestInvariant == SSpec => []SelfTestInv
BY SInitSelfTestInv, NextSelfTestInv, PTL DEF SSpec

(* Start-up alone, without the self test after it.                         *)
THEOREM VmmInvariant == VSpec => []VmmInv
<1>1. VmmInv /\ [VNext]_vvars => VmmInv'
    BY BootVmmInv, StutterVmm DEF VNext, Halted
<1> QED BY <1>1, VInitVmmInv, PTL DEF VSpec

(* vmm_get_page_table and vmm_map write through identity-mapped addresses: *)
(* the directory and the tables stay below VMM_LOWMEM_LIMIT and mapped to  *)
(* themselves, for every machine on which start-up gets that far.          *)
THEOREM VmmTablesEditable == SSpec => []TablesEditable
<1>1. SelfTestInv => TablesEditable
  <2> SUFFICES ASSUME SelfTestInv, at \notin {"pmm_init", "directory", "first_table", "panic"},
                      NEW f \in Paging
               PROVE  f \in Entries /\ Present(f) /\ Translate(f) = f
      BY DEF TablesEditable
  <2>1. /\ at \in {"heap_init", "map", "ready"} /\ pde[0] # NULL /\ page_directory # NULL
        /\ 0 \in Directory /\ pde \in [Directory -> Tables \cup {NULL}]
      BY PageIsHeapPage DEF SelfTestInv, VmmInv, VTypeOK, StageInv
  <2>2. f # NULL => f \in Entries
      BY DEF SelfTestInv, VmmInv, PagingInv
  <2>3. f # NULL
      BY <2>1 DEF SelfTestInv, VmmInv, PagingInv, Paging, Tables
  <2>4. PdIndex(f) = 0 /\ PtIndex(f) = f
      BY <2>2, <2>3, EntryIndices
  <2>5. pte[pde[0]][f] = f
      BY <2>1, <2>2, <2>3 DEF SelfTestInv, VmmInv, PagingInv
  <2> QED BY <2>1, <2>2, <2>3, <2>4, <2>5 DEF Present, Translate
<1> QED BY <1>1, SelfTestInvariant, PTL

LEMMA HeapFramesAreData ==
    ASSUME VmmInv
    PROVE  HeapFrames = DataFrames
<1>1. \A v \in HeapPages : Present(v) => v \in Done
    BY HeapIndices DEF VmmInv, MappedInv
<1>2. Done \subseteq HeapPages /\ \A v \in Done : Present(v)
    BY PageIsHeapPage DEF VmmInv, MappedInv
<1> QED BY <1>1, <1>2 DEF HeapFrames, DataFrames

(* pmm_alloc_page, pmm_alloc_page_low and the tables that hold what they   *)
(* return: no frame is used twice, and none is still free.                 *)
THEOREM VmmFramesDisjoint == SSpec => []FramesDisjoint
<1>1. SelfTestInv => FramesDisjoint
  <2> SUFFICES ASSUME SelfTestInv PROVE FramesDisjoint
      OBVIOUS
  <2>1. HeapFrames = DataFrames
      BY HeapFramesAreData DEF SelfTestInv
  <2> QED BY <2>1 DEF SelfTestInv, VmmInv, PagingInv, MappedInv, FramesDisjoint
<1> QED BY <1>1, SelfTestInvariant, PTL

(* heap_init leaves the whole heap mapped, one frame to a page, and no     *)
(* other page of its tables.                                               *)
THEOREM VmmHeapIsBacked == SSpec => []HeapIsBacked
<1>1. SelfTestInv => HeapIsBacked
  <2> SUFFICES ASSUME SelfTestInv, at = "ready"
               PROVE  /\ \A v \in HeapPages : Present(v)
                      /\ \A v, w \in HeapPages : Translate(v) = Translate(w) => v = w
                      /\ \A v \in Mappable : Present(v) => v \in HeapPages
      BY DEF HeapIsBacked, Mappable
  <2>1. Done = HeapPages
      BY DEF SelfTestInv, VmmInv, StageInv, Done, HeapPages
  <2> QED BY <2>1 DEF SelfTestInv, VmmInv, MappedInv
<1> QED BY <1>1, SelfTestInvariant, PTL

(* panic("VMM: ...") and the panic of heap_init mean what they say.        *)
THEOREM VmmPanicMeansExhausted == SSpec => []PanicMeansExhausted
<1>1. SelfTestInv => PanicMeansExhausted
    BY DEF SelfTestInv, VmmInv
<1> QED BY <1>1, SelfTestInvariant, PTL

(* selftest_pmm returns 0 whenever a page is free, 1 otherwise, and leaves *)
(* the PMM's owners as they were, for every batch size and every history.  *)
THEOREM PmmSelfTestRestores == SSpec => []SelfTestRestores
<1>1. SelfTestInv => SelfTestRestores
    BY DEF SelfTestInv
<1> QED BY <1>1, SelfTestInvariant, PTL

-----------------------------------------------------------------------------
(* Start-up and the self test use the PMM as its specification allows: a   *)
(* limit it knows, no page freed that they do not hold.  So what is proved *)
(* of the PMM holds in the running kernel.                                 *)
THEOREM StartUpIsPmmClient == SSpec => Spec
<1>1. SInit => Init
    BY DEF SInit, VInit
<1>2. SelfTestInv /\ [SNext]_svars => [Next]_vars
  <2> SUFFICES ASSUME SelfTestInv, [SNext]_svars PROVE [Next]_vars
      OBVIOUS
  <2>1. \A f \in AllFrames : AllocLow(f) => Next
      BY TableSize DEF AllocLow, Next
  <2>2. AllocLowFails => Next
      BY TableSize DEF AllocLowFails, Next
  <2>3. CASE Boot
      BY <2>1, <2>2, <2>3 DEF Boot, PmmInitStep, VmmDirectory, VmmFirstTable, HeapFrame, MapInNewTable,
         MapInTable, HeapReady, VmmInitFails, HeapFrameFails, MapFails, Next
  <2>4. CASE TestAlloc
      BY <2>4 DEF TestAlloc, Next
  <2>5. ASSUME NEW s, NEW then, FreeHere(s, then), test # "off", Here # NULL
        PROVE  [Next]_vars
    <3>1. Here \in owned
      <4>1. ti \in 1..Batch
          BY <2>5 DEF SelfTestInv, TestTypeOK, BatchInv, Batch
      <4> QED BY <2>5, <4>1 DEF Here, SelfTestInv, BatchInv, TestPages
    <3> QED BY <2>5, <3>1 DEF FreeHere, Next
  <2>6. CASE TestFree
    <3>1. test = "every_other" /\ FreeHere(2, "gaps") /\ Here # NULL
      <4>1. ti \in 1..Batch /\ test = "every_other"
          BY <2>6 DEF TestFree, SelfTestInv, TestTypeOK, BatchInv, Batch
      <4> QED BY <2>6, <4>1 DEF TestFree, SelfTestInv, LoopInv, Here
    <3> QED BY <2>5, <3>1
  <2>7. CASE Cleanup
    <3>1. CASE Here # NULL
        BY <2>5, <2>7, <3>1 DEF Cleanup
    <3>2. CASE Here = NULL
        BY <2>7, <3>2 DEF Cleanup, OnlyTest
    <3> QED BY <3>1, <3>2
  <2>8. CASE SelfTestPmm \/ TestEnds
      BY <2>8 DEF SelfTestPmm, TestEnds, OnlyTest
  <2>9. CASE Halted \/ UNCHANGED svars
      BY <2>9 DEF Halted, svars, vvars
  <2> QED BY <2>3, <2>4, <2>6, <2>7, <2>8, <2>9 DEF SNext, TestStep
<1> QED BY <1>1, <1>2, SelfTestInvariant, PTL DEF SSpec, Spec

(* To the rest of the kernel, memory from start-up through any number of   *)
(* self tests is a pool of frames: paging, the heap window and the test    *)
(* take their frames from it one by one, and none of them ever takes one   *)
(* that another has.                                                       *)
THEOREM StartUpImplementsPool == SSpec => PoolSpec
BY StartUpIsPmmClient, PmmImplementsPool, PTL

-----------------------------------------------------------------------------
(* What a candidate is: a clear bit of the range, in this word.            *)
LEMMA CandidateFacts ==
    ASSUME ScanInv, pc = "loop", word_index <= end_word, NEW b \in Bits
    PROVE  b \in Candidates(word_index)
             <=> /\ word_index * WORD_BITS + b \in clear
                 /\ word_index * WORD_BITS + b \in start_frame .. (end_frame - 1)
<1> DEFINE f == word_index * 32 + b
<1>1. /\ word_index \in Nat /\ start_frame \in Nat /\ end_frame \in Nat
      /\ start_frame < end_frame /\ blocks \in Nat /\ b \in 0..31
      /\ start_frame \div 32 <= word_index /\ word_index <= (end_frame - 1) \div 32
    BY DEF ScanInv, start_word, end_word, WORD_BITS, Bits
<1>2. f \in clear => f \div 8 < (blocks + 7) \div 8
  <2>1. f \in clear => f \in Nat /\ f < blocks
      BY <1>1 DEF ScanInv
  <2> QED BY <1>1, <2>1
<1>3. b \notin pmm_bitmap_word(word_index) <=> f \in clear
    BY <1>1, <1>2 DEF pmm_bitmap_word, bitmap_bytes, WORD_BITS, Bits
<1>4. b \in StartMask(word_index) <=> f >= start_frame
    BY <1>1 DEF StartMask, start_word, WORD_BITS, Bits
<1>5. b \in EndMask(word_index) <=> f <= end_frame - 1
    BY <1>1 DEF EndMask, end_word, WORD_BITS, Bits
<1> QED BY <1>1, <1>3, <1>4, <1>5 DEF Candidates, WORD_BITS

(* Behind the loop of pmm_find_free_in_range no clear bit is left.         *)
THEOREM ScanInvariant == ScanSpec => []ScanInv
<1>1. ScanInit => ScanInv
    BY ScanAssumption DEF ScanInit, ScanInv, ScanExact
<1>2. ASSUME ScanInv, [ScanNext]_scanVars PROVE ScanInv'
  <2>0. CASE UNCHANGED scanVars
      BY <1>2, <2>0 DEF scanVars, args, ScanInv, ScanExact, start_word
  <2>1. CASE Enter
      BY <1>2, <2>1 DEF Enter, args, ScanInv, ScanExact, start_word, WORD_BITS
  <2>2. ASSUME NEW b \in Bits, Found(b) PROVE ScanInv'
    <3> DEFINE f == word_index * WORD_BITS + b
    <3>1. f \in clear /\ f \in start_frame .. (end_frame - 1)
        BY <1>2, <2>2, CandidateFacts DEF Found
    <3>2. ASSUME NEW g \in start_frame .. (f - 1) PROVE g \notin clear
      <4>1. g \in Nat /\ g \in start_frame .. (end_frame - 1) /\ word_index \in Nat /\ g < f
          BY <1>2, <3>1 DEF ScanInv, WORD_BITS, Bits
      <4>2. CASE g < word_index * WORD_BITS
          BY <1>2, <2>2, <4>1, <4>2 DEF ScanInv, Found
      <4>3. CASE g >= word_index * WORD_BITS
        <5>1. PICK c \in Bits : g = word_index * WORD_BITS + c /\ c < b
          <6> DEFINE c == g - word_index * WORD_BITS
          <6>1. c \in Bits /\ g = word_index * WORD_BITS + c /\ c < b
              BY <4>1, <4>3 DEF Bits, WORD_BITS
          <6> QED BY <6>1
        <5>2. c \notin Candidates(word_index)
            BY <2>2, <5>1 DEF Found, Bits
        <5> QED BY <1>2, <2>2, <4>1, <5>1, <5>2, CandidateFacts DEF Found
      <4> QED BY <4>1, <4>2, <4>3 DEF WORD_BITS
    <3> QED BY <1>2, <2>2, <3>1, <3>2 DEF Found, args, ScanInv, ScanExact, start_word
  <2>3. CASE NextWord
    <3>1. ASSUME NEW g \in start_frame .. (end_frame - 1), g < (word_index + 1) * WORD_BITS
          PROVE  g \notin clear
      <4>1. g \in Nat /\ word_index \in Nat
          BY <1>2 DEF ScanInv
      <4>2. CASE g < word_index * WORD_BITS
          BY <1>2, <2>3, <4>2 DEF ScanInv, NextWord
      <4>3. CASE g >= word_index * WORD_BITS
        <5>1. PICK c \in Bits : g = word_index * WORD_BITS + c
          <6> DEFINE c == g - word_index * WORD_BITS
          <6>1. c \in Bits /\ g = word_index * WORD_BITS + c
              BY <3>1, <4>1, <4>3 DEF Bits, WORD_BITS
          <6> QED BY <6>1
        <5> QED BY <1>2, <2>3, <5>1, CandidateFacts DEF NextWord
      <4> QED BY <4>1, <4>2, <4>3 DEF WORD_BITS
    <3> QED BY <1>2, <2>3, <3>1 DEF NextWord, args, ScanInv, ScanExact, start_word, WORD_BITS
  <2>4. CASE NotFound
    <3>1. \A g \in start_frame .. (end_frame - 1) : g < word_index * WORD_BITS
        BY <1>2, <2>4 DEF NotFound, ScanInv, end_word, WORD_BITS
    <3> QED BY <1>2, <2>4, <3>1 DEF NotFound, args, ScanInv, ScanExact
  <2> QED BY <1>2, <2>0, <2>1, <2>2, <2>3, <2>4 DEF ScanNext
<1> QED BY <1>1, <1>2, PTL DEF ScanSpec

(* The word-mask scan is exact, for every bitmap and every range.          *)
THEOREM ScanCorrect == ScanSpec => []ScanExact
<1>1. ScanInv => ScanExact
    BY DEF ScanInv
<1> QED BY <1>1, ScanInvariant, PTL

(* PmmScan and Pmm describe one scan: over the bitmap of a PMM state, the  *)
(* words and masks of pmm_find_free_in_range compute what the allocations  *)
(* of Pmm take for its result.                                             *)
ScanFinds ==
    pc = "done" /\ blocks = total_blocks /\ clear = AllFrames \ used
        => Finds(start_frame, end_frame, result)

THEOREM ScanComputesFinds == ScanSpec => []ScanFinds
<1>1. ScanInv => ScanFinds
    BY DEF ScanInv, ScanExact, ScanFinds, Finds, AllFrames
<1> QED BY <1>1, ScanInvariant, PTL
=============================================================================
