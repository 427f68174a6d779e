-------------------------------- MODULE Heap --------------------------------
(***************************************************************************)
(* The kernel heap, kernel/core/heap.c: a first-fit allocator over one     *)
(* fixed region, whose blocks are threaded by headers that live in the     *)
(* region itself.  Addresses are byte offsets from HEAP_START_ADDR.        *)
(*                                                                         *)
(* The memory of the region is seen through its headers: the five fields   *)
(* of a HeapHeader are functions of the offset at which the header would   *)
(* start.  The walk of kmalloc is modelled one list node at a time, so     *)
(* that what it has established about the nodes it left behind can be      *)
(* stated.  kmalloc and kfree are never called from an interrupt handler,  *)
(* so calls do not overlap.                                                *)
(*                                                                         *)
(* panic() halts the machine.  The three sanity checks that lead to it are *)
(* state predicates (KmallocPanics, KfreePanics): the property is that a   *)
(* correct caller never meets one.                                         *)
(***************************************************************************)
EXTENDS Integers

CONSTANTS
    HEAP_INITIAL_SIZE,  \* bytes of the region (0x100000 in heap.h)
    Requests            \* the sizes callers pass to kmalloc

HDR == 20               \* sizeof(HeapHeader) on i386
ALIGN == 4              \* kmalloc rounds sizes up to a multiple of this
MAX_DATA == HEAP_INITIAL_SIZE - HDR
NULL == -1

ASSUME HeapSizeAssumption ==
    /\ HEAP_INITIAL_SIZE \in Nat
    /\ HEAP_INITIAL_SIZE > HDR
    /\ HEAP_INITIAL_SIZE % ALIGN = 0
ASSUME RequestsAssumption == Requests \subseteq Nat

Addr == { a \in 0..(HEAP_INITIAL_SIZE - 1) : a % ALIGN = 0 }

VARIABLES
    size, is_free, magic, next, prev,  \* the header fields, by header offset
    blocks,    \* ghost: the offsets of the headers on the list
    live,      \* ghost: what callers hold, as [ptr, n], n the bytes asked for
    freed,     \* ghost: the pointers freed since kmalloc last succeeded
    cur,       \* kmalloc's `current'
    req,       \* kmalloc's `size' after alignment; 0 when no kmalloc is running
    asked      \* kmalloc's argument

header == << size, is_free, magic, next, prev >>
call == << cur, req, asked >>
vars == << header, blocks, live, freed, call >>

-----------------------------------------------------------------------------
(* heap_init: one free block that spans the region.                        *)
Init ==
    /\ size = [a \in Addr |-> IF a = 0 THEN MAX_DATA ELSE 0]
    /\ is_free = [a \in Addr |-> a = 0]
    /\ magic = [a \in Addr |-> a = 0]
    /\ next = [a \in Addr |-> NULL]
    /\ prev = [a \in Addr |-> NULL]
    /\ blocks = {0}
    /\ live = {}
    /\ freed = {}
    /\ cur = NULL /\ req = 0 /\ asked = 0

Idle == req = 0
Walking == req > 0

AlignUp(n) == IF n % ALIGN # 0 THEN n + (ALIGN - (n % ALIGN)) ELSE n

(* kmalloc(n) refused before the walk: n is zero or larger than the heap.  *)
KmallocReject(n) ==
    /\ Idle
    /\ n = 0 \/ n > MAX_DATA
    /\ UNCHANGED vars

(* kmalloc(n) starts at start_header.                                      *)
KmallocStart(n) ==
    /\ Idle
    /\ n > 0 /\ n <= MAX_DATA
    /\ asked' = n
    /\ req' = AlignUp(n)
    /\ cur' = 0
    /\ UNCHANGED << header, blocks, live, freed >>

FitsUsedToo(a) == size[a] >= req
Fits(a) == is_free[a] /\ size[a] >= req

(* Room for another header and more than four bytes behind the request.    *)
Splits(a) == size[a] > req + HDR + 4
NewBlockNoHeader(a) == a + req
NewBlock(a) == a + HDR + req

(* The sanity check of every node met, and the bounds check of a split.    *)
KmallocPanics ==
    /\ Walking /\ cur # NULL
    /\ \/ ~magic[cur]
       \/ Fits(cur) /\ Splits(cur) /\ NewBlock(cur) >= HEAP_INITIAL_SIZE

KmallocAdvanceSkips ==
    /\ Walking /\ cur # NULL
    /\ ~Fits(cur)
    /\ cur' = IF next[cur] = NULL THEN NULL ELSE next[next[cur]]
    /\ UNCHANGED << header, blocks, live, freed, req, asked >>

KmallocAdvance ==
    /\ Walking /\ cur # NULL /\ ~KmallocPanics
    /\ ~Fits(cur)
    /\ cur' = next[cur]
    /\ UNCHANGED << header, blocks, live, freed, req, asked >>

(* The end of a successful call: the caller holds `asked' bytes at ptr.    *)
Return(ptr) ==
    /\ live' = live \cup {[ptr |-> ptr, n |-> asked]}
    /\ freed' = {}
    /\ req' = 0 /\ cur' = NULL /\ asked' = 0

(* A fit that is too tight to split: the whole block is handed out.        *)
KmallocTake ==
    /\ Walking /\ cur # NULL /\ ~KmallocPanics
    /\ Fits(cur) /\ ~Splits(cur)
    /\ is_free' = [is_free EXCEPT ![cur] = FALSE]
    /\ Return(cur + HDR)
    /\ UNCHANGED << size, magic, next, prev, blocks >>

(* The back link of the block behind the one that was split.               *)
PrevAfterSplitNoBackLink(new) == [prev EXCEPT ![new] = cur]
PrevAfterSplit(new) ==
    [a \in Addr |-> IF a = new THEN cur
                    ELSE IF a = next[cur] THEN new
                    ELSE prev[a]]

(* A fit with room for another header: the tail becomes a new free block.  *)
KmallocSplitLoop ==
    LET new == NewBlock(cur) IN
    /\ Walking /\ cur # NULL /\ Fits(cur) /\ Splits(cur)
    /\ size' = [size EXCEPT ![new] = size[cur] - req - HDR, ![cur] = req]
    /\ is_free' = [is_free EXCEPT ![new] = TRUE, ![cur] = FALSE]
    /\ magic' = [magic EXCEPT ![new] = TRUE]
    /\ next' = [next EXCEPT ![new] = new, ![cur] = new]
    /\ prev' = PrevAfterSplit(new)
    /\ blocks' = blocks \cup {new}
    /\ Return(cur + HDR)

KmallocSplit ==
    LET new == NewBlock(cur) IN
    /\ Walking /\ cur # NULL /\ ~KmallocPanics
    /\ Fits(cur) /\ Splits(cur)
    /\ size' = [size EXCEPT ![new] = size[cur] - req - HDR, ![cur] = req]
    /\ is_free' = [is_free EXCEPT ![new] = TRUE, ![cur] = FALSE]
    /\ magic' = [magic EXCEPT ![new] = TRUE]
    /\ next' = [next EXCEPT ![new] = next[cur], ![cur] = new]
    /\ prev' = PrevAfterSplit(new)
    /\ blocks' = blocks \cup {new}
    /\ Return(cur + HDR)

(* Past the last node: out of memory, kmalloc returns NULL.                *)
KmallocFail ==
    /\ Walking
    /\ cur = NULL
    /\ req' = 0 /\ asked' = 0
    /\ UNCHANGED << header, blocks, live, freed, cur >>

-----------------------------------------------------------------------------
(* kfree's sanity checks on the header of its argument.                    *)
KfreePanics(ptr) == ~magic[ptr - HDR] \/ is_free[ptr - HDR]

(* The neighbours that kfree merges a block with.                          *)
RightFree(h) == next[h] # NULL /\ is_free[next[h]]
LeftNever(h) == FALSE
LeftFree(h) == prev[h] # NULL /\ is_free[prev[h]]

SizeAfterRight(h) == IF RightFree(h) THEN size[h] + HDR + size[next[h]] ELSE size[h]
NextAfterRight(h) == IF RightFree(h) THEN next[next[h]] ELSE next[h]

FreeFlagsLost(h) == [is_free EXCEPT ![h] = ~LeftFree(h)]
FreeFlags(h) == [is_free EXCEPT ![h] = TRUE]

(* kfree: mark free, merge with the next block, merge into the previous.   *)
Kfree(r) ==
    LET h == r.ptr - HDR
        after == NextAfterRight(h)
        into == IF LeftFree(h) THEN prev[h] ELSE h
        merged == IF LeftFree(h) THEN size[prev[h]] + HDR + SizeAfterRight(h)
                                 ELSE SizeAfterRight(h)
    IN
    /\ Idle /\ ~KfreePanics(r.ptr)
    /\ is_free' = FreeFlags(h)
    /\ size' = [size EXCEPT ![h] = SizeAfterRight(h), ![into] = merged]
    /\ next' = [next EXCEPT ![h] = after, ![into] = after]
    /\ prev' = [a \in Addr |-> IF a = after /\ (RightFree(h) \/ LeftFree(h))
                               THEN into ELSE prev[a]]
    /\ blocks' = { a \in blocks : /\ RightFree(h) => a # next[h]
                                  /\ LeftFree(h) => a # h }
    /\ live' = live \ {r}
    /\ freed' = freed \cup {r.ptr}
    /\ UNCHANGED << magic, call >>

(* The holder of an area fills the bytes it asked for.  A header image     *)
(* that any of those bytes belong to is lost, which `magic' records.       *)
Overwrites(r, a) == r.ptr < a + HDR /\ a < r.ptr + r.n

ClientWrite(r) ==
    /\ Idle
    /\ magic' = [a \in Addr |-> magic[a] /\ ~Overwrites(r, a)]
    /\ UNCHANGED << size, is_free, next, prev, blocks, live, freed, call >>

KmallocStep == KmallocAdvance \/ KmallocTake \/ KmallocSplit \/ KmallocFail

Next ==
    \/ \E n \in Requests : KmallocReject(n) \/ KmallocStart(n)
    \/ KmallocStep
    \/ \E r \in live : Kfree(r) \/ ClientWrite(r)

(* A call of kmalloc runs without waiting for anything.                    *)
Spec == Init /\ [][Next]_vars /\ WF_vars(KmallocStep)

-----------------------------------------------------------------------------
End(a) == a + HDR + size[a]

(* Type invariant.                                                         *)
TypeOK ==
    /\ size \in [Addr -> Nat]
    /\ is_free \in [Addr -> BOOLEAN]
    /\ magic \in [Addr -> BOOLEAN]
    /\ next \in [Addr -> Addr \cup {NULL}]
    /\ prev \in [Addr -> Addr \cup {NULL}]
    /\ blocks \subseteq Addr
    /\ live \subseteq [ptr : Nat, n : Nat]
    /\ freed \subseteq Nat
    /\ cur \in Addr \cup {NULL}
    /\ req \in Nat
    /\ asked \in Nat

(* The list is a tiling of the region: it starts at start_header, every    *)
(* block ends where the next one starts, the last one ends with the        *)
(* region, the back links invert the forward links, and blocks do not      *)
(* overlap.  This is what the pointer surgery of the split in kmalloc and  *)
(* of the two merges in kfree has to preserve.                             *)
ListTilesHeap ==
    /\ 0 \in blocks /\ prev[0] = NULL
    /\ \A a \in blocks :
          /\ End(a) <= HEAP_INITIAL_SIZE
          /\ next[a] = NULL => End(a) = HEAP_INITIAL_SIZE
          /\ next[a] # NULL => /\ next[a] \in blocks
                               /\ next[a] = End(a)
                               /\ prev[next[a]] = a
          /\ a # 0 => prev[a] \in blocks /\ next[prev[a]] = a
    /\ \A a, b \in blocks : a < b => End(a) <= b

(* kfree leaves no two free blocks side by side, so memory is never        *)
(* fragmented by frees alone, whatever the order of the frees.             *)
FullyCoalesced ==
    \A a \in blocks : is_free[a] /\ next[a] # NULL => ~is_free[next[a]]

(* Once every caller has given its memory back, the heap is again the one  *)
(* block that heap_init made: no byte is lost to a split or a merge.       *)
EmptyHeapIsWhole ==
    live = {} => /\ blocks = {0} /\ is_free[0]
                 /\ size[0] = MAX_DATA /\ next[0] = NULL

(* Callers that stay within what they asked for and free what they hold    *)
(* never meet a panic: the headers a walk or a kfree looks at are intact,  *)
(* and a split is never out of bounds.                                     *)
NoHeapPanic ==
    /\ ~KmallocPanics
    /\ \A r \in live : ~KfreePanics(r.ptr)

(* A pointer freed twice with no successful kmalloc in between always      *)
(* panics, also when its block was merged into a neighbour and its header  *)
(* is no longer on the list.                                               *)
DoubleFreeDetected == \A p \in freed : KfreePanics(p)

(* kmalloc returns NULL only when no free block of the heap is large       *)
(* enough, and otherwise takes the one at the lowest address.              *)
FirstFit ==
    [][ /\ KmallocFail => \A a \in blocks : ~Fits(a)
        /\ \A r \in live' \ live :
              /\ Fits(r.ptr - HDR) /\ r.ptr - HDR \in blocks
              /\ \A a \in blocks : Fits(a) => r.ptr - HDR <= a ]_vars

(* Every call of kmalloc returns: the list it walks has no cycle.          *)
KmallocReturns == Walking ~> Idle

(* The heap implements the allocator's promise to its callers.             *)
Abs == INSTANCE Allocator WITH Limit <- HEAP_INITIAL_SIZE, Sizes <- Requests, live <- live
AbsSpec == Abs!Spec
=============================================================================
