--------------------------------- MODULE Vmm ---------------------------------
(***************************************************************************)
(* The virtual memory manager, kernel/core/vmm.c, and the mapping loop of  *)
(* heap_init, on top of the PMM: k_main up to a usable heap.               *)
(*                                                                         *)
(* Every step that needs a frame is a step of Pmm.  A frame that holds a   *)
(* page table is seen as a function from entry index to frame, NULL when   *)
(* the entry is not present.  The directory and the tables are reached     *)
(* through the identity map of the first PAGES_PER_TABLE pages, the reason *)
(* why they come from pmm_alloc_page_low.  panic() halts the machine: the  *)
(* state "panic".                                                          *)
(***************************************************************************)
EXTENDS Pmm

CONSTANTS
    PAGES_PER_TABLE,   \* 1024 in vmm.h
    HEAP_FIRST,        \* the page number of HEAP_START_ADDR
    HEAP_PAGES         \* HEAP_INITIAL_SIZE in pages

LowmemLimitHigh == 2 * PAGES_PER_TABLE * PMM_PAGE_SIZE
LowmemLimitShort == (PAGES_PER_TABLE - 1) * PMM_PAGE_SIZE
VMM_LOWMEM_LIMIT == PAGES_PER_TABLE * PMM_PAGE_SIZE
NULL == -1

ASSUME VmmAssumption ==
    /\ PAGES_PER_TABLE \in Nat \ {0}
    /\ HEAP_FIRST \in Nat /\ HEAP_FIRST >= PAGES_PER_TABLE
    /\ HEAP_PAGES \in Nat \ {0}
    /\ PAGES_PER_TABLE * PMM_PAGE_SIZE \in MaxAddrs

PdIndex(page) == page \div PAGES_PER_TABLE
PtIndex(page) == page % PAGES_PER_TABLE
HeapEnd == HEAP_FIRST + HEAP_PAGES
Directory == 0 .. PdIndex(HeapEnd - 1)      \* the entries that are ever used
Entries == 0 .. (PAGES_PER_TABLE - 1)

VARIABLES
    at,               \* how far k_main has come
    page_directory,   \* the frame of the directory
    pde,              \* the directory: the frames of the page tables
    pte,              \* the tables, by their frames
    page, phys        \* heap_init's current_addr; the frame to map there

vmm == << page_directory, pde, pte >>
vvars == << vars, at, vmm, page, phys >>

VInit ==
    /\ Init
    /\ at = "pmm_init" /\ page_directory = NULL
    /\ pde = [d \in Directory |-> NULL]
    /\ pte = << >>
    /\ page = HEAP_FIRST /\ phys = NULL

PmmInitStep ==
    /\ at = "pmm_init" /\ PmmInit
    /\ at' = IF phase' = "ready" THEN "directory" ELSE at
    /\ UNCHANGED << vmm, page, phys >>

AllocLow(f) == AllocPageLow(VMM_LOWMEM_LIMIT, f)
AllocLowFails == AllocPageLowFails(VMM_LOWMEM_LIMIT)

(* vmm_init: a cleared directory, and a first table that maps the low      *)
(* pages to themselves.                                                    *)
VmmDirectory(f) ==
    /\ at = "directory" /\ AllocLow(f)
    /\ page_directory' = f /\ pde' = [d \in Directory |-> NULL]
    /\ at' = "first_table"
    /\ UNCHANGED << pte, page, phys >>

VmmFirstTable(f) ==
    /\ at = "first_table" /\ AllocLow(f)
    /\ pte' = [t \in {f} |-> [e \in Entries |-> e]]
    /\ pde' = [pde EXCEPT ![0] = f]
    /\ at' = "heap_init"
    /\ UNCHANGED << page_directory, page, phys >>

VmmInitFails ==
    /\ at \in {"directory", "first_table"} /\ AllocLowFails
    /\ at' = "panic"
    /\ UNCHANGED << vmm, page, phys >>

-----------------------------------------------------------------------------
(* heap_init and vmm_alloc_page: a frame for each page of the heap ...     *)
HeapFrameNotTaken(f) ==
    /\ at = "heap_init" /\ page < HeapEnd /\ ~Full
    /\ FirstFree(last_free_index, total_blocks, f)
    /\ phys' = f /\ at' = "map"
    /\ UNCHANGED << vars, vmm, page >>
HeapFrame(f) ==
    /\ at = "heap_init" /\ page < HeapEnd /\ AllocPage(f)
    /\ phys' = f /\ at' = "map"
    /\ UNCHANGED << vmm, page >>

HeapFrameFails ==
    /\ at = "heap_init" /\ page < HeapEnd /\ AllocPageFails
    /\ at' = "panic"
    /\ UNCHANGED << vmm, page, phys >>

(* ... that vmm_map enters in the page table ...                           *)
Mapped == page' = page + 1 /\ phys' = NULL /\ at' = "heap_init"

MapInTable ==
    /\ at = "map" /\ pde[PdIndex(page)] # NULL
    /\ pte' = [pte EXCEPT ![pde[PdIndex(page)]][PtIndex(page)] = phys]
    /\ Mapped
    /\ UNCHANGED << vars, page_directory, pde >>

(* ... which vmm_get_page_table makes if there is none.                    *)
MapInNewTableUncleared(f) ==
    /\ at = "map" /\ pde[PdIndex(page)] = NULL /\ AllocLow(f)
    /\ pte' = [t \in DOMAIN pte \cup {f} |->
                  IF t = f THEN [e \in Entries |-> phys] ELSE pte[t]]
    /\ pde' = [pde EXCEPT ![PdIndex(page)] = f]
    /\ Mapped
    /\ UNCHANGED page_directory
MapInNewTable(f) ==
    /\ at = "map" /\ pde[PdIndex(page)] = NULL /\ AllocLow(f)
    /\ pte' = [t \in DOMAIN pte \cup {f} |->
                  IF t = f THEN [e \in Entries |-> IF e = PtIndex(page) THEN phys ELSE NULL]
                  ELSE pte[t]]
    /\ pde' = [pde EXCEPT ![PdIndex(page)] = f]
    /\ Mapped
    /\ UNCHANGED page_directory

MapFails ==
    /\ at = "map" /\ pde[PdIndex(page)] = NULL /\ AllocLowFails
    /\ at' = "panic"
    /\ UNCHANGED << vmm, page, phys >>

HeapReady ==
    /\ at = "heap_init" /\ page = HeapEnd
    /\ at' = "ready"
    /\ UNCHANGED << vars, vmm, page, phys >>

-----------------------------------------------------------------------------
(* The frames of the paging structures, and the frames behind the heap.    *)
Tables == DOMAIN pte
Paging == {page_directory} \cup Tables
Present(v) == pde[PdIndex(v)] # NULL /\ pte[pde[PdIndex(v)]][PtIndex(v)] # NULL
Translate(v) == pte[pde[PdIndex(v)]][PtIndex(v)]
HeapPages == HEAP_FIRST .. (HeapEnd - 1)
HeapFrames == { Translate(v) : v \in { w \in HeapPages : Present(w) } }

(* panic() halts the machine.                                              *)
Halted == at = "panic" /\ UNCHANGED vvars

Boot ==
    \/ PmmInitStep
    \/ \E f \in AllFrames :
          VmmDirectory(f) \/ VmmFirstTable(f) \/ HeapFrame(f) \/ MapInNewTable(f)
    \/ MapInTable \/ HeapReady
    \/ VmmInitFails \/ HeapFrameFails \/ MapFails

VNext == Boot \/ Halted

VSpec == VInit /\ [][VNext]_vvars

-----------------------------------------------------------------------------
(* The paging structures can be edited after paging is on: the directory   *)
(* and every table lie in the pages that the first table maps to           *)
(* themselves, and the heap mappings have not disturbed that map.          *)
TablesEditable ==
    at \notin {"pmm_init", "directory", "first_table", "panic"} =>
        \A f \in Paging : f \in Entries /\ Present(f) /\ Translate(f) = f

(* The directory, the tables, the frames behind the heap and the one about *)
(* to be mapped are different frames, all allocated from the PMM, so that  *)
(* no store through the heap can change a translation, and no later        *)
(* allocation hands one of them out.                                       *)
FramesDisjoint ==
    LET paging == Paging \ {NULL}
        data == HeapFrames \cup ({phys} \ {NULL})
    IN  /\ paging \cap data = {}
        /\ paging \cup data \subseteq owned
        /\ page_directory \notin Tables
        /\ phys \notin HeapFrames
        /\ \A d, e \in Directory : d # e /\ pde[d] # NULL => pde[d] # pde[e]

(* Once heap_init is through, each page of the heap has a frame of its     *)
(* own, and nothing around the heap is mapped by its tables.               *)
HeapIsBacked ==
    at = "ready" =>
        /\ \A v \in HeapPages : Present(v)
        /\ \A v, w \in HeapPages : Translate(v) = Translate(w) => v = w
        /\ \A v \in PAGES_PER_TABLE .. (PAGES_PER_TABLE * (PdIndex(HeapEnd - 1) + 1) - 1) :
              Present(v) => v \in HeapPages

(* Start-up fails only for lack of memory: with no free frame at all, or,  *)
(* for the directory or a table, with none in the identity-mapped range.   *)
PanicMeansExhausted ==
    at = "panic" => \A f \in AllFrames : f < PAGES_PER_TABLE => f \in used
=============================================================================
