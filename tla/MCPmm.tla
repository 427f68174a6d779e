-------------------------------- MODULE MCPmm --------------------------------
(***************************************************************************)
(* Instance of Pmm and PmmScan for TLC.  The addresses are the kernel's    *)
(* own; the maps leave few frames free, so that every allocation history   *)
(* is covered.  The scan starts from bitmaps of its own, with the kernel's *)
(* word and byte widths: a behaviour is either one of the allocator, with  *)
(* no scan under way, or one of the scan, before pmm_init.                 *)
(***************************************************************************)
EXTENDS Pmm, PmmScan

Entry(b, l, t) == [base |-> b, length |-> l, type |-> t]

(* Low memory whose end is not page aligned (as at an EBDA), a reserved    *)
(* hole, an entry that overlaps another, an entry of length zero, usable   *)
(* memory around the kernel and the bitmap.                                *)
RaggedMap ==
    << Entry(8192, 14336, 1),        \* frames 2..5, ends inside frame 5
       Entry(22528, 1024, 2),
       Entry(16384, 4096, 1),        \* frame 4 again
       Entry(0, 0, 1),
       Entry(65536, 9000, 1),        \* frames 16..18
       Entry(126976, 8192, 1) >>     \* frames 31 and 32

(* Nothing below the low limit is free; one frame above it is.             *)
HighMap == << Entry(16384, 4096, 2), Entry(20480, 4096, 1), Entry(28672, 6144, 1) >>

(* Memory ends at a frame boundary, and the last frame is free.            *)
AlignedMap == << Entry(0, 28672, 1) >>

(* No usable memory at all.                                                *)
EmptyMap == << Entry(0, 4096, 2) >>

MCMaps == {RaggedMap, HighMap, AlignedMap, EmptyMap}

-----------------------------------------------------------------------------
(* Bitmaps that end inside a byte, at a byte, at a word and inside the     *)
(* third word (Totals), with at most two bits clear, at and around the     *)
(* word boundaries.                                                        *)
Edges == {0, 1, 7, 30, 31, 32, 33, 62, 63, 64, 65}
MCArgs(t) == {0, 1, 5, 31, 32, 33, 63, 64, 65, t} \cap 0..t
MCClear(t) == { c \in { {x, y} : x, y \in Edges } \cup {{}} : c \subseteq 0..(t - 1) }

NoScan ==
    /\ blocks = 0 /\ clear = {} /\ start_frame = 0 /\ end_frame = 0
    /\ word_index = 0 /\ pc = "none" /\ result = -1

MCInit ==
    \/ Init /\ NoScan
    \/ ScanInit /\ Init /\ mmap = EmptyMap /\ kernel_size = 0

MCNext ==
    \/ pc = "none" /\ Next /\ UNCHANGED scanVars
    \/ pc # "none" /\ ScanNext /\ UNCHANGED vars
    \/ pc = "done" /\ UNCHANGED << vars, scanVars >>     \* the scan has returned

MCSpec == MCInit /\ [][MCNext]_<< vars, scanVars >>
=============================================================================
