-------------------------------- MODULE MCVmm --------------------------------
(***************************************************************************)
(* Vmm and the self test for TLC: eight entries in a table, a heap that    *)
(* crosses from one table to the next, and memory that runs out at each    *)
(* step of start-up, or of the self test, in one of the maps.              *)
(***************************************************************************)
EXTENDS SelfTest

Usable(b, l) == [base |-> b, length |-> l, type |-> 1]
Page == PMM_PAGE_SIZE

(* n low frames, besides the two that are reserved, and m high ones with a *)
(* hole before the last k.                                                 *)
MemoryMap(n, m, k) ==
    << Usable(Page, (n + (IF n >= 5 THEN 1 ELSE 0)) * Page), Usable(8 * Page, m * Page),
       Usable((9 + m) * Page, k * Page) >>

MCMaps == { MemoryMap(n, m, k) : n \in 0..6, m \in {0, 1, 2, 4, 5}, k \in 0..5 }
=============================================================================
