------------------------------ MODULE MCPmmDocs ------------------------------
(***************************************************************************)
(* What the documents of the kernel say of the memory that pmm_init leaves *)
(* free, against Pmm with the memory of an ordinary PC.                    *)
(***************************************************************************)
EXTENDS Pmm

(* Conventional memory as a BIOS reports it, up to an EBDA at 0x9FC00.     *)
ConventionalMap ==
    << [base |-> 0, length |-> 654336, type |-> USABLE],
       [base |-> 654336, length |-> 1024, type |-> 2] >>
MCConventional == {ConventionalMap}

(* The first area of .bss is the 16 KiB kernel stack of entry.asm.  The    *)
(* linker script starts .bss on the page after the initialised sections,   *)
(* and the raw kernel image, whose size is kernel_size, ends before it.    *)
KERNEL_STACK_SIZE == 16384
StackFrames ==
    Frames(EndFrame(KERNEL_BASE, kernel_size) * PMM_PAGE_SIZE, KERNEL_STACK_SIZE)

(* docs/archive/2026-06-03-review/BOOT_MEMORY_LAYOUT.md: the initial       *)
(* kernel stack is among the regions pmm_init must reserve.                *)
KernelStackReserved == phase = "ready" => StackFrames \subseteq used

(* The frames that lie wholly inside a region: its start rounded up, its   *)
(* end rounded down.                                                       *)
WholeFrames(e) ==
    { f \in AllFrames : /\ e.base <= f * PMM_PAGE_SIZE
                        /\ (f + 1) * PMM_PAGE_SIZE <= e.base + e.length }

(* README.md and BOOT_MEMORY_LAYOUT.md: a frame that is free after         *)
(* pmm_init lies wholly inside a region that the BIOS reported as usable.  *)
OnlyWholePagesFreed ==
    phase = "ready" =>
        AllFrames \ used \subseteq
            UNION { WholeFrames(mmap[k]) : k \in { n \in 1..Len(mmap) : IsUsable(mmap[n]) } }
=============================================================================
