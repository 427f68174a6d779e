------------------------------- MODULE SelfTest -------------------------------
(***************************************************************************)
(* selftest_pmm of kernel/core/selftest.c over the PMM and the paging of   *)
(* Vmm: k_main runs it once after start-up and the shell's diagnose again  *)
(* and again, each time from the cursors the last one has left.            *)
(*                                                                         *)
(* One action is one iteration of a loop.  An entry of pmm_test_pages is   *)
(* a frame, NULL when it is 0.                                             *)
(***************************************************************************)
EXTENDS Vmm

CONSTANTS
    TEST_SHARE,   \* 8: the share of the free pages that is tested
    TEST_MIN,     \* 8: the fewest, if there are as many
    TEST_MAX      \* SELFTEST_PMM_MAX_PAGES

ASSUME SelfTestAssumption ==
    /\ TEST_SHARE \in Nat \ {0} /\ TEST_MIN \in Nat \ {0}
    /\ TEST_MAX \in Nat /\ TEST_MAX >= TEST_MIN

VARIABLES
    test,              \* the loop selftest_pmm is in, "off" outside
    pmm_test_pages,    \* the batch
    ti, rc,            \* the loop's i, and the value returned
    free_before,       \* free pages at the call
    ownedBefore        \* ghost: the allocated frames at the call

testVars == << test, pmm_test_pages, ti, rc, free_before, ownedBefore >>
svars == << vvars, testVars >>

free_pages == total_blocks - used_blocks
NoRc == -1

PagesToTest ==
    LET share == free_pages \div TEST_SHARE
        capped == IF share > TEST_MAX THEN TEST_MAX ELSE share
    IN  IF capped >= TEST_MIN THEN capped
        ELSE IF free_pages >= TEST_MIN THEN TEST_MIN ELSE free_pages

Batch == Len(pmm_test_pages)
Here == pmm_test_pages[ti]
SetHere(f) == pmm_test_pages' = [pmm_test_pages EXCEPT ![ti] = f]

(* The next iteration, or the first one of the loop that follows.          *)
Step(stride, then) ==
    IF ti + stride <= Batch THEN ti' = ti + stride /\ test' = test
                            ELSE ti' = 1 /\ test' = then

OnlyTest == UNCHANGED << vars, at, vmm, page, phys >>
OnlyPmm == UNCHANGED << at, vmm, page, phys >>
Kept == UNCHANGED << rc, free_before, ownedBefore >>

Return(code) ==
    /\ test' = "off" /\ rc' = code /\ ti' = 1
    /\ pmm_test_pages' = << >> /\ free_before' = 0
    /\ UNCHANGED ownedBefore

-----------------------------------------------------------------------------
SelfTestPmm ==
    /\ at = "ready" /\ test = "off"
    /\ ownedBefore' = owned
    /\ IF PagesToTest = 0
       THEN rc' = 1 /\ UNCHANGED << test, pmm_test_pages, ti, free_before >>
       ELSE /\ test' = "batch" /\ ti' = 1 /\ rc' = NoRc
            /\ pmm_test_pages' = [k \in 1..PagesToTest |-> NULL]
            /\ free_before' = free_pages
    /\ OnlyTest

(* 1) A batch of pages; 3) the gaps again.                                 *)
TestAlloc ==
    /\ test \in {"batch", "gaps"}
    /\ IF Full
       THEN /\ AllocPageFails
            /\ test' = "fail" /\ ti' = 1 /\ UNCHANGED pmm_test_pages
       ELSE /\ \E f \in AllFrames : AllocPage(f) /\ SetHere(f)
            /\ IF test = "batch" THEN Step(1, "every_other") ELSE Step(2, "cleanup")
    /\ Kept /\ OnlyPmm

(* pmm_free_page panics on a frame that is not allocated.                  *)
FreeHere(stride, then) ==
    IF FreePanics(Here)
    THEN /\ at' = "panic"
         /\ UNCHANGED << vars, vmm, page, phys, test, pmm_test_pages, ti >>
    ELSE FreePage(Here) /\ SetHere(NULL) /\ Step(stride, then) /\ OnlyPmm

(* 2) Every other page is freed.                                           *)
TestFree == test = "every_other" /\ FreeHere(2, "gaps") /\ Kept

(* The cleanup, shared by the two ends of the function.                    *)
CleanupEveryOther ==
    /\ test \in {"cleanup", "fail"}
    /\ LET then == IF test = "fail" THEN "failed" ELSE "compare"
       IN  IF Here # NULL THEN FreeHere(2, then)
           ELSE Step(2, then) /\ UNCHANGED pmm_test_pages /\ OnlyTest
    /\ Kept
Cleanup ==
    /\ test \in {"cleanup", "fail"}
    /\ LET then == IF test = "fail" THEN "failed" ELSE "compare"
       IN  IF Here # NULL THEN FreeHere(1, then)
           ELSE Step(1, then) /\ UNCHANGED pmm_test_pages /\ OnlyTest
    /\ Kept

TestEnds ==
    /\ test \in {"compare", "failed"}
    /\ Return(IF test = "failed" THEN 3 ELSE IF free_pages = free_before THEN 0 ELSE 2)
    /\ OnlyTest

SInit ==
    /\ VInit
    /\ test = "off" /\ pmm_test_pages = << >> /\ ti = 1 /\ rc = NoRc
    /\ free_before = 0 /\ ownedBefore = {}

TestStep == SelfTestPmm \/ TestAlloc \/ TestFree \/ Cleanup \/ TestEnds

SNext ==
    \/ Boot /\ UNCHANGED testVars
    \/ TestStep
    \/ Halted /\ UNCHANGED testVars

SSpec == SInit /\ [][SNext]_svars

-----------------------------------------------------------------------------
(* The self test of the PMM passes whenever a page is free, and leaves     *)
(* every frame with the owner it had, whichever memory it meets and        *)
(* however often diagnose is repeated.                                     *)
SelfTestRestores ==
    at = "ready" /\ test = "off" /\ rc # NoRc =>
        /\ owned = ownedBefore
        /\ rc = IF Full THEN 1 ELSE 0
=============================================================================
