------------------------------- MODULE PmmScan -------------------------------
(***************************************************************************)
(* pmm_find_free_in_range of kernel/core/pmm.c: the word-at-a-time scan of *)
(* the frame bitmap.  A word and a mask are sets of bit positions.  The    *)
(* module shows that the scan computes Pmm!Finds: masks at both ends, a    *)
(* range inside one word, and a last word that is only partly backed by    *)
(* bytes of the bitmap.                                                    *)
(***************************************************************************)
EXTENDS Integers

CONSTANTS
    Totals,     \* the values of total_blocks
    Clear(_),   \* the sets of clear bits to scan, given total_blocks
    Args(_)     \* the values of start_frame and end_frame, given total_blocks

WORD_BITS == 32
Bits == 0 .. (WORD_BITS - 1)

ASSUME ScanAssumption ==
    /\ Totals \subseteq Nat
    /\ \A t \in Totals : /\ \A c \in Clear(t) : c \subseteq 0 .. (t - 1)
                         /\ Args(t) \subseteq 0 .. t

VARIABLES blocks, clear,             \* total_blocks, and the frames whose bit is 0
          start_frame, end_frame,    \* the arguments
          word_index, pc, result

args == << blocks, clear, start_frame, end_frame >>
scanVars == << args, word_index, pc, result >>

bitmap_bytes == (blocks + 7) \div 8   \* bitmap_size

start_word == start_frame \div WORD_BITS
end_word == (end_frame - 1) \div WORD_BITS

(* The bits set in a word.  Bytes beyond bitmap_size read as 0xFF, and the  *)
(* padding bits of the last byte were set by pmm_init.                     *)
pmm_bitmap_word(w) ==
    { b \in Bits : \/ (w * WORD_BITS + b) \div 8 >= bitmap_bytes
                   \/ w * WORD_BITS + b \notin clear }

(* The mask of the first and of the last word of the range.                *)
StartMask(w) ==
    IF w = start_word THEN { b \in Bits : b >= start_frame % WORD_BITS } ELSE Bits
EndMaskShort(w) ==
    IF w = end_word THEN { b \in Bits : b < (end_frame - 1) % WORD_BITS } ELSE Bits
EndMask(w) ==
    IF w = end_word THEN { b \in Bits : b <= (end_frame - 1) % WORD_BITS } ELSE Bits

Candidates(w) == ((Bits \ pmm_bitmap_word(w)) \cap StartMask(w)) \cap EndMask(w)

ScanInit ==
    /\ blocks \in Totals
    /\ clear \in Clear(blocks)
    /\ start_frame \in Args(blocks)
    /\ end_frame \in Args(blocks)
    /\ word_index = 0 /\ pc = "enter" /\ result = -1

Enter ==
    /\ pc = "enter"
    /\ pc' = IF start_frame >= end_frame THEN "done" ELSE "loop"
    /\ word_index' = start_word
    /\ UNCHANGED << args, result >>

(* pmm_find_first_set_bit picks the lowest candidate.                      *)
Found(b) ==
    /\ pc = "loop" /\ word_index <= end_word
    /\ b \in Candidates(word_index)
    /\ \A c \in Candidates(word_index) : b <= c
    /\ result' = word_index * WORD_BITS + b
    /\ pc' = "done"
    /\ UNCHANGED << args, word_index >>

NextWord ==
    /\ pc = "loop" /\ word_index <= end_word
    /\ Candidates(word_index) = {}
    /\ word_index' = word_index + 1
    /\ UNCHANGED << args, pc, result >>

NotFound ==
    /\ pc = "loop" /\ word_index > end_word
    /\ pc' = "done"
    /\ UNCHANGED << args, word_index, result >>

ScanNext == Enter \/ (\E b \in Bits : Found(b)) \/ NextWord \/ NotFound

ScanSpec == ScanInit /\ [][ScanNext]_scanVars

-----------------------------------------------------------------------------
(* The scan returns the first frame of the range whose bit is clear, and   *)
(* -1 if and only if there is none.                                        *)
ScanExact ==
    pc = "done" =>
        \/ /\ result \in start_frame .. (end_frame - 1) /\ result \in clear
           /\ \A g \in start_frame .. (result - 1) : g \notin clear
        \/ result = -1 /\ \A g \in start_frame .. (end_frame - 1) : g \notin clear
=============================================================================
