------------------------------- MODULE MCBoot --------------------------------
(***************************************************************************)
(* Instance of Boot for TLC: segments of eight sectors, of which a batch   *)
(* takes three, so that batches end with a segment and in its midst.       *)
(***************************************************************************)
EXTENDS Boot

(* A byte of the model stands for 256 of them, of which only the sum       *)
(* counts; no two runs of sectors of the same length have the same sum.    *)
MCDisk == [s \in 0..80 |-> [o \in 0..1 |-> (13 * s * s * s + 101 * s + 5 * o + 7) % 65281]]

Drive(s, h) == [sectors |-> s, heads |-> h]
MCGeometries == { Drive(3, 2), Drive(4, 2), Drive(2, 2), Drive(3, 4) }
=============================================================================
