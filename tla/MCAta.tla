-------------------------------- MODULE MCAta --------------------------------
(***************************************************************************)
(* Instances of Ata for TLC: every combination of drives, one of them with *)
(* a size and one that reports none.                                       *)
(***************************************************************************)
EXTENDS Ata

MCChannels == [Drives -> Attachable]
MCSize == [d \in Drives |-> IF d = 0 THEN 2 ELSE 0]
=============================================================================
