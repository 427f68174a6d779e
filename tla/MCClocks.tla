------------------------------ MODULE MCClocks -------------------------------
(***************************************************************************)
(* The tick counter and the CMOS clock for TLC.                            *)
(***************************************************************************)
EXTENDS Rtc

(* A second that changes every field, and one that carries a digit.        *)
MCRollovers ==
    { << << 59, 59, 23, 31, 12, 2029 >>, << 0, 0, 0, 1, 1, 2030 >> >>,
      << << 9, 19, 13, 28, 2, 2026 >>, << 10, 19, 13, 28, 2, 2026 >> >> }

MCModes == [binary : BOOLEAN, h24 : BOOLEAN]
=============================================================================
