------------------------------ MODULE MCStorage ------------------------------
(***************************************************************************)
(* Storage with sector numbers of four bits: a registry that overflows, a  *)
(* slave of unknown size, and tables with holes, an extended entry and an  *)
(* entry that passes the last sector number.                               *)
(***************************************************************************)
EXTENDS Storage

E(type, start, count) == [type |-> type, start |-> start, count |-> count]

MCSize == [d \in Drives |-> IF d = 0 THEN 8 ELSE 0]

MCTables ==
    { << E("data", 1, 3), E("data", 4, 4), E("data", 14, 5), E("empty", 0, 0) >>,
      << E("empty", 0, 0), E("extended", 2, 6), E("data", 5, 9), E("data", 0, 0) >>,
      << E("data", 13, 6), E("extended", 1, 1), E("data", 2, 2), E("data", 7, 1) >>,
      << E("empty", 3, 3), E("empty", 0, 0), E("empty", 0, 0), E("data", 6, 15) >> }
=============================================================================
