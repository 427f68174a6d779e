------------------------------- MODULE MCShell -------------------------------
(***************************************************************************)
(* Instance of Shell for TLC.  Every line of up to four characters can be  *)
(* typed; a diskread is a line that begins with d.                         *)
(***************************************************************************)
EXTENDS Shell, TLC

MCPrompt == << ">" >>
MCDiskread == << "d" >>
MCNamed ==
    << "1" >> :> "print" @@ << "1", "1" >> :> "clear" @@ << "-" >> :> "pyfs_sb"
    @@ << "-", "-" >> :> "diagnose" @@ << "1", "-" >> :> "reboot"
    @@ << "-", "1" >> :> "crash"

(* A short row, and one that fills the width.                              *)
MCOutputs == { << "o", Newline >>, [k \in 1..(VGA_COLS + 1) |-> IF k <= VGA_COLS THEN "o" ELSE Newline] }
=============================================================================
