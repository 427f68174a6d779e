----------------------------- MODULE MCKeyboard -----------------------------
(***************************************************************************)
(* Instance of Keyboard for TLC.                                           *)
(***************************************************************************)
EXTENDS Keyboard

Code(kind, key) == [kind |-> kind, key |-> key]

(* The modifiers, and a key they apply to: it gives two characters.        *)
MCCodes ==
    { Code("shift_down", "x"), Code("shift_up", "x"), Code("caps", "x"),
      Code("letter", "a") }

(* Bound: shift goes down only from up and up only from down.  Repeated    *)
(* codes of a shift key that is held down are left to the proofs.          *)
Typist ==
    Len(wire') > Len(wire) =>
        LET kind == wire'[Len(wire')].kind IN
        /\ kind = "shift_down" => ~held
        /\ kind = "shift_up" => held

MCSpec == Init /\ [][Next /\ Typist]_vars /\ Fairness
=============================================================================
