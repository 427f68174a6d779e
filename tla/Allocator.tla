------------------------------ MODULE Allocator ------------------------------
(***************************************************************************)
(* What kmalloc and kfree promise their callers: a set of live areas, each *)
(* inside the region and apart from every other, that only grows by an     *)
(* allocation and only shrinks when its holder gives an area back.  Which  *)
(* address an allocation gets is left open.                                *)
(***************************************************************************)
EXTENDS Integers

CONSTANTS
    Limit,     \* the region is the offsets 0 .. Limit - 1
    Sizes      \* the sizes callers ask for

VARIABLE live  \* the areas callers hold: records [ptr, n]

Apart(r, s) == r.ptr + r.n <= s.ptr \/ s.ptr + s.n <= r.ptr

Init == live = {}

Alloc ==
    \E p \in 0..Limit, n \in Sizes :
        LET r == [ptr |-> p, n |-> n] IN
        /\ n > 0 /\ p + n <= Limit
        /\ \A s \in live : Apart(r, s)
        /\ live' = live \cup {r}

Free == \E r \in live : live' = live \ {r}

Next == Alloc \/ Free

Spec == Init /\ [][Next]_live
=============================================================================
