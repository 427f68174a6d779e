------------------------------ MODULE FramePool ------------------------------
(***************************************************************************)
(* What the frame manager promises to those who call it.  It is opened     *)
(* once, with a pool of free frames.  From then on a frame leaves the pool *)
(* only into the hands of one caller, the lowest frame first, and comes    *)
(* back only when that caller returns it: pool and callers together always *)
(* have the frames of the opening.  Memory map, bitmap, counter and        *)
(* cursors are not visible.                                                *)
(***************************************************************************)
EXTENDS Integers

VARIABLES
    open,      \* whether there is a pool
    pool,      \* the free frames
    held       \* the frames that callers have

Init == open = FALSE /\ pool = {} /\ held = {}

Open ==
    /\ ~open /\ open' = TRUE
    /\ pool' \subseteq Nat
    /\ held' = held

Take ==
    /\ open /\ open' = open
    /\ \E f \in pool :
          /\ \A g \in pool : f <= g
          /\ pool' = pool \ {f}
          /\ held' = held \cup {f}

Give ==
    /\ open /\ open' = open
    /\ \E f \in held : pool' = pool \cup {f} /\ held' = held \ {f}

Next == Open \/ Take \/ Give

Spec == Init /\ [][Next]_<< open, pool, held >>
=============================================================================
