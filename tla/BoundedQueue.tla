---------------------------- MODULE BoundedQueue ----------------------------
(***************************************************************************)
(* What the keyboard driver promises to the shell: the characters typed    *)
(* come out in the order in which they went in, each of them once, and one *)
(* is dropped only while Cap of them wait to be read.                      *)
(***************************************************************************)
EXTENDS Naturals, Sequences

CONSTANTS Cap,      \* how many characters may wait
          Char,     \* the characters
          NoChar    \* no character

VARIABLES q,        \* the characters that wait
          offer,    \* the one on its way in
          out       \* the one on its way out

vars == << q, offer, out >>

Init == q = << >> /\ offer = NoChar /\ out = NoChar

Offer(ch) == offer = NoChar /\ offer' = ch /\ UNCHANGED << q, out >>

Store ==
    /\ offer # NoChar /\ offer' = NoChar
    /\ q' = IF Len(q) < Cap THEN Append(q, offer) ELSE q
    /\ UNCHANGED out

Get ==
    /\ q # << >> /\ out = NoChar
    /\ out' = Head(q) /\ q' = Tail(q)
    /\ UNCHANGED offer

Taken == out # NoChar /\ out' = NoChar /\ UNCHANGED << q, offer >>

Next == (\E ch \in Char : Offer(ch)) \/ Store \/ Get \/ Taken

Spec == Init /\ [][Next]_vars
=============================================================================
